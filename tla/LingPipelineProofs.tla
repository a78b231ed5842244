------------------------- MODULE LingPipelineProofs -------------------------
(***************************************************************************)
(* For any experts, groups, score vectors, layers, requests and positions: *)
(* the masked selection is the group-limited law, and the 8b pipeline      *)
(* drops no expert, routes every decode step by fresh predictions and      *)
(* keeps at most two whole layers.                                         *)
(***************************************************************************)
EXTENDS LingPipeline, Induction, FiniteSetTheorems, TLAPS

-----------------------------------------------------------------------------
(* Selecting the best entries.                                              *)

(* There are k best entries, for any k that fits. *)
LEMMA TopKSelects ==
  ASSUME NEW score, IsFiniteSet(DOMAIN score),
         \A i \in DOMAIN score : score[i] \in Int,
         NEW k \in Nat, k <= Cardinality(DOMAIN score)
  PROVE  IsTopK(TopK(score, k), score, k)
<1> DEFINE D == DOMAIN score
           Some(n) == \E S \in SUBSET D : IsTopK(S, score, n)
           T == {n \in Nat : n <= Cardinality(D) => Some(n)}
<1>0. Cardinality(D) \in Nat
  BY FS_CardinalityType
<1>1. ASSUME NEW n \in Nat, \A m \in Nat : m < n => m \in T
      PROVE  n \in T
  <2> SUFFICES ASSUME n <= Cardinality(D) PROVE Some(n)
    OBVIOUS
  <2>1. CASE n = 0
    <3>1. IsTopK({}, score, 0)
      BY FS_EmptySet DEF IsTopK
    <3> QED BY <2>1, <3>1
  <2>2. CASE n # 0
    <3>1. n - 1 \in T /\ n - 1 <= Cardinality(D) /\ n - 1 \in Nat
      BY <1>0, <1>1, <2>2
    <3>2. PICK S \in SUBSET D : IsTopK(S, score, n - 1)
      BY <3>1
    <3>3. /\ Cardinality(S) = n - 1 /\ IsFiniteSet(S)
          /\ \A i \in S, j \in D \ S : score[i] >= score[j]
      BY <3>2, FS_Subset DEF IsTopK
    <3>4. D \ S # {}
      <4>1. CASE D \ S = {}
        <5>1. D = S
          BY <4>1
        <5>2. Cardinality(D) = n - 1
          BY <3>3, <5>1
        <5> QED BY <1>0, <5>2
      <4> QED BY <4>1
    <3>5. IsFiniteSet(D \ S)
      BY FS_Difference
    <3>6. PICK m \in D \ S : \A x \in D \ S : score[m] >= score[x]
      BY <3>4, <3>5, GreatestExists
    <3> DEFINE R == S \cup {m}
    <3>7. Cardinality(R) = n
      <4>1. Cardinality(R) = Cardinality(S) + 1
        BY <3>3, <3>6, FS_AddElement
      <4> QED BY <3>3, <4>1
    <3>8. \A i \in R, j \in D \ R : score[i] >= score[j]
      BY <3>3, <3>6
    <3>9. R \in SUBSET D
      BY <3>6
    <3>10. IsTopK(R, score, n)
      BY <3>7, <3>8, <3>9 DEF IsTopK
    <3> QED BY <3>9, <3>10
  <2> QED BY <2>1, <2>2
<1> HIDE DEF T
<1>2. T = Nat
  <2>1. T \in SUBSET Nat
    BY DEF T
  <2> QED BY <1>1, <2>1, SetInduction
<1>3. Some(k)
  BY <1>2 DEF T
<1> QED BY <1>3 DEF TopK

-----------------------------------------------------------------------------
(* Groups of experts.                                                       *)

GroupSize == NumExperts \div NGroup

(* Division without a remainder. *)
LEMMA Division ==
  ASSUME NEW n \in Nat, NEW m \in Nat \ {0}, n % m = 0
  PROVE  n \div m \in Nat /\ n = m * (n \div m)
<1> DEFINE k == n \div m
<1>1. k \in Nat
  OBVIOUS
<1>2. \A q \in Nat : q = n \div m => n = m * q
  OBVIOUS
<1>3. n = m * k
  BY <1>1, <1>2
<1> QED BY <1>1, <1>3

(* The expert at place i of group g. *)
LEMMA Place ==
  ASSUME NEW m \in Nat \ {0}, NEW g \in Nat, NEW i \in 0..(m - 1)
  PROVE  m * g + i \in Nat /\ (m * g + i) \div m = g
<1>1. m * g + i \in Nat
  OBVIOUS
<1>2. (m * g + i) \div m = g
  OBVIOUS
<1> QED BY <1>1, <1>2

(* The groups divide the experts evenly. *)
LEMMA GroupShape ==
  /\ GroupSize \in Nat \ {0} /\ NumExperts = GroupSize * NGroup
  /\ IsFiniteSet(Experts) /\ Cardinality(Experts) = NumExperts
  /\ IsFiniteSet(Groups) /\ Cardinality(Groups) = NGroup
  /\ \A g \in Groups, i \in 0..(GroupSize - 1) :
       GroupSize * g + i \in Members(g)
<1> DEFINE m == GroupSize
<1>1. NumExperts \in Nat /\ NGroup \in Nat \ {0} /\ NumExperts # 0
      /\ NumExperts % NGroup = 0 /\ NGroup <= NumExperts
  BY GroupAssumption
<1>2. m \in Nat /\ NumExperts = NGroup * m
  <2>1. m \in Nat /\ NumExperts = NGroup * m
    BY <1>1, Division DEF GroupSize
  <2> HIDE DEF m
  <2> QED BY <1>1, <2>1
<1> HIDE DEF m
<1>3. m # 0 /\ NGroup * m = m * NGroup
  BY <1>1, <1>2
<1>4. /\ IsFiniteSet(Experts) /\ Cardinality(Experts) = NumExperts
      /\ IsFiniteSet(Groups) /\ Cardinality(Groups) = NGroup
  <2>1. \A n \in Nat \ {0} : IsFiniteSet(0..(n - 1))
                             /\ Cardinality(0..(n - 1)) = n
    BY FS_Interval
  <2> QED BY <1>1, <2>1 DEF Experts, Groups
<1>5. ASSUME NEW g \in Groups, NEW i \in 0..(m - 1)
      PROVE  m * g + i \in Members(g)
  <2>1. g \in Nat /\ g < NGroup
    BY <1>1 DEF Groups
  <2>2. m * g + i \in Nat /\ (m * g + i) \div m = g
    BY <1>2, <1>3, <2>1, Place
  <2>3. m * g + i < m * NGroup
    BY <1>1, <1>2, <1>3, <2>1
  <2>4. m * g + i \in Experts
    BY <1>1, <1>2, <1>3, <2>2, <2>3 DEF Experts
  <2> QED BY <2>2, <2>4 DEF Members, GroupOf, m, GroupSize
<1> QED BY <1>2, <1>3, <1>4, <1>5 DEF m

(* Every expert is in a group. *)
LEMMA ExpertGroup ==
  ASSUME NEW e \in Experts
  PROVE  GroupOf(e) \in Groups
<1> DEFINE m == GroupSize
           q == e \div m
<1>1. m \in Nat \ {0} /\ NumExperts = m * NGroup /\ NGroup \in Nat
      /\ NumExperts \in Nat
  BY GroupShape, GroupAssumption
<1> HIDE DEF m
<1>2. e \in Nat /\ e < m * NGroup
  BY <1>1 DEF Experts
<1>3. q \in Nat /\ q < NGroup
  BY <1>1, <1>2
<1> HIDE DEF q
<1>4. q \in Groups
  BY <1>1, <1>3 DEF Groups
<1> QED BY <1>4 DEF GroupOf, q, m, GroupSize

(* n groups hold at least n times the group size of experts. *)
LEMMA GroupsHold ==
  ASSUME NEW K \in SUBSET Groups
  PROVE  LET E == {e \in Experts : GroupOf(e) \in K}
         IN  /\ IsFiniteSet(E)
             /\ Cardinality(K) * GroupSize <= Cardinality(E)
<1> DEFINE E == {e \in Experts : GroupOf(e) \in K}
           m == GroupSize
           P == K \X (0..(m - 1))
           f == [p \in P |-> m * p[1] + p[2]]
<1>1. m \in Nat \ {0} /\ IsFiniteSet(Experts) /\ IsFiniteSet(Groups)
      /\ \A g \in Groups, i \in 0..(m - 1) : m * g + i \in Members(g)
  BY GroupShape
<1>2. IsFiniteSet(E)
  BY <1>1, FS_Subset
<1>3. IsFiniteSet(K)
  BY <1>1, FS_Subset
<1>4. IsFiniteSet(0..(m - 1)) /\ Cardinality(0..(m - 1)) = m
  BY <1>1, FS_Interval
<1>5. Cardinality(P) = Cardinality(K) * m
  BY <1>3, <1>4, FS_Product
<1>6. \A g \in K : g \in Nat /\ g \in Groups
  BY DEF Groups
<1>7. \A g \in K, i \in 0..(m - 1) :
        m * g + i \in E /\ (m * g + i) \div m = g
  BY <1>1, <1>6 DEF Members, GroupOf, GroupSize
<1> HIDE DEF m, E
<1>8. f \in [P -> E]
  BY <1>7
<1>9. ASSUME NEW p \in P, NEW q \in P, f[p] = f[q] PROVE p = q
  <2>1. /\ p[1] \in K /\ p[2] \in 0..(m - 1) /\ p = <<p[1], p[2]>>
        /\ q[1] \in K /\ q[2] \in 0..(m - 1) /\ q = <<q[1], q[2]>>
    OBVIOUS
  <2>2. m * p[1] + p[2] = m * q[1] + q[2]
    BY <1>9
  <2>3. p[1] = q[1]
    BY <1>7, <2>1, <2>2
  <2>4. p[2] = q[2]
    BY <1>1, <1>6, <2>1, <2>2, <2>3
  <2> QED BY <2>1, <2>3, <2>4, Zenon
<1> HIDE DEF f
<1>10. f \in Injection(P, E)
  BY <1>8, <1>9 DEF Injection, IsInjective
<1>11. Cardinality(P) <= Cardinality(E)
  BY <1>2, <1>10, FS_Injection
<1> QED BY <1>2, <1>5, <1>11 DEF m, E

(* The group score is the sum of two scores of the group. *)
LEMMA GroupScoreType ==
  ASSUME NEW select, \A e \in Experts : select[e] \in Int,
         GroupSize > 1, NEW g \in Groups
  PROVE  GroupScore(select, g) \in Int
<1> DEFINE M == Members(g)
           D == {p \in M \X M : p[1] # p[2]}
           f == [p \in D |-> select[p[1]] + select[p[2]]]
           Sums == {select[i] + select[j] : i, j \in M}
<1>1. IsFiniteSet(M) /\ M \subseteq Experts
  BY GroupShape, FS_Subset DEF Members
<1>2. IsFiniteSet(D)
  <2>1. IsFiniteSet(M \X M)
    BY <1>1, FS_Product
  <2> QED BY <2>1, FS_Subset
<1>3. D # {}
  <2> DEFINE a == GroupSize * g + 0
             b == GroupSize * g + 1
  <2>1. GroupSize \in Nat
        /\ 0 \in 0..(GroupSize - 1) /\ 1 \in 0..(GroupSize - 1)
    BY GroupShape
  <2>2. a \in M /\ b \in M
    BY <2>1, GroupShape
  <2>3. a # b
    BY <2>1 DEF Groups
  <2>4. <<a, b>> \in D
    BY <2>2, <2>3
  <2> QED BY <2>4
<1>4. \A p \in D : f[p] \in Int
  BY <1>1
<1>5. PICK m \in D : \A p \in D : f[m] >= f[p]
  <2> HIDE DEF D, f
  <2> QED BY <1>2, <1>3, <1>4, GreatestExists
<1> DEFINE s == select[m[1]] + select[m[2]]
<1>6. s \in Sums /\ s \in Int
  BY <1>1
<1>7. \E i, j \in M : i # j /\ s = select[i] + select[j]
  OBVIOUS
<1>8. ASSUME NEW i \in M, NEW j \in M, i # j
      PROVE  s >= select[i] + select[j]
  <2>1. <<i, j>> \in D
    BY <1>8
  <2>2. f[<<i, j>>] = select[i] + select[j] /\ f[m] = s
    BY <2>1
  <2> QED BY <1>5, <2>1, <2>2
<1>9. Sums \subseteq Int
  BY <1>1
<1>10. \E x \in Sums : /\ \E i, j \in M : i # j /\ x = select[i] + select[j]
                       /\ \A i, j \in M : i # j => x >= select[i] + select[j]
  BY <1>6, <1>7, <1>8
<1>11. GroupScore(select, g) \in Sums
  <2> DEFINE Best(x) ==
        /\ \E i, j \in M : i # j /\ x = select[i] + select[j]
        /\ \A i, j \in M : i # j => x >= select[i] + select[j]
  <2>1. \E x \in Sums : Best(x)
    BY <1>10
  <2>2. GroupScore(select, g) = CHOOSE x \in Sums : Best(x)
    BY DEF GroupScore
  <2> HIDE DEF Best, Sums
  <2> QED BY <2>1, <2>2
<1> QED BY <1>9, <1>11

(* What the code keeps are TopkGroup groups of best score. *)
LEMMA KeptGroups ==
  ASSUME NEW select, \A e \in Experts : select[e] \in Int
  PROVE  IsTopK(Groups \ DroppedGroups(select),
                [g \in Groups |-> GroupScore(select, g)], TopkGroup)
<1> DEFINE drop == DroppedGroups(select)
           kept == Groups \ drop
           score == [g \in Groups |-> GroupScore(select, g)]
           neg == [g \in Groups |-> -score[g]]
           n == NGroup - TopkGroup
<1>1. TopkGroup \in Nat /\ NGroup \in Nat /\ TopkGroup <= NGroup
      /\ IsFiniteSet(Groups) /\ Cardinality(Groups) = NGroup
  BY GroupAssumption, GroupShape
<1>2. CASE ~(NGroup > TopkGroup)
  <2>1. drop = {}
    BY <1>2 DEF DroppedGroups
  <2>2. kept = Groups /\ NGroup = TopkGroup
    BY <1>1, <1>2, <2>1
  <2> QED BY <1>1, <2>2 DEF IsTopK
<1>3. CASE NGroup > TopkGroup
  <2>1. GroupSize > 1
    BY <1>1, <1>3, GroupAssumption DEF GroupSize
  <2>2. \A g \in Groups : score[g] \in Int
    BY <2>1, GroupScoreType
  <2>3. drop = BottomK(score, n)
    BY <1>3 DEF DroppedGroups
  <2> HIDE DEF score, drop
  <2>4. DOMAIN score = Groups
    BY DEF score
  <2>5. drop = TopK(neg, n)
    BY <2>3, <2>4 DEF BottomK
  <2>6. \A g \in Groups : neg[g] \in Int
    BY <2>2
  <2>7. DOMAIN neg = Groups
    OBVIOUS
  <2>8. n \in Nat /\ n <= NGroup
    BY <1>1
  <2> HIDE DEF neg, n
  <2>9. IsTopK(drop, neg, n)
    BY <1>1, <2>5, <2>6, <2>7, <2>8, TopKSelects
  <2>10. /\ drop \subseteq Groups /\ Cardinality(drop) = n
         /\ \A i \in drop, j \in Groups \ drop : neg[i] >= neg[j]
    BY <2>7, <2>9 DEF IsTopK
  <2>11. kept \subseteq Groups /\ Groups \cap drop = drop
    BY <2>10
  <2>12. Cardinality(kept) = Cardinality(Groups) - Cardinality(drop)
    BY <1>1, <2>11, FS_Difference
  <2>13. Cardinality(kept) = TopkGroup
    BY <1>1, <2>8, <2>10, <2>12 DEF n
  <2>14. ASSUME NEW i \in kept, NEW j \in Groups \ kept
         PROVE  score[i] >= score[j]
    <3>1. j \in drop /\ i \in Groups /\ j \in Groups
      OBVIOUS
    <3>2. neg[j] >= neg[i]
      BY <2>10, <3>1
    <3>3. neg[j] = -score[j] /\ neg[i] = -score[i]
      BY <3>1 DEF neg
    <3> QED BY <2>2, <3>1, <3>2, <3>3
  <2>15. IsTopK(kept, score, TopkGroup)
    BY <2>4, <2>11, <2>13, <2>14 DEF IsTopK
  <2> QED BY <2>15 DEF score, drop
<1> QED BY <1>2, <1>3

(* A score vector whose entries all lie above NegInf. *)
Scores(select) == \A e \in Experts : select[e] \in Int /\ select[e] > NegInf

(* The masked selection obeys the law: no expert of a dropped group gets   *)
(* in, since the kept groups hold enough.                                  *)
LEMMA LawHolds ==
  ASSUME NEW select, Scores(select)
  PROVE  /\ ObeysLaw(TopK(GroupLimited(select), TopKExperts), select)
         /\ TopK(GroupLimited(select), TopKExperts) \subseteq Experts
         /\ Cardinality(TopK(GroupLimited(select), TopKExperts))
              = TopKExperts
<1> DEFINE drop == DroppedGroups(select)
           kept == Groups \ drop
           E == {e \in Experts : GroupOf(e) \in kept}
           limited == GroupLimited(select)
           S == TopK(limited, TopKExperts)
<1>0. \A e \in Experts : select[e] \in Int /\ select[e] > NegInf
  BY DEF Scores
<1>1. IsTopK(kept, [g \in Groups |-> GroupScore(select, g)], TopkGroup)
  BY <1>0, KeptGroups
<1>2. Cardinality(kept) = TopkGroup
  BY <1>1 DEF IsTopK
<1>3. /\ TopKExperts \in Nat /\ TopkGroup \in Nat /\ GroupSize \in Nat
      /\ TopKExperts <= TopkGroup * GroupSize
      /\ IsFiniteSet(Experts) /\ Cardinality(Experts) = NumExperts
      /\ NumExperts \in Nat
  <2>1. GroupSize \in Nat /\ NumExperts \in Nat /\ TopkGroup \in Nat
    BY GroupShape, GroupAssumption
  <2>2. TopkGroup * GroupSize \in Nat
    BY <2>1
  <2> QED BY <2>1, <2>2, GroupShape, GroupAssumption DEF GroupSize
<1>4. IsFiniteSet(E) /\ TopkGroup * GroupSize <= Cardinality(E)
  BY <1>2, GroupsHold
<1>5. Cardinality(E) \in Nat /\ Cardinality(E) <= Cardinality(Experts)
  BY <1>3, <1>4, FS_Subset, FS_CardinalityType
<1>6. TopKExperts <= Cardinality(E) /\ TopKExperts <= NumExperts
  <2> DEFINE p == TopkGroup * GroupSize
  <2>1. p \in Nat
    BY <1>3
  <2> HIDE DEF p
  <2>2. TopKExperts <= p /\ p <= Cardinality(E)
    BY <1>3, <1>4 DEF p
  <2> QED BY <1>3, <1>5, <2>1, <2>2
<1>7. DOMAIN limited = Experts
  BY DEF GroupLimited
<1>8. \A e \in Experts :
        limited[e] = IF e \in E THEN select[e] ELSE NegInf
  <2> SUFFICES ASSUME NEW e \in Experts
               PROVE  limited[e] = IF e \in E THEN select[e] ELSE NegInf
    OBVIOUS
  <2>1. GroupOf(e) \in Groups
    BY ExpertGroup
  <2>2. limited[e] = IF GroupOf(e) \in drop THEN NegInf ELSE select[e]
    BY DEF GroupLimited
  <2>3. e \in E <=> GroupOf(e) \notin drop
    BY <2>1
  <2> QED BY <2>2, <2>3
<1> HIDE DEF limited, drop
<1>9. NegInf \in Int
  BY DEF NegInf
<1>10. \A e \in Experts : limited[e] \in Int
  BY <1>0, <1>8, <1>9
<1>11. IsTopK(S, limited, TopKExperts)
  BY <1>3, <1>6, <1>7, <1>10, TopKSelects
<1> HIDE DEF S, E
<1>12. /\ S \subseteq Experts /\ Cardinality(S) = TopKExperts
       /\ \A i \in S, j \in Experts \ S : limited[i] >= limited[j]
  BY <1>7, <1>11 DEF IsTopK
<1>13. S \subseteq E
  <2>1. SUFFICES ASSUME NEW i \in S, i \notin E PROVE FALSE
    OBVIOUS
  <2>2. E \subseteq Experts
    BY DEF E
  <2>3. E \subseteq S
    <3>1. SUFFICES ASSUME NEW j \in E, j \notin S PROVE FALSE
      OBVIOUS
    <3>2. limited[i] = NegInf /\ limited[j] = select[j] /\ j \in Experts
      BY <1>8, <1>12, <2>1, <2>2
    <3>3. limited[i] >= limited[j]
      BY <1>12, <3>1, <3>2
    <3>4. select[j] > NegInf /\ select[j] \in Int
      BY <1>0, <3>2
    <3> QED BY <1>9, <3>2, <3>3, <3>4
  <2>4. IsFiniteSet(S)
    BY <1>3, <1>12, FS_Subset
  <2>5. E # S
    BY <2>1
  <2>6. Cardinality(E) < Cardinality(S)
    <3>1. Cardinality(E) <= Cardinality(S)
          /\ (Cardinality(S) = Cardinality(E) => S = E)
      BY <2>3, <2>4, FS_Subset
    <3> QED BY <1>3, <1>5, <1>12, <2>5, <3>1
  <2> QED BY <1>3, <1>5, <1>6, <1>12, <2>6
<1>14. IsTopK(S, [e \in E |-> select[e]], TopKExperts)
  <2>1. E \subseteq Experts
    BY DEF E
  <2>2. ASSUME NEW i \in S, NEW j \in E \ S
        PROVE  [e \in E |-> select[e]][i] >= [e \in E |-> select[e]][j]
    <3>1. limited[i] = select[i] /\ limited[j] = select[j]
      BY <1>8, <1>13, <2>1
    <3>2. limited[i] >= limited[j]
      BY <1>12, <2>1
    <3> QED BY <1>13, <3>1, <3>2
  <2> QED BY <1>12, <1>13, <2>2 DEF IsTopK
<1>15. ObeysLaw(S, select)
  <2>1. kept \in SUBSET Groups
    OBVIOUS
  <2> QED BY <1>1, <1>14, <2>1 DEF ObeysLaw, E
<1> QED BY <1>12, <1>15 DEF S, limited

-----------------------------------------------------------------------------
(* The inductive invariant.                                                 *)

Live == phase \notin {"warmup", "idle"}
Running == phase \in {"forward", "boundary"}
(* From the reset to the heads' first run, and from there on. *)
Prompting == phase = "prefillEnd" \/ (Running /\ kind # "step")
Decoding == phase \in {"history", "decode", "post"}
            \/ (Running /\ kind = "step")

(* Which chunks are left at which position. *)
ControlInv ==
  /\ Running =>
       CASE kind = "step" -> pos < MaxPos
         [] kind = "prompt" -> chunks = <<1>> /\ pos = 0
         [] kind = "prefill" ->
              \/ pos = 0 /\ chunks \in {<<2>>, <<2, 1>>, <<2, 2>>}
              \/ pos = 2 /\ chunks \in {<<1>>, <<2>>}
  /\ phase = "boundary" => li = 0
  /\ phase = "post" => kind = "step"
  /\ phase = "prefillEnd" => kind = "prefill" /\ pos > 0 /\ tail[2] = pos

(* Only the layer just run and the last one have whole-layer weights, and  *)
(* outside a prefill none has.                                              *)
WindowInv ==
  /\ ~fullLayer => full = {}
  /\ Live => full \subseteq
       IF phase = "forward" /\ Width > 1 THEN {li - 1, LayerCount - 1}
       ELSE {LayerCount - 1}
  /\ (Decoding \/ (Live /\ kind # "prefill")) => full = {}

PrevToken == <<req, pos - 1>>
Captured(o, token, prev) ==
  mIn[o] = token /\ lastTopk[o] = [last |-> token, prev |-> prev]

(* A forward captures the owners one by one; the prev-token feature is     *)
(* there once the heads have run.                                           *)
FeatureInv ==
  prerouter => \A o \in Owners :
    /\ Running /\ (phase = "boundary" \/ o < li) =>
         Captured(o, LastToken,
                  IF Width > 1 THEN <<req, pos + Width - 2>> ELSE None)
    /\ phase = "prefillEnd" =>
         Captured(o, PrevToken,
                  IF tail[1] = 1 THEN None ELSE <<req, pos - 2>>)
    /\ Prompting => prevOh[o] = None
    /\ Decoding => prevOh[o] = PrevToken

(* A consumer has no prediction while prompting, and one made from the     *)
(* previous token from then on.                                             *)
PredInv ==
  /\ \A l \in LayerIds : pgCache[l] # None => prerouter /\ l \in Consumers
  /\ Prompting => \A l \in LayerIds : pgCache[l] = None
  /\ (prerouter /\ Decoding) => \A c \in Consumers :
       /\ pgCache[c] # None
       /\ pgCache[c].at = PrevToken /\ pgCache[c].cur = PrevToken
       /\ IF pgCache[c].prev = None THEN tail[1] = 1 /\ pos = tail[2]
          ELSE pgCache[c].prev = <<req, pos - 2>>

(* The slots of a consumer are its prediction at any time. *)
SlotInv ==
  prerouter => \A c \in Consumers :
    /\ Prompting => nxt[c] = {} /\ active[c] = {} /\ atUse[c] = {}
    /\ Decoding => Promoted(c) = SelectFromLogits(pgCache[c].logits)

(* No prompt is routed by a prediction. *)
RouteInv ==
  (Live /\ kind # "step") =>
    \A l \in LayerIds : routedBy[l] # None => routedBy[l].by = None

IInv == /\ TypeOK /\ ControlInv /\ WindowInv /\ FeatureInv /\ PredInv
        /\ SlotInv /\ RouteInv /\ FreshRouting /\ ZeroDrop
        /\ FullStackWindow

-----------------------------------------------------------------------------
(* None is neither a token, nor a prediction, nor a record of a call. *)
LEMMA NoneIsNothing ==
  /\ \A x, y : <<x, y>> # None
  /\ \A p \in Predictions : p # None
  /\ \A x, y : [used |-> x, by |-> y] # None
  BY DEF None, Predictions

(* The chunks a prompt is cut into, and what is left of them. *)
LEMMA ChunkFacts ==
  /\ Head(<<1>>) = 1 /\ Head(<<2>>) = 2
  /\ Head(<<2, 1>>) = 2 /\ Head(<<2, 2>>) = 2
  /\ Tail(<<1>>) = <<>> /\ Tail(<<2>>) = <<>>
  /\ Tail(<<2, 1>>) = <<1>> /\ Tail(<<2, 2>>) = <<2>>
  /\ <<1>> \notin {<<>>, <<2>>, <<2, 1>>, <<2, 2>>}
  /\ <<2>> \notin {<<>>, <<2, 1>>, <<2, 2>>}
  OBVIOUS

(* The layer after the last is the first one of the next forward. *)
LEMMA Wraps == \A n \in Nat : \A i \in 0..(n - 1) :
                 (i + 1) % n = IF i = n - 1 THEN 0 ELSE i + 1
  OBVIOUS

(* How many tokens a forward has. *)
LEMMA WidthType ==
  ASSUME TypeOK, ControlInv, Running
  PROVE  /\ Width \in 1..2 /\ (kind # "prefill" => Width = 1)
         /\ pos + Width \in 1..(MaxPos + 1)
         /\ LastToken \in Tokens
         /\ Width > 1 => <<req, pos + Width - 2>> \in Tokens
<1> USE BoundAssumption
<1>1. CASE kind = "step"
  <2>1. Width = 1 /\ pos \in 0..(MaxPos - 1)
    BY <1>1 DEF TypeOK, ControlInv, Width
  <2> QED BY <1>1, <2>1 DEF LastToken, Tokens, TypeOK
<1>2. CASE kind = "prompt"
  <2>1. Width = 1 /\ pos = 0
    BY <1>2, ChunkFacts DEF ControlInv, Width
  <2> QED BY <1>2, <2>1 DEF LastToken, Tokens, TypeOK
<1>3. CASE kind = "prefill"
  <2>1. Width \in 1..2 /\ pos \in {0, 2}
    BY <1>3, ChunkFacts DEF ControlInv, Width
  <2>2. pos + Width \in 1..4
    BY <2>1
  <2> QED BY <1>3, <2>1, <2>2 DEF LastToken, Tokens, TypeOK
<1> QED BY <1>1, <1>2, <1>3 DEF TypeOK

Selections == {S \in SUBSET Experts : Cardinality(S) = TopKExperts}

(* What a gate, a block or the stager selects fills the slots exactly. *)
LEMMA SelectionFacts ==
  /\ \A s \in Logits : /\ SelectFromLogits(s) \in Selections
                       /\ GroupSelectFromLogits(s) = SelectFromLogits(s)
                       /\ BailingGate(s) \in Selections
  /\ \A S \in Selections : S # {} /\ Smallest(S, TopKExperts) = S
  /\ \A S, n : Smallest(S, n) \subseteq S
<1>1. ASSUME NEW s \in Logits
      PROVE  /\ SelectFromLogits(s) \in Selections
             /\ GroupSelectFromLogits(s) = SelectFromLogits(s)
             /\ BailingGate(s) \in Selections
  <2> DEFINE b == [e \in Experts |-> s[e] + Bias[e]]
  <2>1. Scores(s) /\ Scores(b)
    BY ScoreAssumption DEF Scores
  <2>2. SelectFromLogits(s) \in Selections
    BY <2>1, LawHolds DEF SelectFromLogits, Selections
  <2> HIDE DEF b
  <2>3. TopK(GroupLimited(b), TopKExperts) \in Selections
    BY <2>1, LawHolds DEF Selections
  <2>4. BailingGate(s) = TopK(GroupLimited(b), TopKExperts)
    BY DEF BailingGate, b
  <2> QED BY <2>2, <2>3, <2>4
      DEF SelectFromLogits, GroupSelectFromLogits
<1>2. ASSUME NEW S \in Selections
      PROVE  S # {} /\ Smallest(S, TopKExperts) = S
  <2>1. TopKExperts \in Nat /\ TopKExperts >= 1
    <3>1. TopkGroup * (NumExperts \div NGroup) \in Int
      BY GroupShape, GroupAssumption DEF GroupSize
    <3> QED BY <3>1, GroupAssumption
  <2>2. /\ S \subseteq Experts /\ Cardinality(S) = TopKExperts
        /\ IsFiniteSet(S)
    BY GroupShape, FS_Subset DEF Selections
  <2>3. S # {}
    BY <2>1, <2>2, FS_EmptySet
  <2>4. ASSUME NEW e \in S
        PROVE  Cardinality({x \in S : x < e}) < TopKExperts
    <3> DEFINE B == {x \in S : x < e}
    <3>1. B \in SUBSET S /\ e \notin B
      BY <2>2 DEF Experts
    <3>2. IsFiniteSet(B) /\ Cardinality(B) <= Cardinality(S)
          /\ (Cardinality(S) = Cardinality(B) => S = B)
      BY <2>2, <3>1, FS_Subset
    <3>3. Cardinality(B) \in Nat /\ Cardinality(B) # Cardinality(S)
      BY <3>1, <3>2, FS_CardinalityType
    <3> HIDE DEF B
    <3>4. Cardinality(B) < TopKExperts
      BY <2>1, <2>2, <3>2, <3>3
    <3> QED BY <3>4 DEF B
  <2> QED BY <2>3, <2>4 DEF Smallest
<1> QED BY <1>1, <1>2 DEF Smallest

(* Two layers at most. *)
LEMMA WindowSize ==
  ASSUME NEW S, NEW a, NEW b, S \subseteq {a, b}
  PROVE  Cardinality(S) <= 2
<1>1. IsFiniteSet({a}) /\ Cardinality({a}) = 1
  BY FS_Singleton
<1>2. /\ IsFiniteSet({a} \cup {b})
      /\ Cardinality({a} \cup {b}) <= 2
  BY <1>1, FS_AddElement
<1>3. {a} \cup {b} = {a, b}
  OBVIOUS
<1>4. Cardinality(S) \in Nat /\ Cardinality({a, b}) \in Nat
      /\ Cardinality(S) <= Cardinality({a, b})
  BY <1>2, <1>3, FS_Subset, FS_CardinalityType
<1> QED BY <1>2, <1>3, <1>4

(* The captures a reset leaves. *)
LEMMA ResetCaptures ==
  ASSUME TypeOK, PredInv, ResetState
  PROVE  /\ mIn' \in [LayerIds -> OrNone(Tokens)]
         /\ lastTopk' \in [LayerIds -> [last : OrNone(Tokens),
                                        prev : OrNone(Tokens)]]
         /\ prevOh' \in [LayerIds -> OrNone(Tokens)]
         /\ prerouter => \A o \in Owners : prevOh'[o] = None
         /\ pgCache' = [l \in LayerIds |-> None]
         /\ \A f \in {nxt', active', pending', atUse', lastUsed',
                      prefillTopk'} : f = [l \in LayerIds |-> {}]
         /\ full' = {}
<1> USE LayerAssumption DEF ResetState, Blank
<1>1. None \in OrNone(Tokens)
      /\ NoTopk \in [last : OrNone(Tokens), prev : OrNone(Tokens)]
  BY DEF OrNone, NoTopk
<1>2. CASE prerouter
  <2>1. /\ mIn' \in [LayerIds -> OrNone(Tokens)]
        /\ lastTopk' \in [LayerIds -> [last : OrNone(Tokens),
                                       prev : OrNone(Tokens)]]
        /\ prevOh' \in [LayerIds -> OrNone(Tokens)]
    <3>1. mIn' \in [LayerIds -> OrNone(Tokens)]
      BY <1>1, <1>2 DEF TypeOK
    <3>2. lastTopk' \in [LayerIds -> [last : OrNone(Tokens),
                                      prev : OrNone(Tokens)]]
      <4> DEFINE R == [last : OrNone(Tokens), prev : OrNone(Tokens)]
      <4>1. lastTopk \in [LayerIds -> R] /\ NoTopk \in R
        BY <1>1 DEF TypeOK
      <4> HIDE DEF R
      <4>2. lastTopk' \in [LayerIds -> R]
        BY <1>2, <4>1
      <4> QED BY <4>2 DEF R
    <3>3. prevOh' \in [LayerIds -> OrNone(Tokens)]
      BY <1>1, <1>2 DEF TypeOK
    <3> QED BY <3>1, <3>2, <3>3
  <2>2. \A o \in Owners : prevOh'[o] = None
    BY <1>2 DEF Owners, LayerIds
  <2> QED BY <1>2, <2>1, <2>2
<1>3. CASE ~prerouter
  <2>1. pgCache' = [l \in LayerIds |-> None]
    BY <1>3 DEF captures, TypeOK, PredInv
  <2> QED BY <1>3, <2>1 DEF captures, TypeOK
<1> QED BY <1>2, <1>3

(* The engine starts with nothing captured. *)
LEMMA InitIInv == Init => IInv
<1> SUFFICES ASSUME Init PROVE IInv
  OBVIOUS
<1> USE LayerAssumption, BoundAssumption DEF Init, Blank
<1>1. TypeOK
  BY DEF TypeOK, LayerIds, OrNone, config, NoTopk
<1>2. FullStackWindow
  BY FS_EmptySet DEF FullStackWindow
<1>3. PredInv /\ FreshRouting /\ ZeroDrop
  BY DEF PredInv, FreshRouting, ZeroDrop, LayerIds, Prompting, Decoding,
         Running, Consumers, FirstPgConsumer
<1> QED BY <1>1, <1>2, <1>3
    DEF IInv, Live, ControlInv, WindowInv, FeatureInv, SlotInv, RouteInv,
        Prompting, Decoding, Running

(* A reset and the start on a prompt. *)
LEMMA BeginIInv ==
  ASSUME IInv, NEW prompt \in Prompts, Begin(prompt), req' \in 0..Requests
  PROVE  IInv'
<1> USE LayerAssumption, BoundAssumption DEF IInv, Begin, Blank
<1>1. /\ mIn' \in [LayerIds -> OrNone(Tokens)]
      /\ lastTopk' \in [LayerIds -> [last : OrNone(Tokens),
                                     prev : OrNone(Tokens)]]
      /\ prevOh' \in [LayerIds -> OrNone(Tokens)]
      /\ prerouter => \A o \in Owners : prevOh'[o] = None
      /\ pgCache' = [l \in LayerIds |-> None]
      /\ \A f \in {nxt', active', pending', atUse', lastUsed',
                   prefillTopk'} : f = [l \in LayerIds |-> {}]
      /\ full' = {}
  BY ResetCaptures
<1>2. /\ pos' = 0 /\ li' = 0 /\ chunks' = prompt /\ phase' = "forward"
      /\ kind' = IF prompt = <<1>> THEN "prompt" ELSE "prefill"
      /\ routedBy' = [l \in LayerIds |-> None] /\ tail' = <<0, 0>>
      /\ UNCHANGED <<prerouter, historySlots, fullLayer>>
  BY DEF config
<1> HIDE DEF Begin
<1>3. TypeOK'
  <2>1. \A f \in {nxt', active', pending', atUse', lastUsed', prefillTopk'} :
          f \in [LayerIds -> SUBSET Experts]
    BY <1>1
  <2>2. /\ pgCache' \in [LayerIds -> OrNone(Predictions)]
        /\ routedBy' \in [LayerIds ->
             OrNone([used : Tokens, by : OrNone(Predictions)])]
    BY <1>1, <1>2 DEF OrNone
  <2>3. /\ tail' \in (0..2) \X (0..(MaxPos + 1))
        /\ li' \in LayerIds /\ pos' \in 0..(MaxPos + 1)
    BY <1>2 DEF LayerIds
  <2>4. config' \in BOOLEAN \X BOOLEAN \X BOOLEAN
    BY <1>2 DEF TypeOK, config
  <2>5. /\ phase' = "forward" /\ kind' \in {"prefill", "prompt", "step"}
        /\ chunks' \in Prompts \cup {<<>>} /\ full' \in SUBSET StreamLayers
    BY <1>1, <1>2
  <2> QED BY <1>1, <2>1, <2>2, <2>3, <2>4, <2>5, Zenon DEF TypeOK
<1>4. ControlInv'
  <2>1. prompt = <<1>> \/ (prompt \in {<<2>>, <<2, 1>>, <<2, 2>>}
                           /\ prompt # <<1>>)
    BY ChunkFacts DEF Prompts
  <2> QED BY <1>2, <2>1 DEF ControlInv, Running
<1>5. WindowInv' /\ FullStackWindow'
  BY <1>1, <1>2, FS_EmptySet DEF WindowInv, FullStackWindow, Live, Decoding
<1>6. FeatureInv'
  <2>1. Prompting' /\ ~Decoding'
    BY <1>2 DEF Prompting, Decoding, Running
  <2>2. \A o \in Owners : ~(o < 0)
    BY DEF Owners
  <2> QED BY <1>1, <1>2, <2>1, <2>2 DEF FeatureInv
<1>7. PredInv' /\ SlotInv'
  <2>1. Prompting' /\ ~Decoding'
    BY <1>2 DEF Prompting, Decoding, Running
  <2>2. Consumers' = Consumers /\ Consumers \subseteq LayerIds
    BY <1>2 DEF Consumers, FirstPgConsumer, LayerIds
  <2> QED BY <1>1, <1>2, <2>1, <2>2 DEF PredInv, SlotInv
<1>8. RouteInv' /\ FreshRouting' /\ ZeroDrop'
  <2>1. \A l \in LayerIds : routedBy'[l] = None /\ atUse'[l] = {}
    BY <1>1, <1>2
  <2>2. Consumers' \subseteq LayerIds
    BY <1>2 DEF Consumers, FirstPgConsumer, LayerIds
  <2> QED BY <2>1, <2>2 DEF RouteInv, FreshRouting, ZeroDrop
<1> QED BY <1>3, <1>4, <1>5, <1>6, <1>7, <1>8

(* The engine goes idle and leaves its state. *)
LEMMA GoIdleIInv ==
  ASSUME IInv, phase' = "idle",
         UNCHANGED <<config, req, pos, kind, chunks, li, full, captures,
                     slots, routedBy, tail>>
  PROVE  IInv'
<1> USE DEF IInv
<1>1. /\ UNCHANGED <<prerouter, historySlots, fullLayer, config, req, pos,
                     kind, chunks, li, full, mIn, lastTopk, prevOh, pgCache,
                     nxt, active, pending, atUse, lastUsed, prefillTopk,
                     routedBy, tail>>
      /\ phase' = "idle"
  BY DEF config, captures, slots
<1>2. TypeOK'
  BY <1>1 DEF TypeOK
<1>3. ~Live' /\ ~Running' /\ ~Prompting' /\ ~Decoding'
      /\ Consumers' = Consumers
  BY <1>1 DEF Live, Running, Prompting, Decoding, Consumers, FirstPgConsumer
<1>4. ControlInv' /\ WindowInv' /\ FeatureInv' /\ SlotInv' /\ RouteInv'
  BY <1>1, <1>3
     DEF ControlInv, WindowInv, FeatureInv, SlotInv, RouteInv
<1>5. PredInv' /\ FreshRouting'
  BY <1>1, <1>3 DEF PredInv, FreshRouting
<1>6. ZeroDrop' /\ FullStackWindow'
  BY <1>1 DEF ZeroDrop, FullStackWindow
<1> QED BY <1>2, <1>4, <1>5, <1>6

(* A step's end; the warm-up's step resets the engine. *)
LEMMA StepPostIInv ==
  ASSUME IInv, StepPost
  PROVE  IInv'
<1> USE LayerAssumption, BoundAssumption DEF IInv, Blank
<1>1. /\ UNCHANGED <<prerouter, historySlots, fullLayer, config, req, pos,
                     kind, chunks, li, routedBy, tail>>
      /\ phase = "post" /\ Consumers' = Consumers
  BY DEF StepPost, config, Consumers, FirstPgConsumer
<1>2. CASE req = 0
  <2>1. ResetState /\ phase' = "idle"
    BY <1>2 DEF StepPost
  <2>2. /\ mIn' \in [LayerIds -> OrNone(Tokens)]
        /\ lastTopk' \in [LayerIds -> [last : OrNone(Tokens),
                                       prev : OrNone(Tokens)]]
        /\ prevOh' \in [LayerIds -> OrNone(Tokens)]
        /\ pgCache' = [l \in LayerIds |-> None]
        /\ \A f \in {nxt', active', pending', atUse', lastUsed',
                     prefillTopk'} : f = [l \in LayerIds |-> {}]
        /\ full' = {}
    BY <2>1, ResetCaptures
  <2>3. TypeOK'
    <3>1. \A f \in {nxt', active', pending', atUse', lastUsed',
                    prefillTopk'} : f \in [LayerIds -> SUBSET Experts]
      BY <2>2
    <3>2. /\ pgCache' \in [LayerIds -> OrNone(Predictions)]
          /\ full' \in SUBSET StreamLayers
      BY <2>2 DEF OrNone
    <3>3. /\ phase' = "idle" /\ req' = req /\ pos' = pos /\ kind' = kind
          /\ chunks' = chunks /\ li' = li /\ routedBy' = routedBy
          /\ tail' = tail /\ config' = config
      BY <1>1, <2>1
    <3> QED BY <2>2, <3>1, <3>2, <3>3, Zenon DEF TypeOK
  <2>4. ~Live' /\ ~Running' /\ ~Prompting' /\ ~Decoding'
    BY <2>1 DEF Live, Running, Prompting, Decoding
  <2>5. ControlInv' /\ WindowInv' /\ FeatureInv' /\ SlotInv' /\ RouteInv'
    BY <2>1, <2>2, <2>4
       DEF ControlInv, WindowInv, FeatureInv, SlotInv, RouteInv
  <2>6. PredInv' /\ FreshRouting'
    BY <2>1, <2>2, <2>4 DEF PredInv, FreshRouting
  <2>7. ZeroDrop' /\ FullStackWindow'
    BY <2>1, <2>2, FS_EmptySet DEF ZeroDrop, FullStackWindow
  <2> QED BY <2>3, <2>5, <2>6, <2>7
<1>3. CASE req # 0
  <2> DEFINE synced(l) == StagedMode(l) /\ pending[l] # {}
             used(l) == IF synced(l) THEN pending[l] ELSE lastUsed[l]
             again(l) == /\ StagedMode(l) /\ used(l) # {}
                         /\ prerouter => l < FirstPgConsumer
  <2>1. /\ lastUsed' = [l \in LayerIds |-> used(l)]
        /\ pending' = [l \in LayerIds |-> IF synced(l) THEN {}
                                          ELSE pending[l]]
        /\ active' = [l \in LayerIds |->
              IF again(l) THEN Smallest(used(l), TopKExperts)
              ELSE active[l]]
        /\ nxt' = [l \in LayerIds |-> IF again(l) THEN {} ELSE nxt[l]]
        /\ phase' = "decode"
        /\ UNCHANGED <<mIn, lastTopk, prevOh, pgCache, full, atUse,
                       prefillTopk>>
    BY <1>3 DEF StepPost, captures
  <2>2. \A l \in LayerIds :
          /\ used(l) \in SUBSET Experts
          /\ Smallest(used(l), TopKExperts) \in SUBSET Experts
    <3>1. \A l \in LayerIds : used(l) \in SUBSET Experts
      BY DEF TypeOK
    <3> QED BY <3>1, SelectionFacts
  <2>3. prerouter => \A c \in Consumers : ~again(c)
    BY DEF Consumers, FirstPgConsumer
  <2> HIDE DEF again, used
  <2>4. TypeOK'
    <3> HIDE DEF synced
    <3>1. /\ nxt' \in [LayerIds -> SUBSET Experts]
          /\ pending' \in [LayerIds -> SUBSET Experts]
      BY <2>1 DEF TypeOK
    <3>2. /\ active' \in [LayerIds -> SUBSET Experts]
          /\ lastUsed' \in [LayerIds -> SUBSET Experts]
      BY <2>1, <2>2 DEF TypeOK
    <3>3. (\A f \in {nxt, active, pending, atUse, lastUsed, prefillTopk} :
             f \in [LayerIds -> SUBSET Experts])'
      BY <2>1, <3>1, <3>2 DEF TypeOK
    <3> QED BY <1>1, <2>1, <3>3 DEF TypeOK
  <2>5. kind = "step" /\ Live /\ Decoding /\ Live' /\ Decoding'
        /\ ~Prompting' /\ ~Running'
    BY <1>1, <2>1 DEF ControlInv, Live, Decoding, Prompting, Running
  <2>6. ControlInv' /\ WindowInv' /\ FullStackWindow'
    BY <1>1, <2>1, <2>5 DEF ControlInv, WindowInv, FullStackWindow
  <2>7. FeatureInv' /\ PredInv'
    BY <1>1, <2>1, <2>5 DEF FeatureInv, PredInv, PrevToken
  <2>8. SlotInv'
    <3>1. Consumers \subseteq LayerIds
      BY DEF Consumers, FirstPgConsumer, LayerIds
    <3>2. prerouter => \A c \in Consumers : Promoted(c)' = Promoted(c)
      BY <2>1, <2>3, <3>1 DEF Promoted
    <3> QED BY <1>1, <2>1, <2>5, <3>2 DEF SlotInv
  <2>9. RouteInv' /\ FreshRouting' /\ ZeroDrop'
    BY <1>1, <2>1, <2>5 DEF RouteInv, FreshRouting, ZeroDrop
  <2> QED BY <2>4, <2>6, <2>7, <2>8, <2>9
<1> QED BY <1>2, <1>3

(* A step begins. *)
LEMMA StepPreIInv ==
  ASSUME IInv, StepPre
  PROVE  IInv'
<1> USE LayerAssumption, BoundAssumption DEF IInv, Blank
<1>1. /\ phase = "decode" /\ pos < MaxPos
      /\ nxt' = [l \in LayerIds |->
                    IF prerouter /\ l < FirstPgConsumer
                    THEN Staged(l, lastUsed[l]) ELSE nxt[l]]
      /\ kind' = "step" /\ phase' = "forward" /\ li' = 0
      /\ routedBy' = [l \in LayerIds |-> None]
      /\ UNCHANGED <<prerouter, historySlots, fullLayer, config, req, pos,
                     chunks, full, mIn, lastTopk, prevOh, pgCache, active,
                     pending, atUse, lastUsed, prefillTopk, tail>>
      /\ Consumers' = Consumers /\ Consumers \subseteq LayerIds
  BY DEF StepPre, config, captures, Consumers, FirstPgConsumer, LayerIds
<1>2. TypeOK'
  <2>1. \A l \in LayerIds : Staged(l, lastUsed[l]) \in SUBSET Experts
    <3>1. \A l \in LayerIds : /\ nxt[l] \in SUBSET Experts
                              /\ lastUsed[l] \in SUBSET Experts
      BY DEF TypeOK
    <3> QED BY <3>1, SelectionFacts DEF Staged
  <2>2. nxt' \in [LayerIds -> SUBSET Experts]
    BY <1>1, <2>1 DEF TypeOK
  <2>3. (\A f \in {nxt, active, pending, atUse, lastUsed, prefillTopk} :
           f \in [LayerIds -> SUBSET Experts])'
    BY <1>1, <2>2 DEF TypeOK
  <2>4. routedBy' \in [LayerIds ->
          OrNone([used : Tokens, by : OrNone(Predictions)])]
        /\ li' \in LayerIds
    BY <1>1 DEF OrNone, LayerIds
  <2> QED BY <1>1, <2>3, <2>4 DEF TypeOK
<1>3. Live /\ Decoding /\ Live' /\ Decoding' /\ Running' /\ ~Prompting'
      /\ Width' = 1
  BY <1>1 DEF Live, Decoding, Prompting, Running, Width
<1>4. ControlInv' /\ WindowInv' /\ FullStackWindow'
  BY <1>1, <1>3 DEF ControlInv, WindowInv, FullStackWindow
<1>5. FeatureInv'
  <2>1. \A o \in Owners : ~(o < 0)
    BY DEF Owners
  <2> QED BY <1>1, <1>3, <2>1 DEF FeatureInv, PrevToken
<1>6. PredInv'
  BY <1>1, <1>3 DEF PredInv, PrevToken
<1>7. SlotInv'
  <2>1. prerouter => \A c \in Consumers : Promoted(c)' = Promoted(c)
    <3>1. \A c \in Consumers : c \in LayerIds /\ ~(c < FirstPgConsumer)
      BY <1>1 DEF Consumers, FirstPgConsumer
    <3> QED BY <1>1, <3>1 DEF Promoted
  <2> QED BY <1>1, <1>3, <2>1 DEF SlotInv
<1>8. RouteInv' /\ FreshRouting' /\ ZeroDrop'
  BY <1>1 DEF RouteInv, FreshRouting, ZeroDrop
<1> QED BY <1>2, <1>4, <1>5, <1>6, <1>7, <1>8

(* The layers without a prediction are staged from the prefill. *)
LEMMA StageFromPrefillIInv ==
  ASSUME IInv, StageFromPrefill
  PROVE  IInv'
<1> USE LayerAssumption, BoundAssumption DEF IInv
<1> DEFINE known(l) == /\ StagedMode(l) /\ prefillTopk[l] # {}
                       /\ prerouter => l < FirstPgConsumer
<1>1. /\ phase = "history" /\ phase' = "decode"
      /\ lastUsed' = [l \in LayerIds |-> IF known(l) THEN prefillTopk[l]
                                         ELSE lastUsed[l]]
      /\ nxt' = [l \in LayerIds |-> IF known(l)
                                    THEN Staged(l, prefillTopk[l])
                                    ELSE nxt[l]]
      /\ UNCHANGED <<prerouter, historySlots, fullLayer, config, req, pos,
                     kind, chunks, li, full, mIn, lastTopk, prevOh, pgCache,
                     active, pending, atUse, prefillTopk, routedBy, tail>>
      /\ Consumers' = Consumers /\ Consumers \subseteq LayerIds
  BY DEF StageFromPrefill, config, captures, Consumers, FirstPgConsumer,
         LayerIds
<1>2. prerouter => \A c \in Consumers : ~known(c)
  BY DEF Consumers, FirstPgConsumer
<1> HIDE DEF known
<1>3. TypeOK'
  <2>1. \A l \in LayerIds : Staged(l, prefillTopk[l]) \in SUBSET Experts
    <3>1. \A l \in LayerIds : /\ nxt[l] \in SUBSET Experts
                              /\ prefillTopk[l] \in SUBSET Experts
      BY DEF TypeOK
    <3> QED BY <3>1, SelectionFacts DEF Staged
  <2>2. /\ nxt' \in [LayerIds -> SUBSET Experts]
        /\ lastUsed' \in [LayerIds -> SUBSET Experts]
    <3>1. /\ nxt \in [LayerIds -> SUBSET Experts]
          /\ lastUsed \in [LayerIds -> SUBSET Experts]
          /\ prefillTopk \in [LayerIds -> SUBSET Experts]
      BY DEF TypeOK
    <3> QED BY <1>1, <2>1, <3>1
  <2>3. (\A f \in {nxt, active, pending, atUse, lastUsed, prefillTopk} :
           f \in [LayerIds -> SUBSET Experts])'
    BY <1>1, <2>2 DEF TypeOK
  <2> QED BY <1>1, <2>3 DEF TypeOK
<1>4. Live /\ Decoding /\ Live' /\ Decoding' /\ ~Running' /\ ~Prompting'
  BY <1>1 DEF Live, Decoding, Prompting, Running
<1>5. ControlInv' /\ WindowInv' /\ FullStackWindow'
  BY <1>1, <1>4 DEF ControlInv, WindowInv, FullStackWindow
<1>6. FeatureInv' /\ PredInv'
  BY <1>1, <1>4 DEF FeatureInv, PredInv, PrevToken
<1>7. SlotInv'
  <2>1. prerouter => \A c \in Consumers : Promoted(c)' = Promoted(c)
    BY <1>1, <1>2 DEF Promoted
  <2> QED BY <1>1, <1>4, <2>1 DEF SlotInv
<1>8. RouteInv' /\ FreshRouting' /\ ZeroDrop'
  BY <1>1, <1>4 DEF RouteInv, FreshRouting, ZeroDrop
<1> QED BY <1>3, <1>5, <1>6, <1>7, <1>8

(* The end of a prefill chunk. *)
LEMMA ChunkBoundaryIInv ==
  ASSUME IInv, ChunkBoundary
  PROVE  IInv'
<1> USE LayerAssumption, BoundAssumption DEF IInv
<1>1. /\ phase = "boundary" /\ kind = "prefill"
      /\ pos' = pos + Width /\ tail' = <<Width, pos + Width>>
      /\ chunks' = Tail(chunks)
      /\ phase' = IF Tail(chunks) = <<>> THEN "prefillEnd" ELSE "forward"
      /\ UNCHANGED <<prerouter, historySlots, fullLayer, config, req, kind,
                     li, full, mIn, lastTopk, prevOh, pgCache, nxt, active,
                     pending, atUse, lastUsed, prefillTopk, routedBy>>
      /\ Consumers' = Consumers
  BY DEF ChunkBoundary, config, captures, slots, Consumers, FirstPgConsumer
<1>2. Running /\ li = 0 /\ Live /\ Live' /\ Prompting /\ ~Decoding
      /\ Prompting' /\ ~Decoding'
  BY <1>1 DEF Running, Live, ControlInv, Prompting, Decoding
<1>3. Width \in 1..2 /\ pos + Width \in 1..(MaxPos + 1)
  BY <1>2, WidthType
<1>4. \/ Tail(chunks) = <<>> /\ phase' = "prefillEnd"
      \/ /\ pos = 0 /\ Width = 2 /\ Tail(chunks) \in {<<1>>, <<2>>}
         /\ phase' = "forward"
  <2>1. \/ Tail(chunks) = <<>>
        \/ pos = 0 /\ Head(chunks) = 2 /\ Tail(chunks) \in {<<1>>, <<2>>}
    BY <1>1, <1>2, ChunkFacts DEF ControlInv
  <2> QED BY <1>1, <2>1, ChunkFacts DEF Width
<1>5. TypeOK'
  <2>1. tail' \in (0..2) \X (0..(MaxPos + 1)) /\ pos' \in 0..(MaxPos + 1)
    BY <1>1, <1>3
  <2>2. chunks' \in Prompts \cup {<<>>}
    BY <1>1, <1>4 DEF Prompts
  <2> QED BY <1>1, <2>1, <2>2 DEF TypeOK
<1>6. ControlInv'
  <2>1. CASE phase' = "prefillEnd"
    <3>1. pos \in Nat /\ pos' > 0 /\ tail'[2] = pos'
      BY <1>1, <1>3 DEF TypeOK
    <3> QED BY <1>1, <2>1, <3>1 DEF ControlInv, Running
  <2>2. CASE phase' = "forward"
    <3>1. pos' = 2 /\ chunks' \in {<<1>>, <<2>>}
      BY <1>1, <1>4, <2>2
    <3> QED BY <1>1, <2>2, <3>1 DEF ControlInv, Running
  <2> QED BY <1>4, <2>1, <2>2
<1>7. WindowInv' /\ FullStackWindow'
  <2>1. full \subseteq {LayerCount - 1}
    BY <1>1, <1>2 DEF WindowInv
  <2> QED BY <1>1, <1>2, <1>4, <2>1 DEF WindowInv, FullStackWindow
<1>8. FeatureInv'
  <2> SUFFICES ASSUME prerouter, NEW o \in Owners
               PROVE  /\ ~(o < li')
                      /\ phase' # "boundary"
                      /\ phase' = "prefillEnd" =>
                           Captured(o, PrevToken,
                             IF tail[1] = 1 THEN None ELSE <<req, pos - 2>>)'
                      /\ prevOh'[o] = None
    BY <1>1, <1>2 DEF FeatureInv
  <2>1. ~(o < li')
    BY <1>1, <1>2 DEF Owners
  <2>2. prevOh'[o] = None
    BY <1>1, <1>2 DEF FeatureInv
  <2>3. Captured(o, LastToken,
                 IF Width > 1 THEN <<req, pos + Width - 2>> ELSE None)
    BY <1>1, <1>2 DEF FeatureInv
  <2>4. /\ LastToken = PrevToken' /\ tail'[1] = Width
        /\ <<req, pos + Width - 2>> = <<req', pos' - 2>>
        /\ Width > 1 <=> tail'[1] # 1
    <3>1. pos \in Int /\ Width \in 1..2
      BY <1>3 DEF TypeOK
    <3>2. pos + Width - 1 = pos' - 1 /\ pos + Width - 2 = pos' - 2
      BY <1>1, <3>1
    <3>3. tail'[1] = Width /\ (Width > 1 <=> Width # 1) /\ req' = req
      BY <1>1, <3>1
    <3> QED BY <3>2, <3>3 DEF LastToken, PrevToken
  <2>5. Captured(o, PrevToken,
                 IF tail[1] = 1 THEN None ELSE <<req, pos - 2>>)'
    BY <1>1, <2>3, <2>4 DEF Captured
  <2> QED BY <1>4, <2>1, <2>2, <2>5
<1>9. PredInv' /\ SlotInv'
  BY <1>1, <1>2 DEF PredInv, SlotInv
<1>10. RouteInv' /\ FreshRouting' /\ ZeroDrop'
  <2>1. RouteInv'
    BY <1>1, <1>2 DEF RouteInv
  <2>2. \A l \in LayerIds : routedBy'[l] # None => routedBy'[l].by = None
    BY <1>1, <1>2 DEF RouteInv
  <2>3. FreshRouting'
    BY <1>1, <2>2 DEF FreshRouting
  <2>4. ZeroDrop'
    BY <1>1, <1>2 DEF ZeroDrop, Live
  <2> QED BY <2>1, <2>3, <2>4
<1> QED BY <1>5, <1>6, <1>7, <1>8, <1>9, <1>10

(* What the heads predict and the stager stages, whoever calls stage_all   *)
(* once every owner's features are there.                                   *)
LEMMA StageAllFacts ==
  ASSUME IInv, prerouter, StageAll, NEW token,
         \A o \in Owners : mIn[o] = token /\ lastTopk[o].last = token,
         token # None
  PROVE  /\ nxt' \in [LayerIds -> SUBSET Experts]
         /\ pgCache' \in [LayerIds -> OrNone(Predictions)]
         /\ prevOh' \in [LayerIds -> OrNone(Tokens)]
         /\ \A o \in Owners : prevOh'[o] = token
         /\ \A l \in LayerIds : l \notin Consumers => pgCache'[l] = pgCache[l]
         /\ \A c \in Consumers :
              /\ c - 1 \in Owners /\ pgCache'[c] # None
              /\ pgCache'[c].at = token /\ pgCache'[c].cur = token
              /\ pgCache'[c].prev = IF prevOh[c - 1] # None
                                    THEN prevOh[c - 1]
                                    ELSE lastTopk[c - 1].prev
              /\ nxt'[c] = SelectFromLogits(pgCache'[c].logits)
              /\ nxt'[c] # {}
<1> USE LayerAssumption DEF IInv
<1> DEFINE ready == {o \in Owners : mIn[o] # None}
<1>1. ready = Owners
  OBVIOUS
<1>2. PICK head \in [ready -> Logits] :
        /\ pgCache' = [c \in LayerIds |->
              IF c - 1 \in ready
              THEN Prediction(c - 1, head[c - 1]) ELSE pgCache[c]]
        /\ nxt' = [c \in LayerIds |->
              IF c - 1 \in ready
              THEN Staged(c, GroupSelectFromLogits(head[c - 1]))
              ELSE nxt[c]]
        /\ prevOh' = [l \in LayerIds |->
              IF l \in ready THEN lastTopk[l].last ELSE prevOh[l]]
  BY Zenon DEF StageAll
<1> HIDE DEF ready
<1>3. \A o \in Owners : head[o] \in Logits /\ o \in LayerIds
  BY <1>1, <1>2 DEF Owners, LayerIds
<1>4. \A l \in LayerIds : l \in Consumers <=> l - 1 \in Owners
  BY DEF Consumers, FirstPgConsumer, Owners, LayerIds
<1>5. \A c \in Consumers : c \in LayerIds /\ StagedMode(c)
  BY DEF Consumers, FirstPgConsumer, LayerIds, StagedMode, StreamLayers
<1>6. \A o \in Owners : /\ token \in Tokens
                        /\ lastTopk[o].prev \in OrNone(Tokens)
                        /\ prevOh[o] \in OrNone(Tokens)
  BY <1>3 DEF TypeOK, OrNone
<1>7. \A o \in Owners : Prediction(o, head[o]) \in Predictions
  BY <1>3, <1>6 DEF Prediction, Predictions, OrNone
<1>8. \A c \in Consumers :
        Staged(c, GroupSelectFromLogits(head[c - 1]))
          = SelectFromLogits(head[c - 1])
        /\ SelectFromLogits(head[c - 1]) # {}
        /\ SelectFromLogits(head[c - 1]) \in SUBSET Experts
  <2> SUFFICES ASSUME NEW c \in Consumers
               PROVE  Staged(c, GroupSelectFromLogits(head[c - 1]))
                        = SelectFromLogits(head[c - 1])
                      /\ SelectFromLogits(head[c - 1]) # {}
                      /\ SelectFromLogits(head[c - 1]) \in SUBSET Experts
    OBVIOUS
  <2> DEFINE S == SelectFromLogits(head[c - 1])
  <2>1. head[c - 1] \in Logits
    BY <1>3, <1>4, <1>5
  <2>2. S \in Selections /\ GroupSelectFromLogits(head[c - 1]) = S
    BY <2>1, SelectionFacts
  <2> HIDE DEF S
  <2>3. S # {} /\ Smallest(S, TopKExperts) = S
    BY <2>2, SelectionFacts
  <2>4. S \in SUBSET Experts
    BY <2>2 DEF Selections
  <2> QED BY <1>5, <2>2, <2>3, <2>4 DEF Staged, S
<1>9. nxt' \in [LayerIds -> SUBSET Experts]
  <2>1. \A l \in LayerIds : nxt'[l] \in SUBSET Experts
    BY <1>1, <1>2, <1>4, <1>8 DEF TypeOK
  <2> QED BY <1>2, <2>1
<1>10. pgCache' \in [LayerIds -> OrNone(Predictions)]
  BY <1>1, <1>2, <1>7 DEF TypeOK, OrNone
<1>11. prevOh' \in [LayerIds -> OrNone(Tokens)]
  BY <1>1, <1>2, <1>6 DEF TypeOK, OrNone
<1>12. \A o \in Owners : prevOh'[o] = token
  BY <1>1, <1>2, <1>3
<1>13. \A l \in LayerIds : l \notin Consumers => pgCache'[l] = pgCache[l]
  BY <1>1, <1>2, <1>4
<1>14. ASSUME NEW c \in Consumers
       PROVE  /\ c - 1 \in Owners /\ pgCache'[c] # None
              /\ pgCache'[c].at = token /\ pgCache'[c].cur = token
              /\ pgCache'[c].prev = IF prevOh[c - 1] # None
                                    THEN prevOh[c - 1]
                                    ELSE lastTopk[c - 1].prev
              /\ nxt'[c] = SelectFromLogits(pgCache'[c].logits)
              /\ nxt'[c] # {}
  <2>1. c - 1 \in Owners /\ c \in LayerIds
    BY <1>4, <1>5
  <2>2. pgCache'[c] = Prediction(c - 1, head[c - 1])
    BY <1>1, <1>2, <2>1
  <2>3. nxt'[c] = SelectFromLogits(head[c - 1]) /\ nxt'[c] # {}
    BY <1>1, <1>2, <1>8, <2>1
  <2>4. pgCache'[c] # None
    BY <1>7, <2>1, <2>2, NoneIsNothing
  <2> QED BY <2>1, <2>2, <2>3, <2>4 DEF Prediction
<1> QED BY <1>9, <1>10, <1>11, <1>12, <1>13, <1>14

(* The heads run after a step or a one-token prompt. *)
LEMMA StepBoundaryIInv ==
  ASSUME IInv, StepBoundary
  PROVE  IInv'
<1> USE LayerAssumption, BoundAssumption DEF IInv
<1>1. /\ phase = "boundary" /\ kind # "prefill" /\ pos' = pos + 1
      /\ IF prerouter THEN StageAll ELSE UNCHANGED <<pgCache, nxt, prevOh>>
      /\ phase' = IF kind = "step" THEN "post" ELSE "decode"
      /\ tail' = IF kind = "prompt" THEN <<1, 1>> ELSE tail
      /\ UNCHANGED <<prerouter, historySlots, fullLayer, config, req, kind,
                     chunks, li, full, mIn, lastTopk, active, pending, atUse,
                     lastUsed, prefillTopk, routedBy>>
      /\ Consumers' = Consumers
  BY DEF StepBoundary, config, Consumers, FirstPgConsumer
<1>2. Running /\ Live /\ Live' /\ Decoding' /\ ~Prompting' /\ ~Running'
  BY <1>1 DEF Running, Live, Prompting, Decoding
<1>3. /\ Width = 1 /\ pos + 1 \in 1..(MaxPos + 1) /\ pos \in Nat
      /\ LastToken \in Tokens
  <2>1. /\ Width = 1 /\ pos + Width \in 1..(MaxPos + 1)
        /\ LastToken \in Tokens
    BY <1>1, <1>2, WidthType
  <2>2. pos \in Nat
    BY DEF TypeOK
  <2> QED BY <2>1, <2>2
<1>4. LastToken = <<req, pos>> /\ LastToken = PrevToken' /\ LastToken # None
  <2>1. pos + Width - 1 = pos /\ pos' - 1 = pos
    BY <1>1, <1>3
  <2> QED BY <1>1, <2>1, NoneIsNothing DEF LastToken, PrevToken
<1>5. prerouter => \A o \in Owners :
        /\ mIn[o] = LastToken /\ lastTopk[o].last = LastToken
        /\ lastTopk[o].prev = None
  BY <1>1, <1>2, <1>3 DEF FeatureInv, Captured
<1>6. prerouter =>
        /\ nxt' \in [LayerIds -> SUBSET Experts]
        /\ pgCache' \in [LayerIds -> OrNone(Predictions)]
        /\ prevOh' \in [LayerIds -> OrNone(Tokens)]
        /\ \A o \in Owners : prevOh'[o] = LastToken
        /\ \A l \in LayerIds : l \notin Consumers => pgCache'[l] = pgCache[l]
        /\ \A c \in Consumers :
             /\ c - 1 \in Owners /\ pgCache'[c] # None
             /\ pgCache'[c].at = LastToken /\ pgCache'[c].cur = LastToken
             /\ pgCache'[c].prev = IF prevOh[c - 1] # None
                                   THEN prevOh[c - 1]
                                   ELSE lastTopk[c - 1].prev
             /\ nxt'[c] = SelectFromLogits(pgCache'[c].logits)
             /\ nxt'[c] # {}
  BY <1>1, <1>4, <1>5, StageAllFacts
<1>7. TypeOK'
  <2>1. /\ nxt' \in [LayerIds -> SUBSET Experts]
        /\ pgCache' \in [LayerIds -> OrNone(Predictions)]
        /\ prevOh' \in [LayerIds -> OrNone(Tokens)]
    BY <1>1, <1>6 DEF TypeOK
  <2>2. pos' \in 0..(MaxPos + 1) /\ tail' \in (0..2) \X (0..(MaxPos + 1))
    BY <1>1, <1>3 DEF TypeOK
  <2>3. (\A f \in {nxt, active, pending, atUse, lastUsed, prefillTopk} :
           f \in [LayerIds -> SUBSET Experts])'
    BY <1>1, <2>1 DEF TypeOK
  <2> QED BY <1>1, <2>1, <2>2, <2>3 DEF TypeOK
<1>8. ControlInv'
  BY <1>1, <1>2 DEF ControlInv
<1>9. WindowInv' /\ FullStackWindow'
  <2>1. full = {}
    BY <1>1, <1>2 DEF WindowInv
  <2> QED BY <1>1, <2>1 DEF WindowInv, FullStackWindow
<1>10. FeatureInv'
  BY <1>1, <1>2, <1>4, <1>6 DEF FeatureInv
<1>11. PredInv'
  <2>1. \A l \in LayerIds : pgCache'[l] # None => prerouter /\ l \in Consumers
    BY <1>1, <1>6 DEF PredInv
  <2>2. ASSUME prerouter, NEW c \in Consumers
        PROVE  /\ pgCache'[c] # None
               /\ pgCache'[c].at = PrevToken' /\ pgCache'[c].cur = PrevToken'
               /\ IF pgCache'[c].prev = None
                  THEN tail'[1] = 1 /\ pos' = tail'[2]
                  ELSE pgCache'[c].prev = <<req', pos' - 2>>
    <3>1. c - 1 \in Owners
      BY <1>6, <2>2
    <3>2. CASE kind = "step"
      <4>1. prevOh[c - 1] = PrevToken
        BY <1>2, <2>2, <3>1, <3>2 DEF FeatureInv, Decoding
      <4>2. pgCache'[c].prev = PrevToken /\ PrevToken # None
        <5>1. PrevToken # None
          BY NoneIsNothing DEF PrevToken
        <5>2. pgCache'[c].prev = IF prevOh[c - 1] # None THEN prevOh[c - 1]
                                 ELSE lastTopk[c - 1].prev
          BY <1>6, <2>2
        <5> QED BY <4>1, <5>1, <5>2
      <4>3. PrevToken = <<req', pos' - 2>>
        <5>1. pos - 1 = pos' - 2
          BY <1>1, <1>3
        <5> QED BY <1>1, <5>1 DEF PrevToken
      <4> QED BY <1>4, <1>6, <2>2, <4>2, <4>3
    <3>3. CASE kind = "prompt"
      <4>1. prevOh[c - 1] = None
        BY <1>2, <2>2, <3>1, <3>3 DEF FeatureInv, Prompting
      <4>2. pgCache'[c].prev = None
        BY <1>5, <1>6, <2>2, <3>1, <4>1
      <4>3. pos = 0
        BY <1>2, <3>3 DEF ControlInv
      <4>4. tail'[1] = 1 /\ pos' = tail'[2]
        BY <1>1, <3>3, <4>3
      <4> QED BY <1>4, <1>6, <2>2, <4>2, <4>4
    <3> QED BY <1>1, <3>2, <3>3 DEF TypeOK
  <2> QED BY <1>1, <1>2, <2>1, <2>2 DEF PredInv
<1>12. SlotInv'
  BY <1>1, <1>2, <1>6 DEF SlotInv, Promoted
<1>13. RouteInv' /\ ZeroDrop'
  BY <1>1, <1>2 DEF RouteInv, ZeroDrop, Live
<1>14. FreshRouting'
  <2>1. CASE kind = "step"
    BY <1>1, <2>1 DEF FreshRouting
  <2>2. CASE kind # "step"
    <3>1. \A l \in LayerIds : routedBy'[l] # None => routedBy'[l].by = None
      BY <1>1, <1>2, <2>2 DEF RouteInv
    <3> QED BY <1>1, <2>2, <3>1 DEF FreshRouting
  <2> QED BY <2>1, <2>2
<1> QED BY <1>7, <1>8, <1>9, <1>10, <1>11, <1>12, <1>13, <1>14

(* The heads run at the end of a prefill. *)
LEMMA PrefillEndIInv ==
  ASSUME IInv, PrefillEnd
  PROVE  IInv'
<1> USE LayerAssumption, BoundAssumption DEF IInv
<1>1. /\ phase = "prefillEnd" /\ full' = {}
      /\ IF prerouter THEN StageAll ELSE UNCHANGED <<pgCache, nxt, prevOh>>
      /\ phase' = IF historySlots THEN "history" ELSE "decode"
      /\ UNCHANGED <<prerouter, historySlots, fullLayer, config, req, pos,
                     kind, chunks, li, mIn, lastTopk, active, pending, atUse,
                     lastUsed, prefillTopk, routedBy, tail>>
      /\ Consumers' = Consumers
  BY DEF PrefillEnd, config, Consumers, FirstPgConsumer
<1>2. /\ Prompting /\ Live /\ Live' /\ Decoding' /\ ~Prompting' /\ ~Running'
      /\ kind = "prefill" /\ pos \in Nat /\ tail[2] = pos
  BY <1>1 DEF Running, Live, Prompting, Decoding, ControlInv, TypeOK
<1>3. PrevToken' = PrevToken /\ PrevToken # None
  BY <1>1, NoneIsNothing DEF PrevToken
<1>4. prerouter => \A o \in Owners :
        /\ mIn[o] = PrevToken /\ lastTopk[o].last = PrevToken
        /\ lastTopk[o].prev = IF tail[1] = 1 THEN None ELSE <<req, pos - 2>>
        /\ prevOh[o] = None
  BY <1>1, <1>2 DEF FeatureInv, Captured
<1>5. prerouter =>
        /\ nxt' \in [LayerIds -> SUBSET Experts]
        /\ pgCache' \in [LayerIds -> OrNone(Predictions)]
        /\ prevOh' \in [LayerIds -> OrNone(Tokens)]
        /\ \A o \in Owners : prevOh'[o] = PrevToken
        /\ \A l \in LayerIds : l \notin Consumers => pgCache'[l] = pgCache[l]
        /\ \A c \in Consumers :
             /\ c - 1 \in Owners /\ pgCache'[c] # None
             /\ pgCache'[c].at = PrevToken /\ pgCache'[c].cur = PrevToken
             /\ pgCache'[c].prev = IF prevOh[c - 1] # None
                                   THEN prevOh[c - 1]
                                   ELSE lastTopk[c - 1].prev
             /\ nxt'[c] = SelectFromLogits(pgCache'[c].logits)
             /\ nxt'[c] # {}
  BY <1>1, <1>3, <1>4, StageAllFacts
<1>6. TypeOK'
  <2>1. /\ nxt' \in [LayerIds -> SUBSET Experts]
        /\ pgCache' \in [LayerIds -> OrNone(Predictions)]
        /\ prevOh' \in [LayerIds -> OrNone(Tokens)]
    BY <1>1, <1>5 DEF TypeOK
  <2>2. (\A f \in {nxt, active, pending, atUse, lastUsed, prefillTopk} :
           f \in [LayerIds -> SUBSET Experts])'
    BY <1>1, <2>1 DEF TypeOK
  <2> QED BY <1>1, <2>1, <2>2 DEF TypeOK
<1>7. ControlInv'
  BY <1>1, <1>2 DEF ControlInv
<1>8. WindowInv' /\ FullStackWindow'
  BY <1>1, FS_EmptySet DEF WindowInv, FullStackWindow
<1>9. FeatureInv'
  BY <1>1, <1>2, <1>3, <1>5 DEF FeatureInv
<1>10. PredInv'
  <2>1. \A l \in LayerIds : pgCache'[l] # None => prerouter /\ l \in Consumers
    BY <1>1, <1>5 DEF PredInv
  <2>2. ASSUME prerouter, NEW c \in Consumers
        PROVE  /\ pgCache'[c] # None
               /\ pgCache'[c].at = PrevToken' /\ pgCache'[c].cur = PrevToken'
               /\ IF pgCache'[c].prev = None
                  THEN tail'[1] = 1 /\ pos' = tail'[2]
                  ELSE pgCache'[c].prev = <<req', pos' - 2>>
    <3>1. c - 1 \in Owners
      BY <1>5, <2>2
    <3>2. pgCache'[c].prev = IF tail[1] = 1 THEN None ELSE <<req, pos - 2>>
      BY <1>4, <1>5, <2>2, <3>1
    <3>3. <<req, pos - 2>> # None
      BY NoneIsNothing
    <3> QED BY <1>1, <1>2, <1>3, <1>5, <2>2, <3>2, <3>3
  <2> QED BY <1>1, <1>2, <2>1, <2>2 DEF PredInv
<1>11. SlotInv'
  BY <1>1, <1>2, <1>5 DEF SlotInv, Promoted
<1>12. RouteInv' /\ ZeroDrop' /\ FreshRouting'
  BY <1>1, <1>2 DEF RouteInv, ZeroDrop, FreshRouting, Live
<1> QED BY <1>6, <1>7, <1>8, <1>9, <1>10, <1>11, <1>12

(* A streaming layer's call: what it leaves in the layer's slots, for the  *)
(* routes of the prediction or of the gate.                                 *)
LEMMA ExpertCallFacts ==
  ASSUME TypeOK, NEW l \in LayerIds, NEW earlier, NEW last,
         earlier \in SUBSET Experts, last \in SUBSET Experts,
         ExpertCall(l, earlier, last)
  PROVE  /\ \A f \in {nxt', active', pending', atUse', lastUsed',
                      prefillTopk'} : f \in [LayerIds -> SUBSET Experts]
         /\ \A k \in LayerIds \ {l} :
              /\ nxt'[k] = nxt[k] /\ active'[k] = active[k]
              /\ atUse'[k] = atUse[k]
         /\ (StagedMode(l) /\ Width = 1) =>
              nxt'[l] = {} /\ active'[l] = Promoted(l)
              /\ atUse'[l] = Promoted(l)
         /\ ~(StagedMode(l) /\ Width = 1) =>
              nxt'[l] = nxt[l] /\ active'[l] = active[l]
              /\ atUse'[l] = atUse[l]
<1> DEFINE whole == l \in full' /\ Width > 1
           staged == ~whole /\ StagedMode(l) /\ Width = 1
<1>1. /\ pending' = [pending EXCEPT ![l] = earlier \cup last]
      /\ prefillTopk' = IF whole /\ StagedMode(l)
                        THEN [prefillTopk EXCEPT ![l] = last]
                        ELSE prefillTopk
      /\ active' = IF staged THEN [active EXCEPT ![l] = Promoted(l)]
                   ELSE active
      /\ nxt' = IF staged THEN [nxt EXCEPT ![l] = {}] ELSE nxt
      /\ atUse' = IF staged THEN [atUse EXCEPT ![l] = Promoted(l)]
                  ELSE atUse
      /\ lastUsed' = IF whole \/ (staged /\ Promoted(l) # {})
                     THEN lastUsed
                     ELSE [lastUsed EXCEPT ![l] = earlier \cup last]
  BY DEF ExpertCall
<1>2. staged <=> StagedMode(l) /\ Width = 1
  OBVIOUS
<1> HIDE DEF whole, staged
<1>3. /\ nxt \in [LayerIds -> SUBSET Experts]
      /\ active \in [LayerIds -> SUBSET Experts]
      /\ pending \in [LayerIds -> SUBSET Experts]
      /\ atUse \in [LayerIds -> SUBSET Experts]
      /\ lastUsed \in [LayerIds -> SUBSET Experts]
      /\ prefillTopk \in [LayerIds -> SUBSET Experts]
  BY DEF TypeOK
<1>4. /\ Promoted(l) \in SUBSET Experts
      /\ earlier \cup last \in SUBSET Experts /\ {} \in SUBSET Experts
  BY <1>3 DEF Promoted
<1>5. \A f \in [LayerIds -> SUBSET Experts], r \in SUBSET Experts :
        [f EXCEPT ![l] = r] \in [LayerIds -> SUBSET Experts]
  OBVIOUS
<1>6. /\ nxt' \in [LayerIds -> SUBSET Experts]
      /\ active' \in [LayerIds -> SUBSET Experts]
      /\ atUse' \in [LayerIds -> SUBSET Experts]
  BY <1>1, <1>3, <1>4, <1>5
<1>7. /\ pending' \in [LayerIds -> SUBSET Experts]
      /\ lastUsed' \in [LayerIds -> SUBSET Experts]
      /\ prefillTopk' \in [LayerIds -> SUBSET Experts]
  BY <1>1, <1>3, <1>4, <1>5
<1>8. \A k \in LayerIds \ {l} :
        /\ nxt'[k] = nxt[k] /\ active'[k] = active[k] /\ atUse'[k] = atUse[k]
  BY <1>1, <1>3
<1>9. staged => /\ nxt'[l] = {} /\ active'[l] = Promoted(l)
                /\ atUse'[l] = Promoted(l)
  BY <1>1, <1>3
<1>10. ~staged => /\ nxt'[l] = nxt[l] /\ active'[l] = active[l]
                  /\ atUse'[l] = atUse[l]
  BY <1>1
<1> QED BY <1>2, <1>6, <1>7, <1>8, <1>9, <1>10

(* One layer of a forward, taken apart. *)
LEMMA LayerForwardFacts ==
  ASSUME IInv, LayerForward
  PROVE  LET p == PrevPrerouterLogits(li)
             staged == StagedMode(li) /\ Width = 1
         IN  /\ \A f \in {nxt', active', pending', atUse', lastUsed',
                          prefillTopk'} : f \in [LayerIds -> SUBSET Experts]
             /\ \A k \in LayerIds \ {li} :
                  /\ nxt'[k] = nxt[k] /\ active'[k] = active[k]
                  /\ atUse'[k] = atUse[k]
             /\ staged => /\ nxt'[li] = {} /\ active'[li] = Promoted(li)
                          /\ atUse'[li] = Promoted(li)
             /\ ~staged => /\ nxt'[li] = nxt[li] /\ active'[li] = active[li]
                           /\ atUse'[li] = atUse[li]
             /\ li \in StreamLayers =>
                  /\ lastTopk' = [lastTopk EXCEPT ![li] =
                       [last |-> LastToken,
                        prev |-> IF Width > 1 THEN <<req, pos + Width - 2>>
                                 ELSE None]]
                  /\ routedBy' = [routedBy EXCEPT ![li] =
                                    [used |-> LastToken, by |-> p]]
             /\ li \notin StreamLayers => UNCHANGED <<lastTopk, routedBy>>
<1> USE LayerAssumption, BoundAssumption DEF IInv
<1> DEFINE p == PrevPrerouterLogits(li)
<1>1. li \in LayerIds
  BY DEF TypeOK
<1>2. CASE li \notin StreamLayers
  <2>1. UNCHANGED <<lastTopk, routedBy, nxt, active, pending, atUse,
                    lastUsed, prefillTopk>> /\ ~StagedMode(li)
    BY <1>2 DEF LayerForward, slots, StagedMode
  <2> QED BY <1>2, <2>1 DEF TypeOK
<1>3. CASE li \in StreamLayers
  <2>1. SparseMoE(li)
    BY <1>3 DEF LayerForward
  <2>2. /\ lastTopk' = [lastTopk EXCEPT ![li] =
             [last |-> LastToken,
              prev |-> IF Width > 1 THEN <<req, pos + Width - 2>> ELSE None]]
        /\ routedBy' = [routedBy EXCEPT ![li] =
                          [used |-> LastToken, by |-> p]]
    BY <2>1 DEF SparseMoE
  <2>3. p # None => p.logits \in Logits
    <3>1. pgCache[li] \in OrNone(Predictions)
      BY <1>1 DEF TypeOK
    <3> QED BY <3>1 DEF PrevPrerouterLogits, OrNone, Predictions
  <2>4. PICK earlier \in SUBSET Experts, last \in SUBSET Experts :
          ExpertCall(li, earlier, last)
    <3>1. CASE p # None
      <4>1. ExpertCall(li, {}, SelectFromLogits(p.logits))
        BY <2>1, <3>1, Zenon DEF SparseMoE
      <4>2. SelectFromLogits(p.logits) \in SUBSET Experts
        BY <2>3, <3>1, SelectionFacts DEF Selections
      <4>3. {} \in SUBSET Experts
        OBVIOUS
      <4> QED BY <4>1, <4>2, <4>3, Zenon
    <3>2. CASE p = None
      <4>1. PICK last \in Logits :
              \E earlier \in IF Width > 1 THEN Logits ELSE {last} :
                ExpertCall(li, BailingGate(earlier), BailingGate(last))
        BY <2>1, <3>2, Zenon DEF SparseMoE
      <4>2. PICK earlier \in IF Width > 1 THEN Logits ELSE {last} :
              ExpertCall(li, BailingGate(earlier), BailingGate(last))
        BY <4>1, Zenon
      <4>3. earlier \in Logits
        BY <4>2
      <4>4. BailingGate(earlier) \in SUBSET Experts
            /\ BailingGate(last) \in SUBSET Experts
        BY <4>3, SelectionFacts DEF Selections
      <4> QED BY <4>2, <4>4, Zenon
    <3> QED BY <3>1, <3>2
  <2>5. /\ \A f \in {nxt', active', pending', atUse', lastUsed',
                     prefillTopk'} : f \in [LayerIds -> SUBSET Experts]
        /\ \A k \in LayerIds \ {li} :
             /\ nxt'[k] = nxt[k] /\ active'[k] = active[k]
             /\ atUse'[k] = atUse[k]
        /\ (StagedMode(li) /\ Width = 1) =>
             nxt'[li] = {} /\ active'[li] = Promoted(li)
             /\ atUse'[li] = Promoted(li)
        /\ ~(StagedMode(li) /\ Width = 1) =>
             nxt'[li] = nxt[li] /\ active'[li] = active[li]
             /\ atUse'[li] = atUse[li]
    BY <1>1, <2>4, ExpertCallFacts
  <2> QED BY <1>3, <2>2, <2>5
<1> QED BY <1>2, <1>3

(* One layer of a forward. *)
LEMMA LayerForwardIInv ==
  ASSUME IInv, LayerForward
  PROVE  IInv'
<1> USE LayerAssumption, BoundAssumption DEF IInv
<1> DEFINE p == PrevPrerouterLogits(li)
           wrap == li = LayerCount - 1
           staged == StagedMode(li) /\ Width = 1
           prev == IF Width > 1 THEN <<req, pos + Width - 2>> ELSE None
<1>1. /\ phase = "forward" /\ BeforeLayer
      /\ phase' = IF wrap THEN "boundary" ELSE "forward"
      /\ mIn' = [mIn EXCEPT ![li] = IF HasPrerouter(li) THEN LastToken
                                    ELSE None]
      /\ UNCHANGED <<prerouter, historySlots, fullLayer, config, req, pos,
                     kind, chunks, prevOh, pgCache, tail>>
      /\ Consumers' = Consumers /\ Consumers \subseteq LayerIds
  BY DEF LayerForward, config, Consumers, FirstPgConsumer, LayerIds
<1>2. li \in LayerIds /\ li' = IF wrap THEN 0 ELSE li + 1
  BY Wraps DEF LayerForward, TypeOK, LayerIds
<1>3. Running /\ Running' /\ Live /\ Live' /\ Width' = Width
      /\ LastToken' = LastToken
      /\ (Prompting <=> kind # "step") /\ (Decoding <=> kind = "step")
      /\ (Prompting' <=> kind # "step") /\ (Decoding' <=> kind = "step")
  BY <1>1 DEF Running, Live, Prompting, Decoding, Width, LastToken
<1>4. /\ Width \in 1..2 /\ (kind # "prefill" => Width = 1)
      /\ LastToken \in Tokens /\ prev \in OrNone(Tokens)
  BY <1>3, WidthType DEF OrNone
<1>5. /\ \A f \in {nxt', active', pending', atUse', lastUsed', prefillTopk'} :
           f \in [LayerIds -> SUBSET Experts]
      /\ \A k \in LayerIds \ {li} :
           /\ nxt'[k] = nxt[k] /\ active'[k] = active[k]
           /\ atUse'[k] = atUse[k]
      /\ staged => /\ nxt'[li] = {} /\ active'[li] = Promoted(li)
                   /\ atUse'[li] = Promoted(li)
      /\ ~staged => /\ nxt'[li] = nxt[li] /\ active'[li] = active[li]
                    /\ atUse'[li] = atUse[li]
      /\ li \in StreamLayers =>
           /\ lastTopk' = [lastTopk EXCEPT ![li] =
                             [last |-> LastToken, prev |-> prev]]
           /\ routedBy' = [routedBy EXCEPT ![li] =
                             [used |-> LastToken, by |-> p]]
      /\ li \notin StreamLayers => UNCHANGED <<lastTopk, routedBy>>
  BY LayerForwardFacts
<1>6. p \in OrNone(Predictions)
  BY <1>2 DEF TypeOK, PrevPrerouterLogits, OrNone
<1>7. \A l \in LayerIds : l \in StreamLayers <=> l >= 1
  BY DEF LayerIds, StreamLayers
<1> HIDE DEF p, prev
<1>8. TypeOK'
  <2>1. full' \in SUBSET StreamLayers
    BY <1>1 DEF BeforeLayer, LoadFullLayer, ClearFullLayer, TypeOK
  <2>2. mIn' \in [LayerIds -> OrNone(Tokens)]
    BY <1>1, <1>2, <1>4 DEF TypeOK, OrNone
  <2>3. lastTopk' \in [LayerIds -> [last : OrNone(Tokens),
                                    prev : OrNone(Tokens)]]
    <3>1. [last |-> LastToken, prev |-> prev]
            \in [last : OrNone(Tokens), prev : OrNone(Tokens)]
      BY <1>4 DEF OrNone
    <3> DEFINE R == [last : OrNone(Tokens), prev : OrNone(Tokens)]
               r == [last |-> LastToken, prev |-> prev]
    <3>2. lastTopk \in [LayerIds -> R] /\ r \in R
      BY <3>1 DEF TypeOK
    <3>3. lastTopk' \in {lastTopk, [lastTopk EXCEPT ![li] = r]}
      BY <1>5
    <3> HIDE DEF R, r
    <3>4. lastTopk' \in [LayerIds -> R]
      BY <1>2, <3>2, <3>3
    <3> QED BY <3>4 DEF R
  <2>4. routedBy' \in [LayerIds ->
          OrNone([used : Tokens, by : OrNone(Predictions)])]
    <3>1. [used |-> LastToken, by |-> p]
            \in OrNone([used : Tokens, by : OrNone(Predictions)])
      BY <1>4, <1>6 DEF OrNone
    <3> QED BY <1>5, <3>1 DEF TypeOK
  <2>5. li' \in LayerIds
    BY <1>2 DEF LayerIds
  <2> QED BY <1>1, <1>5, <2>1, <2>2, <2>3, <2>4, <2>5 DEF TypeOK
<1>9. ControlInv'
  BY <1>1, <1>2, <1>3 DEF ControlInv
<1>10. WindowInv' /\ FullStackWindow'
  <2>1. CASE kind # "prefill"
    <3>1. full = {} /\ full' = {}
      BY <1>1, <1>3, <2>1 DEF WindowInv, BeforeLayer
    <3> QED BY <3>1, FS_EmptySet DEF WindowInv, FullStackWindow
  <2>2. CASE kind = "prefill" /\ ~(Width > 1)
    <3>1. full \subseteq {LayerCount - 1} /\ full' = full
      BY <1>1, <1>3, <2>2 DEF WindowInv, BeforeLayer
    <3> QED BY <1>1, <1>3, <2>2, <3>1 DEF WindowInv, FullStackWindow
  <2>3. CASE kind = "prefill" /\ Width > 1
    <3>1. full \subseteq {li - 1, LayerCount - 1}
      BY <1>1, <1>3, <2>3 DEF WindowInv
    <3>2. CASE ~fullLayer
      <4>1. full' = full /\ full = {}
        BY <1>1, <3>2 DEF BeforeLayer, WindowInv
      <4> QED BY <4>1, FS_EmptySet DEF WindowInv, FullStackWindow
    <3>3. CASE fullLayer
      <4>1. full' \subseteq {li, LayerCount - 1}
        BY <1>1, <2>3, <3>1, <3>3
           DEF BeforeLayer, LoadFullLayer, ClearFullLayer
      <4>2. wrap => full' \subseteq {LayerCount - 1}
        BY <4>1
      <4>3. ~wrap => full' \subseteq {li' - 1, LayerCount - 1}
        <5>1. ~wrap => li' - 1 = li
          BY <1>2 DEF LayerIds
        <5> QED BY <4>1, <5>1
      <4>4. Cardinality(full') <= 2
        BY <4>1, WindowSize
      <4>5. /\ fullLayer' /\ ~Decoding' /\ kind' = "prefill" /\ Width' > 1
            /\ phase' \notin {"decode", "post"}
            /\ phase' = "forward" <=> ~wrap
        BY <1>1, <1>3, <2>3, <3>3
      <4>6. WindowInv'
        BY <4>2, <4>3, <4>5 DEF WindowInv
      <4> QED BY <4>4, <4>5, <4>6 DEF FullStackWindow
    <3> QED BY <3>2, <3>3
  <2> QED BY <2>1, <2>2, <2>3
<1>11. FeatureInv'
  <2> SUFFICES ASSUME prerouter, NEW o \in Owners
               PROVE  /\ (phase' = "boundary" \/ o < li') =>
                           Captured(o, LastToken, prev)'
                      /\ Prompting' => prevOh'[o] = None
                      /\ Decoding' => prevOh'[o] = PrevToken'
                      /\ phase' # "prefillEnd"
    BY <1>1, <1>3 DEF FeatureInv, prev
  <2>1. o \in LayerIds /\ o >= 1 /\ o < LayerCount - 1
    BY DEF Owners, LayerIds
  <2>2. /\ Prompting' => prevOh'[o] = None
        /\ Decoding' => prevOh'[o] = PrevToken'
    BY <1>1, <1>3 DEF FeatureInv, PrevToken
  <2>3. prev' = prev
    BY <1>1, <1>3 DEF prev
  <2>4. o < li => Captured(o, LastToken, prev)
    BY <1>1, <1>3 DEF FeatureInv, prev
  <2>5. o < li => o # li /\ Captured(o, LastToken, prev)'
    <3>1. ASSUME o # li PROVE mIn'[o] = mIn[o] /\ lastTopk'[o] = lastTopk[o]
      BY <1>1, <1>5, <2>1, <3>1 DEF TypeOK
    <3>2. o < li => o # li
      BY <1>2, <2>1 DEF LayerIds
    <3> QED BY <1>3, <2>3, <2>4, <3>1, <3>2 DEF Captured
  <2>6. o = li => Captured(o, LastToken, prev)'
    <3> SUFFICES ASSUME o = li PROVE Captured(o, LastToken, prev)'
      OBVIOUS
    <3>1. HasPrerouter(o) /\ li \in StreamLayers
      BY <1>7, <2>1 DEF HasPrerouter, Owners
    <3>2. mIn'[o] = LastToken
      BY <1>1, <2>1, <3>1 DEF TypeOK
    <3>3. lastTopk'[o] = [last |-> LastToken, prev |-> prev]
      BY <1>5, <2>1, <3>1 DEF TypeOK
    <3> QED BY <1>3, <2>3, <3>2, <3>3 DEF Captured
  <2>7. (phase' = "boundary" \/ o < li') => o < li \/ o = li
    BY <1>1, <1>2, <2>1 DEF LayerIds
  <2> QED BY <1>1, <2>2, <2>5, <2>6, <2>7
<1>12. PredInv'
  BY <1>1, <1>3 DEF PredInv, PrevToken
<1>13. \A k \in LayerIds : Promoted(k)' = Promoted(k)
  <2> SUFFICES ASSUME NEW k \in LayerIds PROVE Promoted(k)' = Promoted(k)
    OBVIOUS
  <2>1. CASE k # li
    BY <1>5, <2>1 DEF Promoted
  <2>2. CASE k = li /\ staged
    BY <1>5, <2>2 DEF Promoted
  <2>3. CASE k = li /\ ~staged
    BY <1>5, <2>3 DEF Promoted
  <2> QED BY <2>1, <2>2, <2>3
<1>14. SlotInv'
  <2>1. (prerouter /\ kind = "step") => \A c \in Consumers :
          Promoted(c)' = SelectFromLogits(pgCache'[c].logits)
    BY <1>1, <1>3, <1>13 DEF SlotInv
  <2>2. ASSUME prerouter, kind # "step", NEW c \in Consumers
        PROVE  nxt'[c] = {} /\ active'[c] = {} /\ atUse'[c] = {}
    <3>1. nxt[c] = {} /\ active[c] = {} /\ atUse[c] = {} /\ Promoted(c) = {}
      BY <1>3, <2>2 DEF SlotInv, Promoted
    <3>2. CASE c # li
      BY <1>1, <1>5, <3>1, <3>2
    <3>3. CASE c = li
      BY <1>5, <3>1, <3>3
    <3> QED BY <3>2, <3>3
  <2> QED BY <1>1, <1>3, <2>1, <2>2 DEF SlotInv
<1>15. \A l \in LayerIds \ {li} : routedBy'[l] = routedBy[l]
  BY <1>5 DEF TypeOK
<1>16. li \in StreamLayers =>
         routedBy'[li] = [used |-> LastToken, by |-> p]
  BY <1>2, <1>5 DEF TypeOK
<1>17. Prompting => p = None
  BY <1>2 DEF p, PrevPrerouterLogits, PredInv
<1>18. (prerouter /\ li \in Consumers) => p = pgCache[li]
  BY DEF p, PrevPrerouterLogits, UsePrerouter, Consumers, FirstPgConsumer
<1>19. RouteInv'
  <2> SUFFICES ASSUME kind # "step", NEW l \in LayerIds, routedBy'[l] # None
               PROVE  routedBy'[l].by = None
    BY <1>1 DEF RouteInv
  <2>1. CASE l = li /\ li \in StreamLayers
    BY <1>3, <1>16, <1>17, <2>1
  <2>2. CASE ~(l = li /\ li \in StreamLayers)
    <3>1. routedBy'[l] = routedBy[l]
      BY <1>5, <1>15, <2>2
    <3> QED BY <1>3, <3>1 DEF RouteInv
  <2> QED BY <2>1, <2>2
<1>20. FreshRouting'
  <2> SUFFICES ASSUME NEW l \in LayerIds, routedBy'[l] # None
               PROVE  LET q == routedBy'[l].by
                          t == routedBy'[l].used
                      IN  IF q = None
                          THEN ~(prerouter /\ kind = "step" /\ l \in Consumers)
                          ELSE /\ t[1] = req
                               /\ q.at = <<req, t[2] - 1>>
                               /\ q.cur = <<req, t[2] - 1>>
                               /\ IF q.prev = None
                                  THEN tail[1] = 1 /\ t[2] = tail[2]
                                  ELSE q.prev = <<req, t[2] - 2>>
    BY <1>1 DEF FreshRouting
  <2>1. CASE l = li /\ li \in StreamLayers
    <3>1. routedBy'[l].by = p /\ routedBy'[l].used = LastToken
      BY <1>16, <2>1
    <3>2. p = None => ~(prerouter /\ kind = "step" /\ l \in Consumers)
      BY <1>3, <1>18, <2>1 DEF PredInv
    <3>3. CASE p # None
      <4>1. kind = "step" /\ Decoding
        BY <1>3, <1>17, <3>3
      <4>2. p = pgCache[li] /\ prerouter /\ li \in Consumers
        BY <1>2, <3>3 DEF p, PrevPrerouterLogits, PredInv
      <4>3. /\ p.at = PrevToken /\ p.cur = PrevToken
            /\ IF p.prev = None THEN tail[1] = 1 /\ pos = tail[2]
               ELSE p.prev = <<req, pos - 2>>
        BY <4>1, <4>2 DEF PredInv
      <4>4. LastToken = <<req, pos>>
        <5>1. pos + Width - 1 = pos
          BY <1>4, <4>1 DEF TypeOK
        <5> QED BY <5>1 DEF LastToken
      <4> QED BY <3>1, <3>3, <4>3, <4>4 DEF PrevToken
    <3> QED BY <3>1, <3>2, <3>3
  <2>2. CASE ~(l = li /\ li \in StreamLayers)
    <3>1. routedBy'[l] = routedBy[l]
      BY <1>5, <1>15, <2>2
    <3> QED BY <1>1, <3>1 DEF FreshRouting
  <2> QED BY <2>1, <2>2
<1>21. ZeroDrop'
  <2>1. ASSUME prerouter, NEW l \in Consumers, routedBy'[l] # None
        PROVE  atUse'[l] = IF routedBy'[l].by # None
                           THEN SelectFromLogits(routedBy'[l].by.logits)
                           ELSE {}
    <3>0. l \in LayerIds /\ StagedMode(l) /\ l \in StreamLayers
      BY <1>1, <2>1
         DEF StagedMode, Consumers, FirstPgConsumer, StreamLayers
    <3>1. CASE l # li
      BY <1>1, <1>5, <1>15, <2>1, <3>0, <3>1 DEF ZeroDrop
    <3>2. CASE l = li
      <4>1. routedBy'[l].by = p /\ p = pgCache[l]
        BY <1>16, <1>18, <2>1, <3>0, <3>2
      <4>2. CASE kind = "step"
        <5>1. p # None /\ Promoted(l) = SelectFromLogits(p.logits)
          BY <1>3, <2>1, <4>1, <4>2 DEF PredInv, SlotInv
        <5>2. staged
          BY <1>4, <3>0, <3>2, <4>2
        <5> QED BY <1>5, <3>2, <4>1, <5>1, <5>2
      <4>3. CASE kind # "step"
        <5>1. p = None /\ Promoted(l) = {}
          BY <1>3, <1>17, <2>1, <4>3 DEF SlotInv, Promoted
        <5>2. atUse[l] = {}
          BY <1>3, <2>1, <4>3 DEF SlotInv
        <5> QED BY <1>5, <3>2, <4>1, <5>1, <5>2
      <4> QED BY <4>2, <4>3
    <3> QED BY <3>1, <3>2
  <2>2. ASSUME ~(prerouter \/ historySlots), NEW l \in LayerIds
        PROVE  atUse'[l] = {}
    <3>1. ~staged
      BY <2>2 DEF StagedMode
    <3>2. atUse[l] = {}
      BY <2>2 DEF ZeroDrop
    <3>3. CASE l # li
      BY <1>5, <3>2, <3>3
    <3>4. CASE l = li
      BY <1>5, <3>1, <3>2, <3>4
    <3> QED BY <3>3, <3>4
  <2> QED BY <1>1, <2>1, <2>2 DEF ZeroDrop
<1> QED BY <1>8, <1>9, <1>10, <1>11, <1>12, <1>14, <1>19, <1>20, <1>21

(* Every step of the pipeline keeps the invariant. *)
LEMMA NextIInv == IInv /\ [Next]_vars => IInv'
<1> SUFFICES ASSUME IInv, [Next]_vars PROVE IInv'
  OBVIOUS
<1>1. CASE Prewarm
  <2>1. Begin(<<2, 2>>) /\ req' = req /\ <<2, 2>> \in Prompts
    BY <1>1 DEF Prewarm, Prompts
  <2>2. req' \in 0..Requests
    BY <2>1 DEF IInv, TypeOK
  <2> QED BY <2>1, <2>2, BeginIInv
<1>2. CASE StartRequest
  <2>1. PICK prompt \in Prompts : Begin(prompt)
    BY <1>2 DEF StartRequest
  <2>2. req' \in 0..Requests
    BY <1>2, BoundAssumption DEF StartRequest, IInv, TypeOK
  <2> QED BY <2>1, <2>2, BeginIInv
<1>3. CASE SkipWarmup \/ EndRequest
  BY <1>3, GoIdleIInv DEF SkipWarmup, EndRequest
<1>4. CASE LayerForward
  BY <1>4, LayerForwardIInv
<1>5. CASE StepBoundary
  BY <1>5, StepBoundaryIInv
<1>6. CASE ChunkBoundary
  BY <1>6, ChunkBoundaryIInv
<1>7. CASE PrefillEnd
  BY <1>7, PrefillEndIInv
<1>8. CASE StageFromPrefill
  BY <1>8, StageFromPrefillIInv
<1>9. CASE StepPre
  BY <1>9, StepPreIInv
<1>10. CASE StepPost
  BY <1>10, StepPostIInv
<1>11. CASE UNCHANGED vars
  <2>1. /\ UNCHANGED <<prerouter, historySlots, fullLayer, config, req, pos,
                       phase, kind, chunks, li, full, mIn, lastTopk, prevOh,
                       pgCache, nxt, active, pending, atUse, lastUsed,
                       prefillTopk, routedBy, tail>>
    BY <1>11 DEF vars, config, captures, slots
  <2>2. UNCHANGED <<Live, Running, Prompting, Decoding, Consumers, Width,
                    LastToken, PrevToken>>
    BY <2>1 DEF Live, Running, Prompting, Decoding, Consumers,
                FirstPgConsumer, Width, LastToken, PrevToken
  <2>3. TypeOK' /\ ControlInv'
    BY <2>1, <2>2 DEF IInv, TypeOK, ControlInv
  <2>6. WindowInv' /\ PredInv'
    BY <2>1, <2>2 DEF IInv, WindowInv, PredInv
  <2>4. (FeatureInv /\ SlotInv /\ RouteInv)'
    BY <2>1, <2>2 DEF IInv, FeatureInv, Captured, SlotInv, Promoted, RouteInv
  <2>5. (FreshRouting /\ ZeroDrop /\ FullStackWindow)'
    BY <2>1, <2>2 DEF IInv, FreshRouting, ZeroDrop, FullStackWindow
  <2> QED BY <2>3, <2>4, <2>5, <2>6 DEF IInv
<1> QED BY <1>1, <1>2, <1>3, <1>4, <1>5, <1>6, <1>7, <1>8, <1>9, <1>10,
           <1>11 DEF Next

-----------------------------------------------------------------------------
(* The invariant holds in every behaviour of the 8b pipeline. *)
THEOREM InvariantHolds == Spec => []IInv
  BY InitIInv, NextIInv, PTL DEF Spec

(* Every variable keeps its type; positions stay inside the token cap plus *)
(* the one token a prompt may add.                                          *)
THEOREM TypeCorrect == Spec => []TypeOK
<1>1. IInv => TypeOK
  BY DEF IInv
<1> QED BY <1>1, InvariantHolds, PTL

(* "slots == routing and nothing is dropped": what a consumer's call finds *)
(* in its slots is what its block selects from the prediction.             *)
THEOREM NothingDropped == Spec => []ZeroDrop
<1>1. IInv => ZeroDrop
  BY DEF IInv
<1> QED BY <1>1, InvariantHolds, PTL

(* Every decode step routes every consumer by a prediction made on the     *)
(* token before, with the previous-token feature of the token before that. *)
THEOREM RoutingIsFresh == Spec => []FreshRouting
<1>1. IInv => FreshRouting
  BY DEF IInv
<1> QED BY <1>1, InvariantHolds, PTL

(* load_full_layer never holds more than two layers, and decode holds      *)
(* none.                                                                    *)
THEOREM AtMostTwoWhole == Spec => []FullStackWindow
<1>1. IInv => FullStackWindow
  BY DEF IInv
<1> QED BY <1>1, InvariantHolds, PTL

(* The masked selections of _select_from_logits, group_select_from_logits  *)
(* and the gate are the group-limited law, for every vector of scores.     *)
THEOREM SelectionsObeyLaw == Spec => []SelectionLaw
<1>1. ASSUME NEW s \in Logits \cup Vectors
      PROVE  /\ ObeysLaw(SelectFromLogits(s), s)
             /\ GroupSelectFromLogits(s) = SelectFromLogits(s)
             /\ ObeysLaw(BailingGate(s), [e \in Experts |-> s[e] + Bias[e]])
  <2> DEFINE b == [e \in Experts |-> s[e] + Bias[e]]
  <2>1. Scores(s) /\ Scores(b)
    BY ScoreAssumption DEF Scores
  <2>2. ObeysLaw(SelectFromLogits(s), s)
    BY <2>1, LawHolds DEF SelectFromLogits
  <2> HIDE DEF b
  <2>3. ObeysLaw(TopK(GroupLimited(b), TopKExperts), b)
    BY <2>1, LawHolds
  <2>4. BailingGate(s) = TopK(GroupLimited(b), TopKExperts)
    BY DEF BailingGate, b
  <2> QED BY <2>2, <2>3, <2>4
      DEF SelectFromLogits, GroupSelectFromLogits, b
<1>2. TypeOK => SelectionLaw
  <2> SUFFICES ASSUME TypeOK PROVE SelectionLaw
    OBVIOUS
  <2>1. \A c \in LayerIds : pgCache[c] # None => pgCache[c].logits \in Logits
    BY DEF TypeOK, OrNone, Predictions
  <2> QED BY <1>1, <2>1 DEF SelectionLaw
<1> QED BY <1>2, TypeCorrect, PTL

=============================================================================
