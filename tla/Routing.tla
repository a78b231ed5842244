------------------------------- MODULE Routing -------------------------------
(***************************************************************************)
(* The sigmoid group-limited routing law of the edge0-8b tier              *)
(* (moe/routing.py and the MoE block of bailing_hybrid.py): which experts  *)
(* a vector of router scores selects.  The code writes the law out three   *)
(* times - for the resident gate, for the block that consumes a prediction *)
(* and for the stager that fills the block's slots - and staged decode     *)
(* loses experts silently wherever two copies disagree.                    *)
(*                                                                         *)
(* A score vector is a function from the experts to small integers, which  *)
(* stand for the sigmoids of the logits.  argpartition and topk are TopK   *)
(* and BottomK: some k best or worst entries, the same ones for the same   *)
(* vector; the order of the selected indices and their weights are left    *)
(* out.                                                                     *)
(***************************************************************************)
EXTENDS Integers, FiniteSets

CONSTANTS NumExperts,  \* num_experts
          NGroup,      \* n_group
          TopkGroup,   \* topk_group
          TopKExperts, \* num_experts_per_tok and prerouter_top_k
          Bias         \* expert_bias of the gate

ASSUME GroupAssumption ==
  /\ NumExperts \in Nat \ {0} /\ NGroup \in 1..NumExperts
  /\ NumExperts % NGroup = 0 /\ TopkGroup \in 1..NGroup
  /\ TopkGroup < NGroup => NumExperts \div NGroup > 1
  /\ TopKExperts \in 1..(TopkGroup * (NumExperts \div NGroup))

Experts == 0..(NumExperts - 1)
Groups == 0..(NGroup - 1)
GroupOf(e) == e \div (NumExperts \div NGroup)
Members(g) == {e \in Experts : GroupOf(e) = g}

(* Below every score. *)
NegInf == -1000

(* S holds k of the best entries of score. *)
IsTopK(S, score, k) ==
  /\ S \subseteq DOMAIN score /\ Cardinality(S) = k
  /\ \A i \in S, j \in DOMAIN score \ S : score[i] >= score[j]

TopK(score, k) == CHOOSE S \in SUBSET DOMAIN score : IsTopK(S, score, k)

BottomK(score, k) == TopK([i \in DOMAIN score |-> -score[i]], k)

(* The sum of the two best selection scores of group g. *)
GroupScore(select, g) ==
  CHOOSE s \in {select[i] + select[j] : i, j \in Members(g)} :
    /\ \E i, j \in Members(g) : i # j /\ s = select[i] + select[j]
    /\ \A i, j \in Members(g) : i # j => s >= select[i] + select[j]

(* The groups the code drops, none when every group may stay. *)
DroppedGroups(select) ==
  IF NGroup > TopkGroup
  THEN BottomK([g \in Groups |-> GroupScore(select, g)], NGroup - TopkGroup)
  ELSE {}

(* Every expert of a dropped group is masked out. *)
GroupLimited(select) ==
  LET drop == DroppedGroups(select)
  IN  [e \in Experts |-> IF GroupOf(e) \in drop THEN NegInf ELSE select[e]]

(* The gate of the block: the bias takes part in the selection. *)
BailingGate(scores) ==
  TopK(GroupLimited([e \in Experts |-> scores[e] + Bias[e]]), TopKExperts)

(* Mutant: the stager drops one group too few. *)
GroupSelectNoDrop(scores) == TopK(scores, TopKExperts)

(* group_select_from_logits as the stager calls it, without a bias. *)
GroupSelectFromLogits(scores) == TopK(GroupLimited(scores), TopKExperts)

(* BailingSparseMoE._select_from_logits: the block's own copy. *)
SelectFromLogits(scores) == TopK(GroupLimited(scores), TopKExperts)

(* The law itself, stated without the masking: the selection lies in       *)
(* TopkGroup groups that score at least as high as every other group, and  *)
(* is a best one inside them.                                               *)
ObeysLaw(S, select) ==
  \E kept \in SUBSET Groups :
    /\ IsTopK(kept, [g \in Groups |-> GroupScore(select, g)], TopkGroup)
    /\ IsTopK(S, [e \in {x \in Experts : GroupOf(x) \in kept} |-> select[e]],
              TopKExperts)

=============================================================================
