------------------------------ MODULE Sampling ------------------------------
(***************************************************************************)
(* Token sampling (sampling.py): the repetition penalty, the temperature,  *)
(* top-k and top-p truncation, and the set of tokens the categorical draw  *)
(* can return.                                                              *)
(*                                                                         *)
(* A logit is an integer, in units of ln 2, so that the softmax mass of v  *)
(* is a power of two and every comparison is exact.  Temperature is 1, or  *)
(* 0 for greedy.  top_p is a fraction <<p, q>>; <<1, 1>> switches it off.  *)
(* The logits keep the bound LogitBound.                                   *)
(***************************************************************************)
EXTENDS Integers, FiniteSets, Functions

CONSTANTS VocabSize,   \* number of token ids
          LogitBound   \* penalised logits lie in -LogitBound..LogitBound

ASSUME VocabAssumption == VocabSize \in Nat \ {0}
ASSUME BoundAssumption == LogitBound \in Nat \ {0}

Vocab == 0..(VocabSize - 1)
MaskedOut == -1000 * LogitBound

(* Softmax mass up to normalisation; a masked logit has none. *)
Mass(v) == IF v = MaskedOut THEN 0 ELSE 2^(v + LogitBound)
MassOf(logits, S) == SumFunctionOnSet([t \in Vocab |-> Mass(logits[t])], S)

(* sorted_vals: the token ids in descending order of their logits. *)
Descending(logits) ==
  CHOOSE f \in [1..VocabSize -> Vocab] :
    /\ \A i, j \in 1..VocabSize : i < j => /\ f[i] # f[j]
                                           /\ logits[f[i]] >= logits[f[j]]

(* Everything below the k-th largest logit is masked; ties stay. *)
KeepFrom(logits, k) ==
  LET threshold == logits[Descending(logits)[k]]
  IN  [t \in Vocab |-> IF logits[t] < threshold THEN MaskedOut
                       ELSE logits[t]]

(* HF-style penalty on the tokens seen so far: positive logits are         *)
(* divided, the others multiplied.                                          *)
Penalise(logits, penalty, history) ==
  [t \in Vocab |->
     IF t \notin history THEN logits[t]
     ELSE IF logits[t] > 0 THEN logits[t] \div penalty
          ELSE logits[t] * penalty]

(* Mutant: the threshold is read from the wrong end of the top-k values. *)
TopKMaskWrongEnd(logits, k) ==
  IF k > 0 THEN KeepFrom(logits, 1) ELSE logits

TopKMask(logits, k) ==
  IF k > 0 THEN KeepFrom(logits, IF k < VocabSize THEN k ELSE VocabSize)
  ELSE logits

(* Mutant: no floor of one; the index -1 of an empty nucleus reads the     *)
(* worst of the sorted values.                                              *)
TopPMaskNoFloor(logits, p) ==
  LET order == Descending(logits)
      first(i) == {order[j] : j \in 1..i}
      total == MassOf(logits, Vocab)
      counts == Cardinality({i \in 1..VocabSize :
                   MassOf(logits, first(i)) * p[2] <= p[1] * total})
  IN  IF p[1] >= p[2] THEN logits
      ELSE KeepFrom(logits, IF counts = 0 THEN VocabSize ELSE counts)

(* Nucleus truncation: as many of the best tokens as have at most mass     *)
(* top_p together, at least one.                                            *)
TopPMask(logits, p) ==
  LET order == Descending(logits)
      first(i) == {order[j] : j \in 1..i}
      total == MassOf(logits, Vocab)
      counts == Cardinality({i \in 1..VocabSize :
                   MassOf(logits, first(i)) * p[2] <= p[1] * total})
  IN  IF p[1] >= p[2] THEN logits
      ELSE KeepFrom(logits, IF counts > 1 THEN counts ELSE 1)

(* temperature <= 0 keeps the maximum only. *)
GreedyMask(logits, temperature) ==
  IF temperature > 0 THEN logits ELSE KeepFrom(logits, 1)

MaskLogits(logits, temperature, k, p) ==
  GreedyMask(TopPMask(TopKMask(logits, k), p), temperature)

(* The ids sample can return under the settings gen. *)
Sample(logits, gen, history) ==
  LET seen == IF gen.penalty = 1 THEN {} ELSE history
      masked == MaskLogits(Penalise(logits, gen.penalty, seen),
                           gen.temperature, gen.topK, gen.topP)
  IN  {t \in Vocab : masked[t] # MaskedOut}

Argmax(logits) == Descending(logits)[1]

(* What the settings promise, without sorting or thresholds: a token can   *)
(* be drawn iff fewer than top_k tokens beat it and the tokens that beat   *)
(* it together with it hold at most top_p of what top-k left, the best     *)
(* tokens excepted; a greedy draw returns a best token.                    *)
Drawable(logits, gen, history) ==
  LET l == Penalise(logits, gen.penalty, history)
      beat(t) == {u \in Vocab : l[u] > l[t]}
      left == IF gen.topK = 0 THEN Vocab
              ELSE {t \in Vocab : Cardinality(beat(t)) < gen.topK}
      inNucleus(t) == \/ beat(t) = {} \/ gen.topP[1] >= gen.topP[2]
                      \/ (MassOf(l, beat(t)) + Mass(l[t])) * gen.topP[2]
                           <= gen.topP[1] * MassOf(l, left)
  IN  {t \in left : inNucleus(t) /\ (gen.temperature > 0 \/ beat(t) = {})}

=============================================================================
