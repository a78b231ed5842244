---------------------------- MODULE LingPipeline ----------------------------
(***************************************************************************)
(* The decode pipeline of the edge0-8b engine (engine/ling.py, the ling    *)
(* stager of prerouter/stager.py and the MoE block of bailing_hybrid.py).  *)
(* It keeps the promise of the 35b pipeline - a consumer's slots are its   *)
(* route - by other means: the stager caches the head's raw logits, the    *)
(* block selects from them again with its own copy of the routing law,     *)
(* features are captured on every forward, prefill included, the heads run *)
(* only at the end of a prefill and after a one-token forward, and the     *)
(* first decode step must already be routed by a prediction.               *)
(*                                                                         *)
(* One thread runs all of this; stage_experts is synchronous.  A token is  *)
(* <<request, position>>, a feature is the token it was captured on, the   *)
(* logits of a head or a gate are any member of Logits.                    *)
(***************************************************************************)
EXTENDS Routing, Sequences

CONSTANTS LayerCount,   \* num_hidden_layers
          Start,        \* PrerouterSpec.start_layer
          Logits,       \* score vectors a gate or a head can produce
          Vectors,      \* more score vectors, to compare the selections on
          Requests,     \* bound on the requests served
          MaxPos        \* bound on the positions of one request

ASSUME LayerAssumption == LayerCount \in Nat /\ Start \in 1..(LayerCount - 2)
(* The position bound leaves room for the longest prompt. *)
ASSUME BoundAssumption == Requests \in Nat /\ MaxPos \in Nat /\ MaxPos >= 3
(* NegInf stands for the code's -inf. *)
ASSUME ScoreAssumption ==
  /\ Bias \in [Experts -> Int]
  /\ \A s \in Logits \cup Vectors :
       /\ s \in [Experts -> Int]
       /\ \A e \in Experts : s[e] > NegInf /\ s[e] + Bias[e] > NegInf

LayerIds == 0..(LayerCount - 1)
None == <<>>

(* Layer 0 is dense (first_k_dense_replace = 1): it has no experts. *)
StreamLayers == 1..(LayerCount - 1)

(* owner_layers, the explicit list of the 8b profile; an owner predicts    *)
(* the layer above it.                                                      *)
Owners == Start..(LayerCount - 2)

(* Prompts as the chunks prefill cuts them into, chunk size 2, the last    *)
(* one possibly a single token.  A one-token prompt is not prefilled.      *)
Prompts == {<<1>>, <<2>>, <<2, 1>>, <<2, 2>>}

VARIABLES
  prerouter, historySlots, fullLayer, \* the configuration, fixed at load
  req, pos,     \* current request, 0 while warming up, and position
  phase,        \* what the engine thread is doing
  kind,         \* whose forward it is: "prefill", "prompt" or "step"
  chunks,       \* chunks of the prompt still to run, the running one first
  li,           \* next layer of the running forward
  full,         \* layers with resident whole-layer weights
  mIn,          \* layer.m_in_cache, its last position: token or None
  lastTopk,     \* block.last_topk: the tokens of its last two positions
  prevOh,       \* block.prev_topk_oh: token or None
  pgCache,      \* pg_cache by consumer: prediction or None
  nxt, active,  \* staged sets of the streaming layers, {} for none
  pending,      \* _pending_indices of the last call, {} for none
  atUse,        \* _staged_at_use: the slots that call used, {} for none
  lastUsed,     \* last_used
  prefillTopk,  \* _last_prefill_topk
  routedBy,     \* history: the last token of a layer's last call and the
                \* prediction that routed it, None if its gate did
  tail          \* history: length of the prompt's last forward and of the
                \* prompt

config == <<prerouter, historySlots, fullLayer>>
captures == <<mIn, lastTopk, prevOh, pgCache>>
slots == <<nxt, active, pending, atUse, lastUsed, prefillTopk>>
vars == <<config, req, pos, phase, kind, chunks, li, full, captures, slots,
          routedBy, tail>>

Blank(v) == [l \in LayerIds |-> v]
NoTopk == [last |-> None, prev |-> None]

(* Tokens in the running forward, and the last of them. *)
Width == IF kind = "step" THEN 1 ELSE Head(chunks)
LastToken == <<req, pos + Width - 1>>

FirstPgConsumer == IF prerouter THEN Start + 1 ELSE 0

(* Zero-drop scoping of load_installed.                                     *)
StagedMode(l) ==
  /\ l \in StreamLayers
  /\ historySlots \/ (prerouter /\ l >= FirstPgConsumer)

(* BailingDecoderLayer: which layers capture features and which look for   *)
(* a prediction.                                                            *)
HasPrerouter(l) == prerouter /\ l \in (Start - 1)..(LayerCount - 2)
UsePrerouter(l) == prerouter /\ l >= Start

Init ==
  /\ prerouter \in BOOLEAN /\ historySlots \in BOOLEAN
  /\ fullLayer \in BOOLEAN
  /\ req = 0 /\ pos = 0 /\ phase \in {"warmup", "idle"} /\ kind = "step"
  /\ chunks = <<>> /\ li = 0 /\ full = {}
  /\ mIn = Blank(None) /\ lastTopk = Blank(NoTopk) /\ prevOh = Blank(None)
  /\ pgCache = Blank(None)
  /\ nxt = Blank({}) /\ active = Blank({}) /\ pending = Blank({})
  /\ atUse = Blank({}) /\ lastUsed = Blank({}) /\ prefillTopk = Blank({})
  /\ routedBy = Blank(None) /\ tail = <<0, 0>>

-----------------------------------------------------------------------------
(* Mutant: the block's prev-token feature survives a reset. *)
ResetKeepsPrev ==
  /\ pgCache' = Blank(None)
  /\ mIn' = [l \in LayerIds |-> IF l \in Owners THEN None ELSE mIn[l]]
  /\ lastTopk' = [l \in LayerIds |-> IF l \in Owners THEN NoTopk
                                     ELSE lastTopk[l]]
  /\ UNCHANGED prevOh
  /\ nxt' = Blank({}) /\ active' = Blank({}) /\ pending' = Blank({})
  /\ atUse' = Blank({}) /\ lastUsed' = Blank({}) /\ prefillTopk' = Blank({})
  /\ full' = {}

(* _reset_state: the prediction cache, the owners' captures and every      *)
(* layer's staged state; nothing to drop for the prerouter without one.    *)
ResetState ==
  /\ IF prerouter
     THEN /\ pgCache' = Blank(None)
          /\ mIn' = [l \in LayerIds |-> IF l \in Owners THEN None
                                        ELSE mIn[l]]
          /\ lastTopk' = [l \in LayerIds |-> IF l \in Owners THEN NoTopk
                                             ELSE lastTopk[l]]
          /\ prevOh' = [l \in LayerIds |-> IF l \in Owners THEN None
                                           ELSE prevOh[l]]
     ELSE UNCHANGED captures
  /\ nxt' = Blank({}) /\ active' = Blank({}) /\ pending' = Blank({})
  /\ atUse' = Blank({}) /\ lastUsed' = Blank({}) /\ prefillTopk' = Blank({})
  /\ full' = {}

(* Reset and start on a prompt. *)
Begin(prompt) ==
  /\ ResetState
  /\ pos' = 0 /\ li' = 0 /\ chunks' = prompt
  /\ kind' = IF prompt = <<1>> THEN "prompt" ELSE "prefill"
  /\ phase' = "forward"
  /\ routedBy' = Blank(None) /\ tail' = <<0, 0>>
  /\ UNCHANGED config

(* _prewarm: a dummy prefill and one step, then a reset. *)
Prewarm ==
  /\ phase = "warmup" /\ Begin(<<2, 2>>) /\ UNCHANGED req

(* ChatSession.run: reset, then generate's prompt. *)
StartRequest ==
  /\ phase = "idle" /\ req < Requests /\ req' = req + 1
  /\ \E prompt \in Prompts : Begin(prompt)

(* clear_full_layer and load_full_layer of one layer. *)
ClearFullLayer(S, l) == S \ {l}
LoadFullLayer(S, l) == S \cup ({l} \cap StreamLayers)

(* The before_layer hook of a multi-token prefill forward: drop the whole  *)
(* layer below, load this one.                                              *)
BeforeLayer ==
  full' = IF kind = "prefill" /\ Width > 1 /\ fullLayer
          THEN LoadFullLayer(ClearFullLayer(full, li - 1), li)
          ELSE full

(* The n smallest of a set of expert ids, the slots there are. *)
Smallest(S, n) ==
  {e \in S : Cardinality({x \in S : x < e}) < n}

(* stage_experts of one layer; an empty list stages nothing. *)
Staged(l, S) == IF StagedMode(l) /\ S # {} THEN Smallest(S, TopKExperts)
                ELSE nxt[l]

Promoted(l) == IF nxt[l] # {} THEN nxt[l] ELSE active[l]

(* The streaming layer's call with the routes of the forward's positions,  *)
(* earlier and last: whole-layer weights, staged slots, or the exact path. *)
ExpertCall(l, earlier, last) ==
  /\ pending' = [pending EXCEPT ![l] = earlier \cup last]
  /\ LET whole == l \in full' /\ Width > 1
         staged == ~whole /\ StagedMode(l) /\ Width = 1
     IN  /\ prefillTopk' = IF whole /\ StagedMode(l)
                           THEN [prefillTopk EXCEPT ![l] = last]
                           ELSE prefillTopk
         /\ active' = IF staged THEN [active EXCEPT ![l] = Promoted(l)]
                      ELSE active
         /\ nxt' = IF staged THEN [nxt EXCEPT ![l] = {}] ELSE nxt
         /\ atUse' = IF staged THEN [atUse EXCEPT ![l] = Promoted(l)]
                     ELSE atUse
         /\ lastUsed' = IF whole \/ (staged /\ Promoted(l) # {})
                        THEN lastUsed
                        ELSE [lastUsed EXCEPT ![l] = earlier \cup last]

(* The prediction the model passes to layer l. *)
PrevPrerouterLogits(l) == IF UsePrerouter(l) THEN pgCache[l] ELSE None

(* BailingSparseMoE.__call__: a cached prediction routes every position of *)
(* the forward; without one the gate routes each.  The feature recorded is *)
(* the gate's own top-k in both cases (PREROUTER_FEATURE_TOPK "teacher").  *)
SparseMoE(l) ==
  LET p == PrevPrerouterLogits(l)
  IN  /\ IF p # None
         THEN ExpertCall(l, {}, SelectFromLogits(p.logits))
         ELSE \E last \in Logits :
                \E earlier \in IF Width > 1 THEN Logits ELSE {last} :
                  ExpertCall(l, BailingGate(earlier), BailingGate(last))
      /\ lastTopk' = [lastTopk EXCEPT ![l] =
             [last |-> LastToken,
              prev |-> IF Width > 1 THEN <<req, pos + Width - 2>> ELSE None]]
      /\ routedBy' = [routedBy EXCEPT ![l] = [used |-> LastToken, by |-> p]]

(* One layer of a forward. *)
LayerForward ==
  /\ phase = "forward"
  /\ BeforeLayer
  /\ mIn' = [mIn EXCEPT ![li] = IF HasPrerouter(li) THEN LastToken ELSE None]
  /\ IF li \in StreamLayers THEN SparseMoE(li)
     ELSE UNCHANGED <<lastTopk, routedBy, slots>>
  /\ li' = (li + 1) % LayerCount
  /\ phase' = IF li = LayerCount - 1 THEN "boundary" ELSE "forward"
  /\ UNCHANGED <<config, req, pos, kind, chunks, prevOh, pgCache, tail>>

(* The logits of an owner's head and LingPrerouterStager._features, which  *)
(* they are computed from: this token's top-k, and the previous one's from *)
(* the last step or else from the prefill chunk.                            *)
Prediction(o, logits) ==
  [logits |-> logits, at |-> mIn[o], cur |-> lastTopk[o].last,
   prev |-> IF prevOh[o] # None THEN prevOh[o] ELSE lastTopk[o].prev]

(* stage_all with _store and _note: every owner with features predicts its *)
(* consumer, whose slots are filled with the stager's own selection.       *)
StageAll ==
  LET ready == {o \in Owners : mIn[o] # None}
      predicted(c) == c - 1 \in ready
  IN  \E head \in [ready -> Logits] :
        /\ pgCache' = [c \in LayerIds |->
              IF predicted(c)
              THEN Prediction(c - 1, head[c - 1]) ELSE pgCache[c]]
        /\ nxt' = [c \in LayerIds |->
              IF predicted(c)
              THEN Staged(c, GroupSelectFromLogits(head[c - 1]))
              ELSE nxt[c]]
        /\ prevOh' = [l \in LayerIds |->
              IF l \in ready THEN lastTopk[l].last ELSE prevOh[l]]

(* The end of _forward for a decode step or a one-token prompt. *)
StepBoundary ==
  /\ phase = "boundary" /\ kind # "prefill"
  /\ IF prerouter THEN StageAll ELSE UNCHANGED <<pgCache, nxt, prevOh>>
  /\ pos' = pos + 1
  /\ phase' = IF kind = "step" THEN "post" ELSE "decode"
  /\ tail' = IF kind = "prompt" THEN <<1, 1>> ELSE tail
  /\ UNCHANGED <<config, req, kind, chunks, li, full, mIn, lastTopk, active,
                 pending, atUse, lastUsed, prefillTopk, routedBy>>

(* The end of a prefill chunk: no head runs. *)
ChunkBoundary ==
  /\ phase = "boundary" /\ kind = "prefill"
  /\ pos' = pos + Width
  /\ tail' = <<Width, pos + Width>>
  /\ chunks' = Tail(chunks)
  /\ phase' = IF Tail(chunks) = <<>> THEN "prefillEnd" ELSE "forward"
  /\ UNCHANGED <<config, req, kind, li, full, captures, slots, routedBy>>

(* Mutant: the whole-layer weights are not dropped. *)
PrefillEndKeepsFull ==
  /\ phase = "prefillEnd"
  /\ IF prerouter THEN StageAll ELSE UNCHANGED <<pgCache, nxt, prevOh>>
  /\ phase' = "decode"
  /\ UNCHANGED <<config, req, pos, kind, chunks, li, full, mIn, lastTopk,
                 active, pending, atUse, lastUsed, prefillTopk, routedBy,
                 tail>>

(* _prefill_end: drop the whole-layer weights, run the heads, then stage   *)
(* the last prefill top-k of the staged layers that have no prediction.    *)
PrefillEnd ==
  /\ phase = "prefillEnd"
  /\ full' = {}
  /\ IF prerouter
     THEN /\ StageAll
          /\ UNCHANGED lastUsed
     ELSE UNCHANGED <<pgCache, prevOh, nxt, lastUsed>>
  /\ phase' = IF historySlots THEN "history" ELSE "decode"
  /\ UNCHANGED <<config, req, pos, kind, chunks, li, mIn, lastTopk, active,
                 pending, atUse, prefillTopk, routedBy, tail>>

(* Mutant: the consumers are staged from the prefill as well. *)
StageFromPrefillAll ==
  /\ phase = "history"
  /\ LET known(l) == StagedMode(l) /\ prefillTopk[l] # {}
     IN  /\ lastUsed' = [l \in LayerIds |-> IF known(l) THEN prefillTopk[l]
                                            ELSE lastUsed[l]]
         /\ nxt' = [l \in LayerIds |-> IF known(l)
                                       THEN Staged(l, prefillTopk[l])
                                       ELSE nxt[l]]
  /\ phase' = "decode"
  /\ UNCHANGED <<config, req, pos, kind, chunks, li, full, captures, active,
                 pending, atUse, prefillTopk, routedBy, tail>>

(* stage_from_prefill of the layers without an incoming prediction: all    *)
(* staged layers when there is no prerouter.                                *)
StageFromPrefill ==
  /\ phase = "history"
  /\ LET known(l) == /\ StagedMode(l) /\ prefillTopk[l] # {}
                     /\ prerouter => l < FirstPgConsumer
     IN  /\ lastUsed' = [l \in LayerIds |-> IF known(l) THEN prefillTopk[l]
                                            ELSE lastUsed[l]]
         /\ nxt' = [l \in LayerIds |-> IF known(l)
                                       THEN Staged(l, prefillTopk[l])
                                       ELSE nxt[l]]
  /\ phase' = "decode"
  /\ UNCHANGED <<config, req, pos, kind, chunks, li, full, captures, active,
                 pending, atUse, prefillTopk, routedBy, tail>>

(* Mutant: the token cap is not looked at. *)
StepPreUncapped ==
  /\ phase = "decode"
  /\ nxt' = [l \in LayerIds |->
                IF prerouter /\ l < FirstPgConsumer
                THEN Staged(l, lastUsed[l]) ELSE nxt[l]]
  /\ kind' = "step" /\ phase' = "forward" /\ li' = 0
  /\ routedBy' = Blank(None)
  /\ UNCHANGED <<config, req, pos, chunks, full, captures, active, pending,
                 atUse, lastUsed, prefillTopk, tail>>

(* generate samples a token that is not EOS; step begins with _step_pre.   *)
(* Without a prerouter only a prefetch is issued, which changes no set.    *)
StepPre ==
  /\ phase = "decode" /\ pos < MaxPos
  /\ nxt' = [l \in LayerIds |->
                IF prerouter /\ l < FirstPgConsumer
                THEN Staged(l, lastUsed[l]) ELSE nxt[l]]
  /\ kind' = "step" /\ phase' = "forward" /\ li' = 0
  /\ routedBy' = Blank(None)
  /\ UNCHANGED <<config, req, pos, chunks, full, captures, active, pending,
                 atUse, lastUsed, prefillTopk, tail>>

(* _step_post: record the actual experts of the staged layers, and stage   *)
(* and promote them at once where no prediction will come.  A warm-up      *)
(* ends here with a reset.                                                  *)
StepPost ==
  /\ phase = "post"
  /\ IF req = 0
     THEN ResetState /\ phase' = "idle"
     ELSE LET synced(l) == StagedMode(l) /\ pending[l] # {}
              used(l) == IF synced(l) THEN pending[l] ELSE lastUsed[l]
              again(l) == /\ StagedMode(l) /\ used(l) # {}
                          /\ prerouter => l < FirstPgConsumer
          IN  /\ lastUsed' = [l \in LayerIds |-> used(l)]
              /\ pending' = [l \in LayerIds |-> IF synced(l) THEN {}
                                                ELSE pending[l]]
              /\ active' = [l \in LayerIds |->
                    IF again(l) THEN Smallest(used(l), TopKExperts)
                    ELSE active[l]]
              /\ nxt' = [l \in LayerIds |-> IF again(l) THEN {} ELSE nxt[l]]
              /\ phase' = "decode"
              /\ UNCHANGED <<captures, full, atUse, prefillTopk>>
  /\ UNCHANGED <<config, req, pos, kind, chunks, li, routedBy, tail>>

(* EOS, the token cap or an exception: all state stays until the next      *)
(* request resets it.                                                       *)
EndRequest ==
  /\ phase \notin {"idle", "warmup"}
  /\ phase' = "idle"
  /\ UNCHANGED <<config, req, pos, kind, chunks, li, full, captures, slots,
                 routedBy, tail>>

(* Warm-up is opt-in. *)
SkipWarmup ==
  /\ phase = "warmup" /\ phase' = "idle"
  /\ UNCHANGED <<config, req, pos, kind, chunks, li, full, captures, slots,
                 routedBy, tail>>

Next == \/ Prewarm \/ SkipWarmup \/ StartRequest \/ LayerForward
        \/ StepBoundary \/ ChunkBoundary \/ PrefillEnd \/ StageFromPrefill
        \/ StepPre \/ StepPost \/ EndRequest

Spec == Init /\ [][Next]_vars

-----------------------------------------------------------------------------
(* Correctness.                                                             *)

Tokens == (0..Requests) \X (0..(MaxPos + 1))
OrNone(S) == S \cup {None}
Predictions == [logits : Logits, at : Tokens, cur : Tokens,
                prev : OrNone(Tokens)]

TypeOK ==
  /\ config \in BOOLEAN \X BOOLEAN \X BOOLEAN
  /\ req \in 0..Requests /\ pos \in 0..(MaxPos + 1)
  /\ phase \in {"warmup", "idle", "forward", "boundary", "prefillEnd",
                "history", "decode", "post"}
  /\ kind \in {"prefill", "prompt", "step"}
  /\ chunks \in Prompts \cup {<<>>}
  /\ li \in LayerIds /\ full \in SUBSET StreamLayers
  /\ mIn \in [LayerIds -> OrNone(Tokens)]
  /\ lastTopk \in [LayerIds -> [last : OrNone(Tokens),
                                prev : OrNone(Tokens)]]
  /\ prevOh \in [LayerIds -> OrNone(Tokens)]
  /\ pgCache \in [LayerIds -> OrNone(Predictions)]
  /\ \A f \in {nxt, active, pending, atUse, lastUsed, prefillTopk} :
       f \in [LayerIds -> SUBSET Experts]
  /\ routedBy \in [LayerIds ->
       OrNone([used : Tokens, by : OrNone(Predictions)])]
  /\ tail \in (0..2) \X (0..(MaxPos + 1))

Consumers == FirstPgConsumer..(LayerCount - 1)

(* "slots == routing and nothing is dropped": whenever a consumer was      *)
(* routed by a prediction its call used slots that hold exactly the        *)
(* experts its block selected, and slots are used in no other case - with  *)
(* history_slots too, where the layers below are staged as well.  Without  *)
(* a prerouter and history_slots no layer uses slots at all.               *)
ZeroDrop ==
  /\ prerouter => \A l \in Consumers :
       (phase # "idle" /\ routedBy[l] # None) =>
         atUse[l] = IF routedBy[l].by # None
                    THEN SelectFromLogits(routedBy[l].by.logits) ELSE {}
  /\ ~(prerouter \/ historySlots) => \A l \in LayerIds : atUse[l] = {}

(* What the block selects from a cached prediction and what its gate       *)
(* selects obeys the group-limited law, and the slots filled for a         *)
(* prediction are what the block will select from it; before the engine    *)
(* starts the same is checked of all of Vectors.                            *)
SelectionLaw ==
  /\ \A c \in LayerIds : pgCache[c] # None =>
       LET s == pgCache[c].logits
       IN  /\ ObeysLaw(SelectFromLogits(s), s)
           /\ GroupSelectFromLogits(s) = SelectFromLogits(s)
  /\ phase = "warmup" => \A s \in Vectors :
       /\ ObeysLaw(SelectFromLogits(s), s)
       /\ GroupSelectFromLogits(s) = SelectFromLogits(s)
       /\ ObeysLaw(BailingGate(s), [e \in Experts |-> s[e] + Bias[e]])

(* Every decode step, the first included, routes every consumer by a       *)
(* prediction ("without this ... the whole prediction chain shifts by one  *)
(* token").  One that routes token t was made from the input and the top-k *)
(* of token t - 1 of the same request, and its previous-token feature is   *)
(* of token t - 2; that is missing only when the prompt's last forward had *)
(* one token.                                                               *)
FreshRouting ==
  \A l \in LayerIds :
    (phase # "idle" /\ routedBy[l] # None) =>
      LET p == routedBy[l].by
          t == routedBy[l].used
      IN  IF p = None THEN ~(prerouter /\ kind = "step" /\ l \in Consumers)
          ELSE /\ t[1] = req
               /\ p.at = <<req, t[2] - 1>> /\ p.cur = <<req, t[2] - 1>>
               /\ IF p.prev = None THEN tail[1] = 1 /\ t[2] = tail[2]
                  ELSE p.prev = <<req, t[2] - 2>>

(* Whole-layer prefill weights are dropped as the forward moves on: never  *)
(* more than two layers are resident, and none once decoding starts.       *)
FullStackWindow ==
  /\ Cardinality(full) <= 2
  /\ phase \in {"decode", "post"} => full = {}

=============================================================================
