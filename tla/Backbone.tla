------------------------------ MODULE Backbone ------------------------------
(***************************************************************************)
(* The vendored hybrid backbones (bailing_hybrid.py for edge0-8b,          *)
(* qwen3_5.py and qwen3_next.py for edge0-35b) under the engine's prefill  *)
(* and generate loop (engine/base.py).  A model mixes two kinds of layers: *)
(* softmax attention with a growing key/value cache, and linear attention  *)
(* with a short convolution window and a recurrent state.  A prompt is     *)
(* processed in chunks, decoding one token at a time, and none of that may *)
(* show: every position must be computed from exactly the positions        *)
(* before it, each with its own rotary position.                           *)
(*                                                                         *)
(* A tensor is abstracted to the input positions it holds or was computed  *)
(* from, 0 being the first token of the request, and to whether it has     *)
(* become NaN.  The caches, the attention mask and the kernels of mlx-lm   *)
(* are external.                                                            *)
(***************************************************************************)
EXTENDS Sampling, Sequences

CONSTANTS Families,     \* subset of {"ling", "qwen"}
          LayerCount,   \* num_hidden_layers
          GroupSize,    \* layer_group_size / full_attention_interval
          Kernels,      \* short convolution kernel sizes
          Prompts,      \* token sequences
          MaxPrompt,    \* bound on their length
          PrefillChunk, \* prefill_chunk
          LogitSet,     \* logit vectors a forward can produce
          GenConfigs,   \* generation settings
          Eos,          \* eos_ids
          MaxNew,       \* max_new_tokens
          Requests      \* bound on the requests served

ASSUME FamilyAssumption == Families \subseteq {"ling", "qwen"}
ASSUME LayerAssumption ==
  LayerCount \in Nat /\ GroupSize \in 1..LayerCount
ASSUME KernelAssumption ==
  \* the qwen slice conv_input[:, -(k - 1):] keeps everything for k = 1
  Kernels \subseteq Nat \ {0}
ASSUME LoopAssumption ==
  PrefillChunk \in Nat \ {0} /\ MaxNew \in Nat \ {0} /\ Requests \in Nat
ASSUME PromptAssumption ==
  /\ MaxPrompt \in Nat
  /\ \A ids \in Prompts : ids \in Seq(Vocab) /\ Len(ids) <= MaxPrompt
ASSUME GenAssumption ==
  \A g \in GenConfigs :
    /\ g.temperature \in Int /\ g.topK \in Nat /\ g.topP \in Nat \X Nat
    /\ g.penalty \in Nat \ {0}
ASSUME LogitAssumption ==
  /\ LogitSet \subseteq [Vocab -> Int]
  /\ \A vec \in LogitSet, g \in GenConfigs, h \in SUBSET Vocab, t \in Vocab :
       Penalise(vec, g.penalty, h)[t] \in (-LogitBound)..LogitBound

LayerIds == 0..(LayerCount - 1)
None == <<>>
Zero == -1      \* a row of the zero padding in front of the first token

VARIABLES
  family, kernel, clip, \* model and hidden clip, fixed at load
  req,        \* requests started
  gen,        \* settings of the request
  phase,      \* "idle", "forward", "sample"
  prompt,     \* tokens of the prompt not yet handed to a forward
  prefilling, \* inside prefill()
  fed,        \* positions processed by finished forwards: engine.pos
  fwd,        \* tokens of the running forward
  li,         \* next layer of the running forward
  hidden,     \* "ok" or "nan": the running hidden state
  kv,         \* KVCache of an attention layer: <<position, rotary>> pairs
  conv,       \* convolution states of a linear layer, None before the first
  ssm,        \* positions the recurrent state of a linear layer has taken
  poisoned,   \* layers whose cache holds a NaN
  view,       \* what each position of the last layer call saw
  lastLogits, \* _last_logits: position and values, None
  logits,     \* the loop's logits
  hist, out,  \* history (a set) and number of tokens generated
  drawn,      \* history: the last draw
  faulted     \* history: an overflow happened in this request

model == <<family, kernel, clip>>
caches == <<kv, conv, ssm, poisoned>>
vars == <<model, req, gen, phase, prompt, prefilling, fed, fwd, li, hidden,
          caches, view, lastLogits, logits, hist, out, drawn, faulted>>

(* ModelArgs.is_mla_layer: last of each group, and the remainder. *)
IsMlaLayer(l) ==
  (l + 1) % GroupSize = 0 \/ l >= (LayerCount \div GroupSize) * GroupSize

(* DecoderLayer.is_linear of the qwen family. *)
IsLinear(l) == (l + 1) % GroupSize # 0

AttentionLayer(l) == IF family = "ling" THEN IsMlaLayer(l) ELSE ~IsLinear(l)

(* The convolution inputs of a linear layer: three short convolutions, or  *)
(* one over the concatenated projection.                                    *)
Streams == IF family = "ling" THEN {"q", "k", "v"} ELSE {"qkv"}

(* make_cache, at every reset. *)
EmptyCaches ==
  /\ kv' = [l \in LayerIds |-> <<>>]
  /\ conv' = [l \in LayerIds |-> None]
  /\ ssm' = [l \in LayerIds |-> <<>>]
  /\ poisoned' = {}

Init ==
  /\ family \in Families /\ kernel \in Kernels
  /\ family = "qwen" => kernel > 1
  /\ clip \in BOOLEAN
  /\ req = 0 /\ gen \in GenConfigs /\ phase = "idle" /\ prompt = <<>>
  /\ prefilling = FALSE /\ fed = 0 /\ fwd = 0 /\ li = 0 /\ hidden = "ok"
  /\ kv = [l \in LayerIds |-> <<>>] /\ conv = [l \in LayerIds |-> None]
  /\ ssm = [l \in LayerIds |-> <<>>] /\ poisoned = {}
  /\ view = {} /\ lastLogits = None /\ logits = None
  /\ hist = {} /\ out = 0 /\ drawn = None /\ faulted = FALSE

-----------------------------------------------------------------------------
(* The linear layers.                                                       *)

(* Python's s[-n:]: all of s for n = 0. *)
LastRows(s, n) == IF n = 0 THEN s ELSE SubSeq(s, Len(s) - n + 1, Len(s))

(* Mutant: the state keeps one row too few. *)
ShortConvStateShort(input) == LastRows(input, kernel - 2)

(* ShortConv1d: the rolling state, empty for kernel size 1. *)
ShortConvState(input) ==
  IF kernel = 1 THEN <<>> ELSE LastRows(input, kernel - 1)

(* The qwen layers' conv state. *)
GatedDeltaConvState(input) == LastRows(input, kernel - 1)

NewPositions == [i \in 1..fwd |-> fed + i - 1]

ConvInput(l, s) ==
  (IF conv[l] = None THEN [i \in 1..(kernel - 1) |-> Zero] ELSE conv[l][s])
    \o NewPositions

(* What position i of the forward is computed from: a window of kernel     *)
(* rows of every stream, and the recurrence over all positions so far.     *)
LinearView(l, i) ==
  [p |-> fed + i - 1,
   windows |-> [s \in Streams |->
                  SubSeq(ConvInput(l, s), i, i + kernel - 1)],
   prefix |-> ssm[l] \o SubSeq(NewPositions, 1, i)]

(* BailingKDA.__call__: three rolling windows and the delta rule. *)
BailingKDA(l) ==
  /\ conv' = [conv EXCEPT ![l] =
                [s \in Streams |-> ShortConvState(ConvInput(l, s))]]
  /\ ssm' = [ssm EXCEPT ![l] = @ \o NewPositions]
  /\ view' = {LinearView(l, i) : i \in 1..fwd}
  /\ UNCHANGED kv

(* GatedDeltaNet.__call__ of the qwen family. *)
GatedDeltaNet(l) ==
  /\ conv' = [conv EXCEPT ![l] =
                [s \in Streams |-> GatedDeltaConvState(ConvInput(l, s))]]
  /\ ssm' = [ssm EXCEPT ![l] = @ \o NewPositions]
  /\ view' = {LinearView(l, i) : i \in 1..fwd}
  /\ UNCHANGED kv

-----------------------------------------------------------------------------
(* The attention layers.                                                    *)

(* Mutant: the rotary positions of a chunk start at zero. *)
RotaryFromZero(l, i) == i - 1

(* positions = arange(L) + cache.offset, and rope(offset = cache.offset). *)
Rotary(l, i) == Len(kv[l]) + i - 1

(* create_attention_mask with scaled_dot_product_attention: none for one   *)
(* token, else causal, aligned with the last key.                           *)
Visible(keys, i) ==
  IF fwd = 1 THEN keys ELSE SubSeq(keys, 1, Len(keys) - fwd + i)

(* update_and_fetch and the attention over what it returns. *)
Attend(l) ==
  LET keys == kv[l] \o [i \in 1..fwd |-> <<fed + i - 1, Rotary(l, i)>>]
  IN  /\ kv' = [kv EXCEPT ![l] = keys]
      /\ view' = {[p |-> fed + i - 1, rotary |-> Rotary(l, i),
                   keys |-> Visible(keys, i)] : i \in 1..fwd}

(* BailingMLA.__call__. *)
BailingMLA(l) == Attend(l) /\ UNCHANGED <<conv, ssm>>

(* Qwen3NextAttention.__call__. *)
QwenAttention(l) == Attend(l) /\ UNCHANGED <<conv, ssm>>

(* The sequence mixing of a decoder layer of either family. *)
BailingDecoderLayer(l) == IF IsMlaLayer(l) THEN BailingMLA(l)
                          ELSE BailingKDA(l)
QwenDecoderLayer(l) == IF IsLinear(l) THEN GatedDeltaNet(l)
                       ELSE QwenAttention(l)

-----------------------------------------------------------------------------
(* A layer call.  An fp16 overflow may spoil the layer's output, or the    *)
(* state it keeps as well; NaN spreads from the input or from the cache.   *)
(* The loop's hidden clip replaces a NaN output by zeros.  The expert      *)
(* loads may raise, after the layer's cache has been written.              *)

(* Mutant: the clip is not applied. *)
ClippedNever(h) == h

(* where(isnan(h), 0, clip(h)). *)
Clipped(h) == IF clip THEN "ok" ELSE h

LayerCall ==
  /\ phase = "forward"
  /\ IF family = "ling" THEN BailingDecoderLayer(li)
     ELSE QwenDecoderLayer(li)
  /\ \E overflow \in {"none", "output", "state"} :
       /\ faulted => overflow = "none"
       /\ faulted' = (faulted \/ overflow # "none")
       /\ poisoned' = IF hidden = "nan" \/ overflow = "state"
                      THEN poisoned \cup {li} ELSE poisoned
       /\ hidden' = Clipped(IF overflow # "none" \/ li \in poisoned'
                            THEN "nan" ELSE hidden)
  /\ \/ /\ li' = (li + 1) % LayerCount
        /\ phase' = IF li = LayerCount - 1 THEN "head" ELSE "forward"
     \/ li' = 0 /\ phase' = "idle"
  /\ UNCHANGED <<model, req, gen, prompt, prefilling, fed, fwd, lastLogits,
                 logits, hist, out, drawn>>

Forward(n) == fwd' = n /\ li' = 0 /\ hidden' = "ok" /\ phase' = "forward"

(* ChatSession.run: reset, then generate.  An empty prompt leaves the      *)
(* loop without logits, which raises.                                      *)
StartRequest ==
  /\ phase = "idle" /\ req < Requests /\ req' = req + 1
  /\ EmptyCaches
  /\ fed' = 0 /\ lastLogits' = None /\ logits' = None
  /\ view' = {} /\ out' = 0 /\ drawn' = None /\ faulted' = FALSE
  /\ gen' \in GenConfigs
  /\ \E ids \in Prompts :
       /\ hist' = {ids[i] : i \in 1..Len(ids)}
       /\ \/ /\ Len(ids) > 1 /\ prefilling' = TRUE
             /\ LET n == IF Len(ids) < PrefillChunk THEN Len(ids)
                         ELSE PrefillChunk
                IN  /\ prompt' = SubSeq(ids, n + 1, Len(ids)) /\ Forward(n)
          \/ /\ Len(ids) = 1 /\ prefilling' = FALSE
             /\ prompt' = <<>> /\ Forward(1)
          \/ /\ Len(ids) = 0 /\ prefilling' = FALSE /\ prompt' = <<>>
             /\ phase' = "idle" /\ UNCHANGED <<fwd, li, hidden>>
  /\ UNCHANGED model

(* norm and lm_head on the last position, evaluated. *)
HeadLogits ==
  [at : {fed + fwd - 1}, vec : IF hidden = "nan" THEN {None} ELSE LogitSet]

(* The end of a prompt forward: a prefill chunk, after which the next one  *)
(* starts, or a one-token prompt.                                           *)
PromptForwardEnd ==
  /\ phase = "head" /\ out = 0
  /\ lastLogits' \in HeadLogits
  /\ fed' = fed + fwd
  /\ IF prompt # <<>>
     THEN LET n == IF Len(prompt) < PrefillChunk THEN Len(prompt)
                   ELSE PrefillChunk
          IN  /\ prompt' = SubSeq(prompt, n + 1, Len(prompt)) /\ Forward(n)
              /\ UNCHANGED <<prefilling, logits>>
     ELSE /\ prefilling' = FALSE /\ phase' = "sample"
          /\ logits' = lastLogits'
          /\ UNCHANGED <<prompt, fwd, li, hidden>>
  /\ UNCHANGED <<model, req, gen, caches, view, hist, out, drawn, faulted>>

(* Mutant: the loop reads next_logits() again after a step. *)
StepEndRereads ==
  /\ phase = "head" /\ out > 0
  /\ logits' = lastLogits
  /\ fed' = fed + 1 /\ phase' = "sample"
  /\ UNCHANGED <<model, req, gen, prompt, prefilling, fwd, li, hidden,
                 caches, view, lastLogits, hist, out, drawn, faulted>>

(* step returns its logits and leaves _last_logits alone. *)
StepEnd ==
  /\ phase = "head" /\ out > 0
  /\ logits' \in HeadLogits
  /\ fed' = fed + 1 /\ phase' = "sample"
  /\ UNCHANGED <<model, req, gen, prompt, prefilling, fwd, li, hidden,
                 caches, view, lastLogits, hist, out, drawn, faulted>>

(* The ids one iteration of the generate loop can pick: the argmax for the *)
(* first token, else a draw; NaN logits make id 0 win.                     *)
Choices ==
  IF logits.vec = None THEN {0}
  ELSE IF out = 0 /\ gen.firstGreedy THEN {Argmax(logits.vec)}
  ELSE Sample(logits.vec, gen, hist)

(* One iteration of the generate loop: draw, stop at an end token, else    *)
(* record the token and step.                                               *)
GenerateStep ==
  /\ phase = "sample" /\ out < MaxNew
  /\ \E tid \in Choices :
       /\ drawn' = [at |-> logits.at, vec |-> logits.vec, hist |-> hist,
                    first |-> out = 0, tid |-> tid]
       /\ IF tid \in Eos
          THEN /\ phase' = "idle"
               /\ UNCHANGED <<hist, out, fwd, li, hidden>>
          ELSE /\ hist' = hist \cup {tid} /\ out' = out + 1 /\ Forward(1)
  /\ UNCHANGED <<model, req, gen, prompt, prefilling, fed, caches, view,
                 lastLogits, logits, faulted>>

(* The loop ends at max_new_tokens. *)
GenerateCap ==
  /\ phase = "sample" /\ out = MaxNew /\ phase' = "idle"
  /\ UNCHANGED <<model, req, gen, prompt, prefilling, fed, fwd, li, hidden,
                 caches, view, lastLogits, logits, hist, out, drawn, faulted>>

EngineStep == \/ LayerCall \/ PromptForwardEnd \/ StepEnd \/ GenerateStep
              \/ GenerateCap

Next == StartRequest \/ EngineStep

Spec == Init /\ [][Next]_vars

-----------------------------------------------------------------------------
(* Correctness.                                                             *)

MaxLen == MaxPrompt + MaxNew
Positions == 0..MaxLen
LogitsType == [at : Positions, vec : LogitSet \cup {None}]

TypeOK ==
  /\ family \in Families /\ kernel \in Kernels /\ clip \in BOOLEAN
  /\ req \in 0..Requests /\ gen \in GenConfigs
  /\ phase \in {"idle", "forward", "head", "sample"}
  /\ prefilling \in BOOLEAN /\ fed \in Positions
  /\ fwd \in 0..PrefillChunk /\ li \in LayerIds /\ hidden \in {"ok", "nan"}
  /\ \A l \in LayerIds :
       /\ Len(kv[l]) <= MaxLen /\ Len(ssm[l]) <= MaxLen
       /\ conv[l] # None => \A s \in Streams : Len(conv[l][s]) = kernel - 1
       /\ AttentionLayer(l) => conv[l] = None /\ ssm[l] = <<>>
       /\ ~AttentionLayer(l) => kv[l] = <<>>
  /\ poisoned \in SUBSET LayerIds
  /\ lastLogits \in LogitsType \cup {None} /\ logits \in LogitsType \cup {None}
  /\ hist \in SUBSET Vocab /\ out \in 0..MaxNew
  /\ faulted \in BOOLEAN

(* However the prompt was cut into chunks and whatever an aborted request  *)
(* left behind, a layer computes position p from the positions 0..p of     *)
(* this request and no others: attention sees each of them once, under its *)
(* own rotary position; a convolution window holds the last positions,     *)
(* zero-padded at the front; the recurrent state has taken each once.      *)
CausalContext ==
  \A v \in view :
    LET upto == [i \in 1..(v.p + 1) |-> i - 1]
    IN  IF "keys" \in DOMAIN v
        THEN /\ v.rotary = v.p
             /\ v.keys = [i \in 1..(v.p + 1) |-> <<i - 1, i - 1>>]
        ELSE /\ v.prefix = upto
             /\ \A s \in DOMAIN v.windows : v.windows[s] =
                  [j \in 1..kernel |-> IF v.p - kernel + j < 0 THEN Zero
                                       ELSE v.p - kernel + j]

(* "re-reading next_logits() here would replay the prefill-final logits    *)
(* forever": a token is drawn from the logits of the last position, when   *)
(* every layer's cache has taken exactly the positions fed so far.         *)
FreshLogits ==
  phase = "sample" =>
    /\ logits # None /\ logits.at = fed - 1
    /\ \A l \in LayerIds :
         (IF AttentionLayer(l) THEN Len(kv[l]) ELSE Len(ssm[l])) = fed

(* "a single fp16 overflow inside one layer cannot poison the whole        *)
(* network": with the hidden clip the logits stay finite, even if a        *)
(* layer's own recurrent state or cache has become NaN for the rest of the *)
(* request, and no other layer is affected.                                *)
FiniteLogits ==
  clip => /\ logits # None => logits.vec # None
          /\ Cardinality(poisoned) <= 1

(* A token is drawn from what the settings allow, given the logits and the *)
(* history at that moment; the first one is a best token.                  *)
DrawnAsConfigured ==
  (drawn # None /\ drawn.vec # None) =>
    IF drawn.first /\ gen.firstGreedy
    THEN \A t \in Vocab : drawn.vec[drawn.tid] >= drawn.vec[t]
    ELSE /\ drawn.tid \in Drawable(drawn.vec, gen, drawn.hist)
         /\ Sample(drawn.vec, gen, drawn.hist) =
              Drawable(drawn.vec, gen, drawn.hist)

=============================================================================
