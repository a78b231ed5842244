-------------------------- MODULE PrerouterPipeline --------------------------
(***************************************************************************)
(* The decode pipeline of the edge0-35b engine (engine/base.py,            *)
(* engine/qwen.py, prerouter/*.py): while token t runs, each MoE layer     *)
(* that owns a prerouter head captures its features; at the step boundary  *)
(* all heads run at once and predict, for the NEXT layer and the NEXT      *)
(* token, the experts that layer will be routed to, and those experts are  *)
(* staged.  The promise is that a staged layer's slots are exactly its     *)
(* routing set, so that nothing is dropped, and that no prediction or      *)
(* feature survives into a later token or request.                         *)
(*                                                                         *)
(* One thread runs all of this.  A layer's staging is the atomic staged    *)
(* set that IncrStack implements.  Tensors are abstracted to where they    *)
(* come from: a token is <<request, position>>, a feature is the token it  *)
(* was captured on, a prediction is an expert set with the tokens of the   *)
(* features it was computed from.                                          *)
(***************************************************************************)
EXTENDS Integers, Sequences, FiniteSets

CONSTANTS LayerCount,   \* n_layers
          Start,        \* PrerouterSpec.start_layer, first consuming layer
          Routes,       \* expert sets a router or a head can select
          Requests,     \* bound on the requests served
          MaxPos        \* bound on the positions of one request

ASSUME LayerAssumption == LayerCount \in Nat /\ Start \in 1..(LayerCount - 1)
ASSUME RouteAssumption == {} \notin Routes
ASSUME BoundAssumption == Requests \in Nat /\ MaxPos \in Nat

LayerIds == 0..(LayerCount - 1)
Owners == (Start - 1)..(LayerCount - 2)
None == <<>>

VARIABLES
  historySlots, \* ModelConfig.history_slots, chosen at load
  req, pos,     \* current request and position
  phase,        \* what the engine thread is doing
  kind,         \* whose forward it is: a prefill chunk's, a one-token
                \* prompt's or a decode step's
  chunks,       \* prompt chunks still to run
  li,           \* next layer of the running single-token forward
  mIn,          \* block.prerouter_m_in and prerouter_oh: token or None
  oh, ohPrev,   \* PrerouterState.oh / oh_prev: token or None
  pred,         \* PrerouterState.pred_inds by consumer: prediction or None
  nxt, active,  \* staged sets of the streaming layers, {} for none
  pending,      \* _pending_indices of the last call, {} for none
  atUse,        \* _staged_at_use: the slots that call used, {} for none
  lastUsed,     \* last_used
  prefillTopk,  \* _last_prefill_topk
  routedBy      \* history: the token of a layer's last call and the
                \* prediction that routed it, None if its gate did

captures == <<mIn, oh, ohPrev, pred>>
slots == <<nxt, active, pending, atUse, lastUsed, prefillTopk>>
vars == <<historySlots, req, pos, phase, kind, chunks, li, captures, slots,
          routedBy>>

Token == <<req, pos>>
Blank(v) == [l \in LayerIds |-> v]

(* Mutant: the layers are not scoped. *)
StagedModeEverywhere(l) == TRUE

(* Zero-drop scoping of load_installed: only the layers whose route is a   *)
(* prediction keep staged slots, unless history_slots keeps them all.      *)
StagedMode(l) == historySlots \/ l \in Start..(LayerCount - 2)

(* _step_pre and _step_post: the layers without an incoming prediction. *)
Unpredicted(l) == l < Start \/ l >= LayerCount - 1

Init ==
  /\ historySlots \in BOOLEAN
  /\ req = 0 /\ pos = 0 /\ phase = "idle" /\ kind = "step"
  /\ chunks = <<>> /\ li = 0
  /\ mIn = Blank(None) /\ oh = Blank(None) /\ ohPrev = Blank(None)
  /\ pred = Blank(None)
  /\ nxt = Blank({}) /\ active = Blank({}) /\ pending = Blank({})
  /\ atUse = Blank({}) /\ lastUsed = Blank({}) /\ prefillTopk = Blank({})
  /\ routedBy = Blank(None)

-----------------------------------------------------------------------------
(* Mutant: predictions survive into the next request. *)
ResetStateKeepsPredictions ==
  /\ oh' = Blank(None) /\ ohPrev' = Blank(None)
  /\ mIn' = Blank(None)
  /\ nxt' = Blank({}) /\ active' = Blank({}) /\ pending' = Blank({})
  /\ atUse' = Blank({}) /\ lastUsed' = Blank({}) /\ prefillTopk' = Blank({})
  /\ UNCHANGED pred

(* Mutant: staged slots survive into the next request. *)
ResetStateKeepsSlots ==
  /\ oh' = Blank(None) /\ ohPrev' = Blank(None) /\ pred' = Blank(None)
  /\ mIn' = Blank(None)
  /\ pending' = Blank({})
  /\ atUse' = Blank({}) /\ lastUsed' = Blank({}) /\ prefillTopk' = Blank({})
  /\ UNCHANGED <<nxt, active>>

(* Engine reset: prerouter state, feature captures and staged state.        *)
ResetState ==
  /\ oh' = Blank(None) /\ ohPrev' = Blank(None) /\ pred' = Blank(None)
  /\ mIn' = Blank(None)
  /\ nxt' = Blank({}) /\ active' = Blank({}) /\ pending' = Blank({})
  /\ atUse' = Blank({}) /\ lastUsed' = Blank({}) /\ prefillTopk' = Blank({})

(* ChatSession.run: reset, then the prompt: in prefill chunks, of which    *)
(* only the last can be a single token, or one forward for a prompt of one *)
(* token.                                                                   *)
StartRequest ==
  /\ phase = "idle" /\ req < Requests
  /\ ResetState
  /\ req' = req + 1 /\ pos' = 0 /\ li' = 0
  /\ \/ /\ chunks' \in {<<"multi">>, <<"multi", "single">>}
        /\ kind' = "prefill" /\ phase' = "chunk"
     \/ /\ chunks' = <<>> /\ kind' = "prompt" /\ phase' = "forward"
  /\ routedBy' = Blank(None)
  /\ UNCHANGED historySlots

(* A chunk of several tokens: the patched block takes its original call,   *)
(* so no feature is captured and no prediction consumed.  Over a resident  *)
(* whole or hot stack the staged layers keep the last token's top-k; a     *)
(* chunk of at most eight selections, or without such a stack, takes the   *)
(* exact path.  pos is left at the chunk's last token.                     *)
MultiChunk ==
  /\ phase = "chunk" /\ Head(chunks) = "multi"
  /\ \E topk \in [LayerIds -> Routes] :
       /\ pending' = topk
       /\ \/ /\ prefillTopk' = [l \in LayerIds |->
                     IF StagedMode(l) THEN topk[l] ELSE prefillTopk[l]]
             /\ UNCHANGED lastUsed
          \/ lastUsed' = topk /\ UNCHANGED prefillTopk
  /\ routedBy' = Blank(None)
  /\ chunks' = Tail(chunks) /\ pos' = pos + 1 /\ phase' = "stage"
  /\ UNCHANGED <<historySlots, req, kind, li, captures, nxt, active, atUse>>

SingleChunk ==
  /\ phase = "chunk" /\ Head(chunks) = "single"
  /\ chunks' = Tail(chunks) /\ li' = 0 /\ phase' = "forward"
  /\ UNCHANGED <<historySlots, req, pos, kind, captures, slots, routedBy>>

(* The prediction layer l is routed with; only the patched blocks, those   *)
(* that own a head, look for one.                                           *)
Prediction(l) == IF l \in Owners /\ l >= Start THEN pred[l] ELSE None

Promoted(l) == IF nxt[l] # {} THEN nxt[l] ELSE active[l]

(* The streaming layer's __call__: staged slots if it has any, else the    *)
(* exact path.                                                              *)
ExpertCall(l, route) ==
  /\ pending' = [pending EXCEPT ![l] = route]
  /\ IF StagedMode(l)
     THEN /\ active' = [active EXCEPT ![l] = Promoted(l)]
          /\ nxt' = [nxt EXCEPT ![l] = {}]
          /\ atUse' = [atUse EXCEPT ![l] = Promoted(l)]
     ELSE UNCHANGED <<active, nxt, atUse>>
  /\ lastUsed' = IF StagedMode(l) /\ Promoted(l) # {} THEN lastUsed
                 ELSE [lastUsed EXCEPT ![l] = route]
  /\ UNCHANGED prefillTopk

(* One layer of a single-token forward (prerouter_call and the original    *)
(* block call).                                                             *)
LayerForward ==
  /\ phase = "forward"
  /\ LET p == Prediction(li)
     IN  /\ \E route \in IF p # None THEN {p.set} ELSE Routes :
                ExpertCall(li, route)
         /\ routedBy' = [routedBy EXCEPT ![li] = [used |-> Token, by |-> p]]
  /\ IF li \in Owners
     THEN /\ oh' = [oh EXCEPT ![li] = Token]
          /\ mIn' = [mIn EXCEPT ![li] = Token]
     ELSE UNCHANGED <<oh, mIn>>
  /\ li' = (li + 1) % LayerCount
  /\ phase' = IF li = LayerCount - 1 THEN "stage" ELSE "forward"
  /\ UNCHANGED <<historySlots, req, pos, kind, chunks, ohPrev, pred>>

(* The step boundary inside _forward: stage_all runs the heads of all      *)
(* owners that have features and submits their consumers' slots, then      *)
(* PrerouterState.swap.                                                     *)
StageAll ==
  /\ phase = "stage"
  /\ \E sel \in [{o \in Owners : mIn[o] # None} -> Routes] :
       LET predicted(c) == c - 1 \in DOMAIN sel
       IN  /\ pred' = [c \in LayerIds |->
                 IF predicted(c)
                 THEN [set |-> sel[c - 1], at |-> mIn[c - 1],
                       prev |-> ohPrev[c - 1]]
                 ELSE pred[c]]
           /\ nxt' = [c \in LayerIds |->
                 IF predicted(c) /\ StagedMode(c) THEN sel[c - 1] ELSE nxt[c]]
  /\ ohPrev' = oh /\ oh' = Blank(None)
  /\ pos' = pos + 1
  /\ phase' = CASE kind = "step" -> "post"
              [] kind = "prompt" -> "decode"
              [] kind = "prefill" -> IF chunks = <<>> THEN "prefillEnd"
                                     ELSE "chunk"
  /\ UNCHANGED <<historySlots, req, kind, chunks, li, mIn, active, pending,
                 atUse, lastUsed, prefillTopk, routedBy>>

(* _prefill_end: with history_slots the last top-k is staged, else it is   *)
(* only prefetched.                                                         *)
PrefillEnd ==
  /\ phase = "prefillEnd"
  /\ LET known(l) == StagedMode(l) /\ prefillTopk[l] # {}
     IN  /\ lastUsed' = [l \in LayerIds |-> IF known(l) THEN prefillTopk[l]
                                            ELSE lastUsed[l]]
         /\ nxt' = [l \in LayerIds |-> IF known(l) /\ historySlots
                                       THEN prefillTopk[l] ELSE nxt[l]]
  /\ phase' = "decode"
  /\ UNCHANGED <<historySlots, req, pos, kind, chunks, li, captures, active,
                 pending, atUse, prefillTopk, routedBy>>

(* Mutant: the token cap is not looked at. *)
StepPreUncapped ==
  /\ phase = "decode"
  /\ nxt' = [l \in LayerIds |->
                IF Unpredicted(l) /\ StagedMode(l) /\ lastUsed[l] # {}
                THEN lastUsed[l] ELSE nxt[l]]
  /\ kind' = "step" /\ phase' = "forward" /\ li' = 0
  /\ routedBy' = Blank(None)
  /\ UNCHANGED <<historySlots, req, pos, chunks, captures, active, pending,
                 atUse, lastUsed, prefillTopk>>

(* generate samples a token that is not EOS: step, from _step_pre on. *)
StepPre ==
  /\ phase = "decode" /\ pos < MaxPos
  /\ nxt' = [l \in LayerIds |->
                IF Unpredicted(l) /\ StagedMode(l) /\ lastUsed[l] # {}
                THEN lastUsed[l] ELSE nxt[l]]
  /\ kind' = "step" /\ phase' = "forward" /\ li' = 0
  /\ routedBy' = Blank(None)
  /\ UNCHANGED <<historySlots, req, pos, chunks, captures, active, pending,
                 atUse, lastUsed, prefillTopk>>

(* _step_post: sync_actuals of the staged layers without a prediction. *)
StepPost ==
  /\ phase = "post"
  /\ LET synced(l) == Unpredicted(l) /\ StagedMode(l) /\ pending[l] # {}
     IN  /\ lastUsed' = [l \in LayerIds |-> IF synced(l) THEN pending[l]
                                            ELSE lastUsed[l]]
         /\ pending' = [l \in LayerIds |-> IF synced(l) THEN {}
                                           ELSE pending[l]]
  /\ phase' = "decode"
  /\ UNCHANGED <<historySlots, req, pos, kind, chunks, li, captures, nxt,
                 active, atUse, prefillTopk, routedBy>>

(* EOS or the token cap; or an exception anywhere, which leaves all state  *)
(* as it is until the next request resets it.                               *)
EndRequest ==
  /\ phase # "idle"
  /\ phase' = "idle"
  /\ UNCHANGED <<historySlots, req, pos, kind, chunks, li, captures, slots,
                 routedBy>>

Next == \/ StartRequest \/ MultiChunk \/ SingleChunk \/ LayerForward
        \/ StageAll \/ PrefillEnd \/ StepPre \/ StepPost \/ EndRequest

Spec == Init /\ [][Next]_vars

-----------------------------------------------------------------------------
(* Correctness.                                                             *)

Tokens == (1..Requests) \X (0..(MaxPos + 3))
OrNone(S) == S \cup {None}
Predictions == [set : Routes, at : Tokens, prev : OrNone(Tokens)]
RouteOrEmpty == Routes \cup {{}}
Calls == [used : Tokens, by : OrNone(Predictions)]
Chunkings == {<<>>, <<"single">>, <<"multi">>, <<"multi", "single">>}

TypeOK ==
  /\ historySlots \in BOOLEAN
  /\ req \in 0..Requests /\ pos \in 0..(MaxPos + 3)
  /\ phase \in {"idle", "chunk", "forward", "stage", "prefillEnd", "decode",
                "post"}
  /\ kind \in {"prefill", "prompt", "step"}
  /\ chunks \in Chunkings
  /\ li \in LayerIds
  /\ mIn \in [LayerIds -> OrNone(Tokens)]
  /\ oh \in [LayerIds -> OrNone(Tokens)]
  /\ ohPrev \in [LayerIds -> OrNone(Tokens)]
  /\ pred \in [LayerIds -> OrNone(Predictions)]
  /\ \A f \in {nxt, active, pending, atUse, lastUsed, prefillTopk} :
       f \in [LayerIds -> RouteOrEmpty]
  /\ routedBy \in [LayerIds -> OrNone(Calls)]

(* "the staged set == the routing set exactly": in the scoped              *)
(* configuration a layer routed by a prediction used slots that hold       *)
(* exactly the routed experts, and a layer routed by its gate used none.   *)
ZeroDrop ==
  ~historySlots =>
    \A l \in LayerIds :
      (StagedMode(l) /\ routedBy[l] # None) =>
        atUse[l] = IF routedBy[l].by # None THEN pending[l] ELSE {}

(* A layer is only ever routed by a prediction made on the previous token  *)
(* of the same request, and that prediction's previous-token feature is    *)
(* from the token before that: nothing survives a reset, an aborted        *)
(* request, or a prefill.                                                   *)
FreshRouting ==
  \A l \in LayerIds :
    (phase # "idle" /\ routedBy[l] # None /\ routedBy[l].by # None) =>
      LET p == routedBy[l].by
          t == routedBy[l].used
      IN  /\ t[1] = req
          /\ p.at = <<req, t[2] - 1>>
          /\ p.prev \in {None, <<req, t[2] - 2>>}

(* Before a step, every staged layer's next slots are its prediction, and  *)
(* empty if it has none, so that the gate-routed first step runs exactly.  *)
SlotsFollowPrediction ==
  (~historySlots /\ phase = "decode") =>
    \A l \in Start..(LayerCount - 2) :
      Promoted(l) = IF pred[l] = None THEN {} ELSE pred[l].set

=============================================================================
