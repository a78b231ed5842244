----------------------- MODULE PrerouterPipelineProofs -----------------------
(***************************************************************************)
(* For any number of layers, first consumer, expert sets, requests and     *)
(* positions: the prerouted decode drops no expert, routes by nothing      *)
(* stale, and enters every step with slots that are its predictions.       *)
(***************************************************************************)
EXTENDS PrerouterPipeline, TLAPS

Live == phase # "idle"

(* Where the positions are when a forward or a step boundary begins. *)
ControlInv ==
  /\ Live => req > 0
  /\ phase = "chunk" =>
       /\ kind = "prefill" /\ chunks # <<>>
       /\ pos = IF chunks = <<"single">> THEN 2 ELSE 0
  /\ phase \in {"forward", "stage"} =>
       /\ kind = "prompt" => pos = 0
       /\ kind = "step" => pos < MaxPos
  /\ (phase = "forward" /\ kind = "prefill") => chunks = <<>> /\ pos = 2
  /\ (phase = "stage" /\ kind = "prefill") =>
       IF chunks = <<>> THEN pos \in 1..2 ELSE chunks = <<"single">> /\ pos = 1

NoFeatures == \A l \in LayerIds : /\ mIn[l] = None /\ oh[l] = None
                                  /\ ohPrev[l] = None /\ pred[l] = None

(* Features are of the running token and the one before it: a forward      *)
(* captures every owner before the boundary, a prefill chunk of several    *)
(* tokens none, and none was there before it.                               *)
FeatureInv ==
  /\ Live => \A l \in LayerIds : oh[l] \in {None, Token}
                                 /\ ohPrev[l] \in {None, <<req, pos - 1>>}
  /\ phase = "chunk" => NoFeatures
  /\ phase = "forward" => \A o \in Owners : o < li => mIn[o] = Token
  /\ phase = "stage" => NoFeatures \/ \A o \in Owners : mIn[o] = Token
  /\ (phase = "stage" /\ kind = "prefill" /\ chunks # <<>>) => NoFeatures

(* Every prediction was made on the previous token, for a consumer. *)
PredInv ==
  Live => \A c \in LayerIds : pred[c] # None =>
            /\ c - 1 \in Owners
            /\ pred[c].at = <<req, pos - 1>>
            /\ pred[c].prev \in {None, <<req, pos - 2>>}

(* The slots of a staged layer are its prediction at any time, not only    *)
(* between steps.                                                           *)
SlotInv ==
  (~historySlots /\ Live) =>
    \A l \in Start..(LayerCount - 2) :
      Promoted(l) = IF pred[l] = None THEN {} ELSE pred[l].set

IInv == /\ TypeOK /\ ControlInv /\ FeatureInv /\ PredInv /\ SlotInv
        /\ FreshRouting /\ ZeroDrop

-----------------------------------------------------------------------------
(* None is neither a token, nor a prediction, nor a record of a call. *)
LEMMA NoneIsNothing ==
  /\ \A x, y : <<x, y>> # None
  /\ \A p \in Predictions : p # None
  /\ \A x, y : [used |-> x, by |-> y] # None
  /\ \A x, y, z : [set |-> x, at |-> y, prev |-> z] # None
  BY DEF None, Predictions

(* The chunks a prompt is cut into, and what is left of them. *)
LEMMA Chunks ==
  /\ Head(<<"multi">>) = "multi" /\ Head(<<"multi", "single">>) = "multi"
  /\ Head(<<"single">>) = "single" /\ Tail(<<"single">>) = <<>>
  /\ Tail(<<"multi">>) = <<>> /\ Tail(<<"multi", "single">>) = <<"single">>
  /\ <<"single">> \notin {<<>>, <<"multi">>, <<"multi", "single">>}
  /\ <<>> \notin {<<"multi">>, <<"multi", "single">>}
  OBVIOUS

(* The layer after the last is the first one of the next forward. *)
LEMMA Wraps == \A n \in Nat : \A i \in 0..(n - 1) :
                 (i + 1) % n = IF i = n - 1 THEN 0 ELSE i + 1
  OBVIOUS

(* The engine starts idle, with nothing captured. *)
LEMMA InitIInv == Init => IInv
<1> SUFFICES ASSUME Init PROVE IInv
  OBVIOUS
<1> USE LayerAssumption, BoundAssumption DEF Init, Blank
<1>1. TypeOK
  BY DEF TypeOK, LayerIds, OrNone, RouteOrEmpty, Chunkings
<1> QED BY <1>1 DEF IInv, Live, ControlInv, FeatureInv, PredInv, SlotInv,
                    FreshRouting, ZeroDrop, LayerIds

(* A request starts from nothing. *)
LEMMA StartRequestIInv ==
  ASSUME IInv, StartRequest
  PROVE  IInv'
<1> USE LayerAssumption, BoundAssumption
    DEF IInv, Live, LayerIds, Owners, Blank, StartRequest, ResetState
<1>1. TypeOK'
  BY DEF TypeOK, OrNone, RouteOrEmpty, Chunkings
<1>2. ControlInv'
  <2>1. req' > 0 /\ pos' = 0
    BY DEF TypeOK
  <2>2. CASE kind' = "prefill" /\ phase' = "chunk"
             /\ chunks' \in {<<"multi">>, <<"multi", "single">>}
    BY <2>1, <2>2, Chunks DEF ControlInv
  <2>3. CASE kind' = "prompt" /\ phase' = "forward"
    BY <2>1, <2>3 DEF ControlInv
  <2> QED BY <2>2, <2>3
<1>3. FeatureInv'
  BY DEF TypeOK, FeatureInv, NoFeatures
<1>4. PredInv' /\ SlotInv'
  BY DEF PredInv, SlotInv, Promoted
<1>5. FreshRouting' /\ ZeroDrop'
  BY DEF FreshRouting, ZeroDrop
<1> QED BY <1>1, <1>2, <1>3, <1>4, <1>5

(* A chunk of several tokens captures nothing. *)
LEMMA MultiChunkIInv ==
  ASSUME IInv, MultiChunk
  PROVE  IInv'
<1> USE LayerAssumption, BoundAssumption, RouteAssumption
    DEF IInv, Live, LayerIds, Owners, Blank
<1>1. /\ phase = "chunk" /\ phase' = "stage" /\ kind = "prefill"
      /\ routedBy' = [l \in LayerIds |-> None]
      /\ UNCHANGED <<historySlots, req, kind, li, mIn, oh, ohPrev, pred, nxt,
                     active, atUse>>
  BY DEF MultiChunk, captures, ControlInv
<1>2. /\ chunks \in {<<"multi">>, <<"multi", "single">>} /\ pos = 0
      /\ pos' = 1 /\ chunks' \in {<<>>, <<"single">>}
  <2>1. chunks \in {<<"multi">>, <<"multi", "single">>}
    BY <1>1, Chunks DEF MultiChunk, TypeOK, ControlInv, Chunkings
  <2>2. Tail(chunks) \in {<<>>, <<"single">>} /\ chunks # <<"single">>
    BY <2>1, Chunks
  <2> QED BY <1>1, <2>1, <2>2 DEF MultiChunk, TypeOK, ControlInv
<1>3. NoFeatures
  BY <1>1 DEF FeatureInv
<1>4. TypeOK'
  <2>1. (pending \in [LayerIds -> RouteOrEmpty])'
    BY DEF MultiChunk, RouteOrEmpty
  <2>2. (prefillTopk \in [LayerIds -> RouteOrEmpty])'
    BY DEF MultiChunk, RouteOrEmpty, TypeOK
  <2>3. (lastUsed \in [LayerIds -> RouteOrEmpty])'
    BY DEF MultiChunk, RouteOrEmpty, TypeOK
  <2>4. (routedBy \in [LayerIds -> OrNone(Calls)])'
    BY <1>1 DEF OrNone
  <2>5. pos' \in 0..(MaxPos + 3)
    BY <1>2
  <2>6. chunks' \in Chunkings
    BY <1>2 DEF Chunkings
  <2> QED BY <1>1, <2>1, <2>2, <2>3, <2>4, <2>5, <2>6 DEF TypeOK
<1>5. ControlInv'
  BY <1>1, <1>2 DEF TypeOK, ControlInv
<1>6. FeatureInv' /\ PredInv' /\ NoFeatures'
  BY <1>1, <1>3 DEF FeatureInv, PredInv, NoFeatures
<1>7. SlotInv'
  BY <1>1 DEF SlotInv, Promoted
<1>8. FreshRouting' /\ ZeroDrop'
  BY <1>1 DEF FreshRouting, ZeroDrop
<1> QED BY <1>4, <1>5, <1>6, <1>7, <1>8

(* The last chunk is a single token. *)
LEMMA SingleChunkIInv ==
  ASSUME IInv, SingleChunk
  PROVE  IInv'
<1> USE LayerAssumption, BoundAssumption DEF IInv, Live, LayerIds, Owners
<1>1. /\ phase = "chunk" /\ phase' = "forward" /\ li' = 0
      /\ UNCHANGED <<historySlots, req, pos, kind, mIn, oh, ohPrev, pred, nxt,
                     active, pending, atUse, lastUsed, prefillTopk, routedBy>>
  BY DEF SingleChunk, captures, slots
<1>2. kind = "prefill" /\ pos = 2 /\ chunks' = <<>>
  BY Chunks DEF SingleChunk, TypeOK, ControlInv, Chunkings
<1>3. TypeOK'
  <2>1. chunks' \in Chunkings /\ li' \in LayerIds
    BY <1>1, <1>2 DEF Chunkings
  <2> QED BY <1>1, <2>1 DEF TypeOK
<1>4. ControlInv'
  BY <1>1, <1>2 DEF TypeOK, ControlInv
<1>5. FeatureInv' /\ PredInv'
  BY <1>1 DEF FeatureInv, PredInv, Token
<1>6. SlotInv' /\ FreshRouting' /\ ZeroDrop'
  BY <1>1 DEF SlotInv, Promoted, FreshRouting, ZeroDrop, StagedMode
<1> QED BY <1>3, <1>4, <1>5, <1>6

(* One layer of a forward. *)
LEMMA LayerForwardIInv ==
  ASSUME IInv, LayerForward
  PROVE  IInv'
<1> USE LayerAssumption, BoundAssumption, RouteAssumption
    DEF IInv, Live, LayerIds
<1> DEFINE p == Prediction(li)
           wrap == li = LayerCount - 1
<1>1. PICK route \in IF p # None THEN {p.set} ELSE Routes :
        ExpertCall(li, route)
  BY DEF LayerForward
<1>2. /\ phase = "forward" /\ phase' = IF wrap THEN "stage" ELSE "forward"
      /\ routedBy' = [routedBy EXCEPT ![li] = [used |-> Token, by |-> p]]
      /\ oh' = IF li \in Owners THEN [oh EXCEPT ![li] = Token] ELSE oh
      /\ mIn' = IF li \in Owners THEN [mIn EXCEPT ![li] = Token] ELSE mIn
      /\ UNCHANGED <<historySlots, req, pos, kind, chunks, ohPrev, pred,
                     prefillTopk>>
  BY <1>1 DEF LayerForward, ExpertCall
<1>3. li \in LayerIds /\ li' = IF wrap THEN 0 ELSE li + 1
  BY Wraps DEF LayerForward, TypeOK
<1>4. Token \in Tokens /\ Token' = Token
  BY <1>2 DEF TypeOK, ControlInv, Token, Tokens
<1>5. p \in OrNone(Predictions) /\ route \in Routes
  BY <1>1, <1>3, NoneIsNothing
     DEF TypeOK, Prediction, OrNone, Predictions
<1>6. /\ pending' = [pending EXCEPT ![li] = route]
      /\ active' = IF StagedMode(li)
                   THEN [active EXCEPT ![li] = Promoted(li)] ELSE active
      /\ nxt' = IF StagedMode(li) THEN [nxt EXCEPT ![li] = {}] ELSE nxt
      /\ atUse' = IF StagedMode(li)
                  THEN [atUse EXCEPT ![li] = Promoted(li)] ELSE atUse
      /\ lastUsed' = IF StagedMode(li) /\ Promoted(li) # {} THEN lastUsed
                     ELSE [lastUsed EXCEPT ![li] = route]
  BY <1>1 DEF ExpertCall
<1> HIDE DEF p
<1>7. TypeOK'
  <2>1. Promoted(li) \in RouteOrEmpty /\ route \in RouteOrEmpty
        /\ {} \in RouteOrEmpty
    BY <1>3, <1>5 DEF TypeOK, Promoted, RouteOrEmpty
  <2>2. (\A f \in {nxt, active, pending, atUse, lastUsed, prefillTopk} :
           f \in [LayerIds -> RouteOrEmpty])'
    <3>1. \A f \in [LayerIds -> RouteOrEmpty], r \in RouteOrEmpty :
            [f EXCEPT ![li] = r] \in [LayerIds -> RouteOrEmpty]
      OBVIOUS
    <3>2. (nxt \in [LayerIds -> RouteOrEmpty])'
          /\ (active \in [LayerIds -> RouteOrEmpty])'
      BY <1>6, <2>1, <3>1 DEF TypeOK
    <3>3. (pending \in [LayerIds -> RouteOrEmpty])'
          /\ (atUse \in [LayerIds -> RouteOrEmpty])'
      BY <1>6, <2>1, <3>1 DEF TypeOK
    <3>4. (lastUsed \in [LayerIds -> RouteOrEmpty])'
          /\ (prefillTopk \in [LayerIds -> RouteOrEmpty])'
      BY <1>2, <1>6, <2>1, <3>1 DEF TypeOK
    <3> QED BY <3>2, <3>3, <3>4
  <2>3. (mIn \in [LayerIds -> OrNone(Tokens)])'
        /\ (oh \in [LayerIds -> OrNone(Tokens)])'
    BY <1>2, <1>4 DEF TypeOK, OrNone
  <2>4. (routedBy \in [LayerIds -> OrNone(Calls)])'
    <3>1. [used |-> Token, by |-> p] \in OrNone(Calls)
      BY <1>4, <1>5 DEF OrNone, Calls
    <3> QED BY <1>2, <3>1 DEF TypeOK
  <2> QED BY <1>2, <1>3, <2>2, <2>3, <2>4 DEF TypeOK
<1>8. ControlInv'
  BY <1>2 DEF ControlInv
<1>9. FeatureInv'
  <2>1. \A l \in LayerIds : oh'[l] \in {None, Token}
    BY <1>2 DEF TypeOK, FeatureInv
  <2>2. \A o \in Owners : o <= li => mIn'[o] = Token
    BY <1>2, <1>3 DEF TypeOK, FeatureInv, Owners
  <2>3. wrap => \A o \in Owners : mIn'[o] = Token
    BY <2>2 DEF Owners
  <2>4. ~wrap => \A o \in Owners : o < li' => mIn'[o] = Token
    BY <1>3, <2>2 DEF Owners
  <2>5. ~(phase' = "stage" /\ kind' = "prefill" /\ chunks' # <<>>)
    BY <1>2 DEF ControlInv
  <2> QED BY <1>2, <1>4, <2>1, <2>3, <2>4, <2>5 DEF FeatureInv
<1>10. PredInv'
  BY <1>2 DEF PredInv
<1>11. ASSUME ~historySlots
       PROVE  \A l \in Start..(LayerCount - 2) : Promoted(l)' = Promoted(l)
  BY <1>2, <1>3, <1>6 DEF TypeOK, Promoted, StagedMode
<1>12. SlotInv'
  BY <1>2, <1>11 DEF SlotInv
<1>13. FreshRouting'
  <2>1. p # None => /\ p.at = <<req, pos - 1>>
                    /\ p.prev \in {None, <<req, pos - 2>>}
    BY <1>2, <1>3 DEF p, PredInv, Prediction
  <2> QED BY <1>2, <1>3, <2>1 DEF TypeOK, FreshRouting, Token
<1>14. ZeroDrop'
  <2> SUFFICES ASSUME ~historySlots, NEW l \in Start..(LayerCount - 2),
                      routedBy'[l] # None
               PROVE  atUse'[l] = IF routedBy'[l].by # None THEN pending'[l]
                                  ELSE {}
    BY <1>2 DEF ZeroDrop, StagedMode
  <2>1. CASE l = li
    <3>1. StagedMode(li) /\ p = pred[li]
      BY <2>1 DEF StagedMode, p, Prediction, Owners
    <3>2. Promoted(li) = IF p = None THEN {} ELSE p.set
      BY <1>2, <2>1, <3>1 DEF SlotInv
    <3>3. routedBy'[l].by = p /\ atUse'[l] = Promoted(li)
          /\ pending'[l] = route
      BY <1>2, <1>3, <1>6, <2>1, <3>1 DEF TypeOK
    <3> QED BY <1>1, <3>2, <3>3 DEF p
  <2>2. CASE l # li
    <3>1. routedBy'[l] = routedBy[l] /\ atUse'[l] = atUse[l]
          /\ pending'[l] = pending[l]
      BY <1>2, <1>3, <1>6, <2>2 DEF TypeOK
    <3> QED BY <3>1 DEF ZeroDrop, StagedMode
  <2> QED BY <2>1, <2>2
<1> QED BY <1>7, <1>8, <1>9, <1>10, <1>12, <1>13, <1>14

(* The step boundary. *)
LEMMA StageAllIInv ==
  ASSUME IInv, StageAll
  PROVE  IInv'
<1> USE LayerAssumption, BoundAssumption, RouteAssumption
    DEF IInv, Live, LayerIds, Blank
<1> DEFINE ready == {o \in Owners : mIn[o] # None}
<1>1. PICK sel \in [ready -> Routes] :
        /\ pred' = [c \in LayerIds |->
              IF c - 1 \in ready
              THEN [set |-> sel[c - 1], at |-> mIn[c - 1],
                    prev |-> ohPrev[c - 1]]
              ELSE pred[c]]
        /\ nxt' = [c \in LayerIds |->
              IF c - 1 \in ready /\ StagedMode(c) THEN sel[c - 1] ELSE nxt[c]]
  <2>1. PICK sel \in [ready -> Routes] :
          /\ pred' = [c \in LayerIds |->
                IF c - 1 \in DOMAIN sel
                THEN [set |-> sel[c - 1], at |-> mIn[c - 1],
                      prev |-> ohPrev[c - 1]]
                ELSE pred[c]]
          /\ nxt' = [c \in LayerIds |->
                IF c - 1 \in DOMAIN sel /\ StagedMode(c) THEN sel[c - 1]
                ELSE nxt[c]]
    BY Zenon DEF StageAll
  <2>2. DOMAIN sel = ready
    OBVIOUS
  <2> HIDE DEF ready
  <2> QED BY <2>1, <2>2, Zenon
<1>2. /\ phase = "stage" /\ ohPrev' = oh /\ oh' = [l \in LayerIds |-> None]
      /\ pos' = pos + 1
      /\ phase' = CASE kind = "step" -> "post"
                  [] kind = "prompt" -> "decode"
                  [] kind = "prefill" -> IF chunks = <<>> THEN "prefillEnd"
                                         ELSE "chunk"
      /\ UNCHANGED <<historySlots, req, kind, chunks, li, mIn, active,
                     pending, atUse, lastUsed, prefillTopk, routedBy>>
  BY DEF StageAll
<1>3. phase' \in {"post", "decode", "prefillEnd", "chunk"}
      /\ (phase' = "chunk" => kind = "prefill" /\ chunks = <<"single">>
                              /\ pos = 1)
  BY <1>2 DEF TypeOK, ControlInv
<1>4. \A o \in ready : o \in LayerIds /\ sel[o] \in Routes /\ sel[o] # {}
  <2>1. \A o \in ready : o \in Owners /\ sel[o] \in Routes
    OBVIOUS
  <2> QED BY <2>1 DEF Owners
<1>5. TypeOK'
  <2>1. (nxt \in [LayerIds -> RouteOrEmpty])'
    BY <1>1, <1>4 DEF TypeOK, RouteOrEmpty
  <2>2. (pred \in [LayerIds -> OrNone(Predictions)])'
    <3>1. \A o \in ready : [set |-> sel[o], at |-> mIn[o],
                            prev |-> ohPrev[o]] \in Predictions
      BY <1>4 DEF TypeOK, Predictions, OrNone
    <3> QED BY <1>1, <3>1 DEF TypeOK, OrNone
  <2>3. pos' \in 0..(MaxPos + 3)
    <3>1. pos \in 0..(MaxPos + 2)
      BY <1>2 DEF TypeOK, ControlInv
    <3> QED BY <1>2, <3>1
  <2>4. (oh \in [LayerIds -> OrNone(Tokens)])'
    BY <1>2 DEF OrNone
  <2> QED BY <1>2, <1>3, <2>1, <2>2, <2>3, <2>4 DEF TypeOK
<1>6. ControlInv'
  BY <1>2, <1>3, Chunks DEF TypeOK, ControlInv
<1>7. CASE NoFeatures
  <2>1. ready = {}
    BY <1>7 DEF NoFeatures, Owners
  <2>2. pred' = pred /\ nxt' = nxt /\ NoFeatures'
    BY <1>1, <1>2, <1>7, <2>1 DEF TypeOK, NoFeatures
  <2>3. FeatureInv' /\ PredInv'
    BY <1>3, <2>2 DEF FeatureInv, PredInv, NoFeatures
  <2>4. SlotInv'
    BY <1>2, <2>2 DEF SlotInv, Promoted
  <2> QED BY <2>3, <2>4, <1>2, <1>5, <1>6
      DEF FreshRouting, ZeroDrop, StagedMode
<1>8. CASE ~NoFeatures
  <2>1. \A o \in Owners : mIn[o] = Token
    BY <1>2, <1>8 DEF FeatureInv
  <2>2. ready = Owners
    BY <2>1, NoneIsNothing DEF Token
  <2>3. phase' # "chunk"
    BY <1>2, <1>3, <1>8, Chunks DEF FeatureInv
  <2>4. FeatureInv'
    <3>1. <<req', pos' - 1>> = Token
      BY <1>2 DEF TypeOK, Token
    <3>2. \A l \in LayerIds : oh'[l] = None
                              /\ ohPrev'[l] \in {None, <<req', pos' - 1>>}
      BY <1>2, <3>1 DEF FeatureInv
    <3> QED BY <1>3, <2>3, <3>2 DEF FeatureInv
  <2>5. PredInv'
    <3> SUFFICES ASSUME NEW c \in LayerIds, pred'[c] # None
                 PROVE  (/\ c - 1 \in Owners
                         /\ pred[c].at = <<req, pos - 1>>
                         /\ pred[c].prev \in {None, <<req, pos - 2>>})'
      BY DEF PredInv
    <3>1. c - 1 \in Owners
      BY <1>1, <1>2, <2>2 DEF PredInv
    <3>2. pred'[c].at = Token /\ pred'[c].prev = ohPrev[c - 1]
      BY <1>1, <2>1, <2>2, <3>1
    <3>3. ohPrev[c - 1] \in {None, <<req, pos - 1>>}
      BY <1>2, <3>1 DEF FeatureInv, Owners
    <3>4. req' = req /\ pos' - 1 = pos /\ pos' - 2 = pos - 1
      <4>1. pos \in Int /\ pos' = pos + 1 /\ req' = req
        BY <1>2 DEF TypeOK
      <4> QED BY <4>1
    <3> QED BY <3>1, <3>2, <3>3, <3>4 DEF Token
  <2>6. SlotInv'
    <3> SUFFICES ASSUME ~historySlots, NEW l \in Start..(LayerCount - 2)
                 PROVE  Promoted(l)' = IF pred'[l] = None THEN {}
                                       ELSE pred'[l].set
      BY <1>2 DEF SlotInv
    <3>1. l - 1 \in ready /\ StagedMode(l) /\ l \in LayerIds
      BY <2>2 DEF Owners, StagedMode
    <3>2. nxt'[l] = sel[l - 1] /\ nxt'[l] # {} /\ pred'[l].set = sel[l - 1]
          /\ pred'[l] # None
      BY <1>1, <1>4, <3>1, NoneIsNothing
    <3> QED BY <3>2 DEF Promoted
  <2> QED BY <2>4, <2>5, <2>6, <1>2, <1>5, <1>6
      DEF FreshRouting, ZeroDrop, StagedMode
<1> QED BY <1>7, <1>8

(* The end of a prefill. *)
LEMMA PrefillEndIInv ==
  ASSUME IInv, PrefillEnd
  PROVE  IInv'
<1> USE LayerAssumption, BoundAssumption, RouteAssumption
    DEF IInv, Live, LayerIds, Owners, captures, slots, Blank, PrefillEnd
<1>1. TypeOK'
  BY DEF TypeOK, RouteOrEmpty
<1>2. ControlInv'
  BY DEF TypeOK, ControlInv
<1>3. FeatureInv'
  BY DEF TypeOK, ControlInv, FeatureInv, NoFeatures, Token
<1>4. PredInv'
  BY DEF TypeOK, PredInv
<1>5. SlotInv'
  BY DEF TypeOK, SlotInv, Promoted, StagedMode
<1>6. FreshRouting'
  BY DEF TypeOK, FreshRouting
<1>7. ZeroDrop'
  BY DEF TypeOK, ZeroDrop, StagedMode
<1> QED BY <1>1, <1>2, <1>3, <1>4, <1>5, <1>6, <1>7

(* The engine's part of a step, before and after its forward. *)
LEMMA StepIInv ==
  ASSUME IInv, StepPre \/ StepPost
  PROVE  IInv'
<1> USE LayerAssumption, BoundAssumption, RouteAssumption
    DEF IInv, Live, LayerIds, Owners, Blank
<1>1. CASE StepPre
  <2>1. /\ phase = "decode" /\ pos < MaxPos /\ kind' = "step"
        /\ phase' = "forward" /\ li' = 0
        /\ routedBy' = [l \in LayerIds |-> None]
        /\ UNCHANGED <<historySlots, req, pos, chunks, mIn, oh, ohPrev, pred,
                       active, pending, atUse, lastUsed, prefillTopk>>
    BY <1>1 DEF StepPre, captures
  <2>2. TypeOK'
    <3>1. (nxt \in [LayerIds -> RouteOrEmpty])'
      BY <1>1 DEF StepPre, TypeOK
    <3>2. (routedBy \in [LayerIds -> OrNone(Calls)])'
      BY <2>1 DEF OrNone
    <3>3. li' \in LayerIds /\ kind' \in {"prefill", "prompt", "step"}
      BY <2>1
    <3> QED BY <2>1, <3>1, <3>2, <3>3 DEF TypeOK
  <2>3. ControlInv'
    BY <2>1 DEF ControlInv
  <2>4. FeatureInv' /\ PredInv'
    BY <2>1 DEF FeatureInv, PredInv, Token
  <2>5. ~historySlots =>
          \A l \in Start..(LayerCount - 2) : nxt'[l] = nxt[l]
    BY <1>1 DEF StepPre, Unpredicted
  <2>6. SlotInv'
    BY <2>1, <2>5 DEF SlotInv, Promoted
  <2> QED BY <2>1, <2>2, <2>3, <2>4, <2>6 DEF FreshRouting, ZeroDrop
<1>2. CASE StepPost
  <2>1. /\ phase = "post" /\ phase' = "decode"
        /\ UNCHANGED <<historySlots, req, pos, kind, chunks, li, mIn, oh,
                       ohPrev, pred, nxt, active, atUse, prefillTopk,
                       routedBy>>
    BY <1>2 DEF StepPost, captures
  <2>2. TypeOK'
    <3>1. (lastUsed \in [LayerIds -> RouteOrEmpty])'
      BY <1>2 DEF StepPost, TypeOK
    <3>2. (pending \in [LayerIds -> RouteOrEmpty])'
      BY <1>2 DEF StepPost, TypeOK, RouteOrEmpty
    <3> QED BY <2>1, <3>1, <3>2 DEF TypeOK
  <2>3. ControlInv' /\ FeatureInv' /\ PredInv'
    BY <2>1 DEF ControlInv, FeatureInv, PredInv, Token
  <2>4. SlotInv' /\ FreshRouting'
    BY <2>1 DEF SlotInv, Promoted, FreshRouting
  <2>5. \A l \in Start..(LayerCount - 2) : pending'[l] = pending[l]
    BY <1>2 DEF StepPost, Unpredicted
  <2>6. ZeroDrop'
    BY <2>1, <2>5 DEF ZeroDrop, StagedMode
  <2> QED BY <2>2, <2>3, <2>4, <2>6
<1> QED BY <1>1, <1>2

(* The end of a request leaves everything as it is. *)
LEMMA EndRequestIInv ==
  ASSUME IInv, EndRequest
  PROVE  IInv'
<1> USE LayerAssumption, BoundAssumption, RouteAssumption
    DEF IInv, Live, LayerIds, Owners, captures, slots, Blank, EndRequest
<1>1. TypeOK'
  BY DEF TypeOK, RouteOrEmpty
<1>2. ControlInv'
  BY DEF TypeOK, ControlInv
<1>3. FeatureInv'
  BY DEF TypeOK, ControlInv, FeatureInv, NoFeatures, Token
<1>4. PredInv'
  BY DEF TypeOK, PredInv
<1>5. SlotInv'
  BY DEF TypeOK, SlotInv, Promoted, StagedMode
<1>6. FreshRouting'
  BY DEF TypeOK, FreshRouting
<1>7. ZeroDrop'
  BY DEF TypeOK, ZeroDrop, StagedMode
<1> QED BY <1>1, <1>2, <1>3, <1>4, <1>5, <1>6, <1>7

-----------------------------------------------------------------------------
(* Every step of the engine keeps the invariant. *)
LEMMA NextIInv == IInv /\ [Next]_vars => IInv'
<1> SUFFICES ASSUME IInv, [Next]_vars PROVE IInv'
  OBVIOUS
<1>1. CASE UNCHANGED vars
  BY <1>1 DEF vars, captures, slots, IInv, TypeOK, Live, ControlInv,
     FeatureInv, NoFeatures, PredInv, SlotInv, Promoted, FreshRouting,
     ZeroDrop, StagedMode, Token
<1> QED BY <1>1, StartRequestIInv, MultiChunkIInv, SingleChunkIInv,
           LayerForwardIInv, StageAllIInv, PrefillEndIInv, StepIInv,
           EndRequestIInv DEF Next

(* The invariant holds throughout every behaviour. *)
THEOREM InvariantHolds == Spec => []IInv
  BY InitIInv, NextIInv, PTL DEF Spec

(* Every variable keeps its type: predictions and features only ever hold  *)
(* tokens of requests that were served and positions that were reached.    *)
THEOREM TypeCorrect == Spec => []TypeOK
<1>1. IInv => TypeOK
  BY DEF IInv
<1> QED BY <1>1, InvariantHolds, PTL

(* In the scoped configuration no routed expert is ever missing from the   *)
(* slots, for any number of layers and any start layer.                    *)
THEOREM NothingDropped == Spec => []ZeroDrop
<1>1. IInv => ZeroDrop
  BY DEF IInv
<1> QED BY <1>1, InvariantHolds, PTL

(* No layer is routed by a prediction or a feature of another token or     *)
(* request than the one before, aborts and resets included.                *)
THEOREM RoutingIsFresh == Spec => []FreshRouting
<1>1. IInv => FreshRouting
  BY DEF IInv
<1> QED BY <1>1, InvariantHolds, PTL

(* Every decode step starts with slots that are the predictions. *)
THEOREM SlotsArePredictions == Spec => []SlotsFollowPrediction
<1>1. IInv => SlotsFollowPrediction
  BY DEF IInv, SlotInv, Live, SlotsFollowPrediction
<1> QED BY <1>1, InvariantHolds, PTL

=============================================================================
