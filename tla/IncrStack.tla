------------------------------ MODULE IncrStack ------------------------------
(***************************************************************************)
(* The incremental staged stack of the streaming MoE layers                *)
(* (streaming/layer.py, StreamingSwitchGLU with staged_sync and            *)
(* incr_stack: the production profile of edge0-35b).                       *)
(*                                                                         *)
(* Each layer keeps SlotCount persistent weight rows plus an overflow row  *)
(* that is always zero.  stage_experts gives the experts predicted for the *)
(* next token a row each: experts already staged keep theirs, the others   *)
(* are resolved (shared LRU, else read from disk) and written over the     *)
(* rows of the experts that left.  The decode forward then looks every     *)
(* routed expert up in the slot table.                                     *)
(*                                                                         *)
(* One thread runs everything here.  A staging is still several actions,   *)
(* one per expert it resolves or writes back, because a resolution can     *)
(* raise in the middle (BuildFails) and because each of them changes the   *)
(* LRU that all layers share.                                              *)
(***************************************************************************)
EXTENDS Integers, FiniteSets, SharedExpertCache

CONSTANTS Layers,     \* the staged layers
          Experts,    \* expert ids of one layer
          SlotCount,  \* _staged_n
          LruSlots,   \* SharedExpertCache.slots, 0 for no budget
          Nil         \* no weights: an absent bundle, an all-zero row

ASSUME SlotAssumption == SlotCount \in Nat \ {0}
ASSUME ExpertAssumption == Experts \subseteq Nat /\ IsFiniteSet(Experts)
ASSUME LruAssumption == LruSlots \in Nat
ASSUME NilAssumption == Nil \notin Layers \X Experts

Empty == -1                      \* _incr_occupancy[slot] is None
Slots == 0..(SlotCount - 1)
Overflow == SlotCount            \* index of the zero row
Weights == Layers \X Experts     \* <<l, e>> stands for the tensors of expert
                                 \* e of layer l in the checkpoint

VARIABLES
  writeback, \* _incr_writeback, chosen when the layers are built
  rows,      \* _incr_tensors: [Layers -> [0..Overflow -> weights]]
  table,     \* _incr_slot_table: [Layers -> [Experts -> 0..Overflow]]
  occ,       \* _incr_occupancy: [Layers -> [Slots -> expert or Empty]]
  held,      \* _incr_bundles: [Layers -> [Experts -> weights or Nil]]
  nxt,       \* _staged_state_next: [Layers -> [Experts -> weights or Nil]],
             \* all Nil when it is None
  active,    \* _staged_state, likewise
  pending,   \* _pending_indices, {} when it is None
  lru,       \* the shared LRU
  pc,        \* what the thread is doing
  cur,       \* the layer it is doing it for
  exp,       \* staging: the set being staged
  todo,      \* experts still to be resolved, looked up or promoted
  fresh,     \* staging: the dict that will replace _incr_bundles
  assigned,  \* staging: the slot given to each newly staged expert
  evict      \* staging: evicted experts still to be written back;
             \* exact path: experts found missing from the LRU

stackVars == <<rows, table, occ, held>>
stateVars == <<nxt, active, pending>>
workVars == <<writeback, pc, cur, exp, todo, fresh, assigned, evict>>
vars == <<stackVars, stateVars, lru, workVars>>

(* The experts that have a bundle in b. *)
HeldIn(b) == {e \in Experts : b[e] # Nil}

(* sorted({...})[:n], the n smallest of the experts asked for. *)
IsSmallest(T, S) ==
  /\ T \subseteq S
  /\ Cardinality(T) <= SlotCount
  /\ T # S => Cardinality(T) = SlotCount
  /\ \A d \in T, e \in S \ T : d < e

IsLeast(x, S) == x \in S /\ \A y \in S : x <= y

NoBundles == [e \in Experts |-> Nil]
NoSlots == [e \in Experts |-> Overflow]

(* The call returns or raises: its locals are gone. *)
Leave(next) ==
  /\ pc' = next
  /\ exp' = {} /\ todo' = {} /\ evict' = {}
  /\ fresh' = NoBundles /\ assigned' = NoSlots
  /\ UNCHANGED <<writeback, cur>>

Init ==
  /\ writeback \in BOOLEAN
  /\ rows = [l \in Layers |-> [i \in 0..Overflow |-> Nil]]
  /\ table = [l \in Layers |-> [e \in Experts |-> Overflow]]
  /\ occ = [l \in Layers |-> [i \in Slots |-> Empty]]
  /\ held = [l \in Layers |-> NoBundles]
  /\ nxt = [l \in Layers |-> NoBundles]
  /\ active = [l \in Layers |-> NoBundles]
  /\ pending = [l \in Layers |-> {}]
  /\ lru = <<>>
  /\ pc = "idle" /\ cur \in Layers
  /\ exp = {} /\ todo = {} /\ evict = {}
  /\ fresh = NoBundles /\ assigned = NoSlots

-----------------------------------------------------------------------------
(* Staging: stage_experts and _stage_incr.                                  *)

(* Mutant: slots are not freed. *)
FreedOccKeeps(l, T) == occ[l]

(* The slots of the experts that leave are freed. *)
FreedOcc(l, T) ==
  [i \in Slots |-> IF occ[l][i] \in T THEN occ[l][i] ELSE Empty]

(* Mutant: a departed expert's bundle stays and hides its return. *)
KeptBundlesStale(l, T) == held[l]

(* Only the current staged set keeps bundles. *)
KeptBundles(l, T) == [e \in Experts |-> IF e \in T THEN held[l][e] ELSE Nil]

StageExperts(l, S) ==
  /\ pc = "idle"
  /\ S # {}
  /\ \E T \in SUBSET S :
       /\ IsSmallest(T, S)
       /\ exp' = T
       /\ occ' = [occ EXCEPT ![l] = FreedOcc(l, T)]
       /\ todo' = {e \in T : held[l][e] = Nil}
       /\ fresh' = KeptBundles(l, T)
       /\ evict' = IF writeback THEN HeldIn(held[l]) \ T ELSE {}
  /\ assigned' = NoSlots
  /\ cur' = l /\ pc' = "stage"
  /\ UNCHANGED <<writeback, rows, table, held, stateVars, lru>>

FreeSlots(l) == {i \in Slots : occ[l][i] = Empty}

(* Expert e takes slot i with bundle b; the row itself is written later. *)
Place(e, i, b) ==
  /\ fresh' = [fresh EXCEPT ![e] = b]
  /\ occ' = [occ EXCEPT ![cur][i] = e]
  /\ assigned' = [assigned EXCEPT ![e] = i]
  /\ todo' = todo \ {e}
  /\ UNCHANGED <<writeback, rows, table, held, stateVars, pc, cur, exp, evict>>

ResolveHit(e) ==
  /\ pc = "stage" /\ IsLeast(e, todo)
  /\ <<cur, e>> \in CachedKeys(lru)
  /\ \E i \in Slots : IsLeast(i, FreeSlots(cur))
                      /\ Place(e, i, CachePeek(lru, <<cur, e>>))
  /\ lru' = CacheGet(lru, <<cur, e>>)

(* _build: the tensors of expert e of this layer. *)
Build(e) == <<cur, e>>

ResolveBuild(e) ==
  /\ pc = "stage" /\ IsLeast(e, todo)
  /\ <<cur, e>> \notin CachedKeys(lru)
  /\ \E i \in Slots : IsLeast(i, FreeSlots(cur)) /\ Place(e, i, Build(e))
  /\ lru' = IF writeback THEN lru
            ELSE CachePut(lru, <<cur, e>>, Build(e), LruSlots)

(* No slot is left: the expert is skipped. *)
ResolveNoSlot(e) ==
  /\ pc = "stage" /\ IsLeast(e, todo)
  /\ FreeSlots(cur) = {}
  /\ todo' = todo \ {e}
  /\ UNCHANGED <<writeback, stackVars, stateVars, lru, pc, cur, exp, fresh,
                 assigned, evict>>

(* An expert that leaves the stack goes back to the LRU. *)
WriteBackOne(e) ==
  /\ pc = "stage" /\ todo = {} /\ e \in evict
  /\ lru' = CachePut(lru, <<cur, e>>, held[cur][e], LruSlots)
  /\ evict' = evict \ {e}
  /\ UNCHANGED <<writeback, stackVars, stateVars, pc, cur, exp, todo, fresh,
                 assigned>>

WrittenRows(l) ==
  [i \in 0..Overflow |->
     IF \E e \in exp : assigned[e] = i /\ i # Overflow
     THEN fresh[CHOOSE e \in exp : assigned[e] = i] ELSE rows[l][i]]

(* Mutant: a departed expert still points at its old slot. *)
UpdatedTableKeeps(l) ==
  [e \in Experts |-> IF assigned[e] # Overflow THEN assigned[e]
                     ELSE table[l][e]]

(* Mutant: a departed expert points past the zero row. *)
UpdatedTablePastEnd(l) ==
  [e \in Experts |-> IF assigned[e] # Overflow THEN assigned[e]
                     ELSE IF e \in HeldIn(held[l]) \ exp THEN Overflow + 1
                     ELSE table[l][e]]

(* The experts that leave point at the zero row, the new ones at theirs. *)
UpdatedTable(l) ==
  [e \in Experts |-> IF assigned[e] # Overflow THEN assigned[e]
                     ELSE IF e \in HeldIn(held[l]) \ exp THEN Overflow
                     ELSE table[l][e]]

(* Rows and table are written in place, then the new set becomes the next  *)
(* one.  A skipped expert has no bundle, so building the returned tuple    *)
(* raises after all the writes.                                             *)
CommitStage ==
  /\ pc = "stage" /\ todo = {} /\ evict = {}
  /\ held' = [held EXCEPT ![cur] = fresh]
  /\ rows' = [rows EXCEPT ![cur] = WrittenRows(cur)]
  /\ table' = [table EXCEPT ![cur] = UpdatedTable(cur)]
  /\ IF \A e \in exp : fresh[e] # Nil
     THEN nxt' = [nxt EXCEPT ![cur] = fresh] /\ Leave("idle")
     ELSE nxt' = nxt /\ Leave("failed")
  /\ UNCHANGED <<occ, active, pending, lru>>

-----------------------------------------------------------------------------
(* The decode forward of one layer, and the steps around it.                *)

(* wait_staged / swap_staged: nothing is in flight in sync mode, the next  *)
(* set is promoted.                                                         *)
Promoted(l) == IF nxt[l] # NoBundles THEN nxt[l] ELSE active[l]

SwapStaged(l) ==
  /\ pc = "idle"
  /\ active' = [active EXCEPT ![l] = Promoted(l)]
  /\ nxt' = [nxt EXCEPT ![l] = NoBundles]
  /\ UNCHANGED <<stackVars, pending, lru, workVars>>

(* A prefill chunk on a layer whose whole or hot stack is resident: the    *)
(* weights come from that stack, and its misses are read past the LRU.     *)
PrefillCall(l, indices) ==
  /\ pc = "idle"
  /\ indices # {}
  /\ pending' = [pending EXCEPT ![l] = indices]
  /\ UNCHANGED <<stackVars, nxt, active, lru, workVars>>

(* Any other forward of one layer.  A single-token one promotes the next   *)
(* set and, when there is a staged set, gathers its rows through the slot  *)
(* table.  Otherwise, and for a prefill chunk, the exact path resolves all *)
(* routed experts through the LRU.                                          *)
Call(l, indices, single) ==
  /\ pc = "idle"
  /\ indices # {}
  /\ pending' = [pending EXCEPT ![l] = indices]
  /\ IF single
     THEN /\ active' = [active EXCEPT ![l] = Promoted(l)]
          /\ nxt' = [nxt EXCEPT ![l] = NoBundles]
     ELSE UNCHANGED <<active, nxt>>
  /\ IF single /\ Promoted(l) # NoBundles
     THEN UNCHANGED <<pc, cur, todo>>
     ELSE pc' = "exact" /\ cur' = l /\ todo' = indices
  /\ UNCHANGED <<writeback, stackVars, lru, exp, fresh, assigned, evict>>

(* Exact path, _get_bundles: first every LRU lookup ... *)
ExactLookup(e) ==
  /\ pc = "exact" /\ IsLeast(e, todo)
  /\ lru' = CacheGet(lru, <<cur, e>>)
  /\ evict' = IF <<cur, e>> \in CachedKeys(lru) THEN evict ELSE evict \cup {e}
  /\ todo' = todo \ {e}
  /\ UNCHANGED <<writeback, stackVars, stateVars, pc, cur, exp, fresh,
                 assigned>>

(* ... then the missing experts are put into the LRU: first those that a   *)
(* prefetch has brought or is bringing, then those read now, so in any     *)
(* order.                                                                   *)
ExactBuild(e) ==
  /\ pc = "exact" /\ todo = {} /\ e \in evict
  /\ lru' = CachePut(lru, <<cur, e>>, Build(e), LruSlots)
  /\ evict' = evict \ {e}
  /\ UNCHANGED <<writeback, stackVars, stateVars, pc, cur, exp, todo, fresh,
                 assigned>>

ExactDone ==
  /\ pc = "exact" /\ todo = {} /\ evict = {}
  /\ Leave("idle")
  /\ UNCHANGED <<stackVars, stateVars, lru>>

(* sync_actuals: outside write-back mode the bundles the router used are   *)
(* put into the LRU one after the other.                                    *)
SyncActuals(l) ==
  /\ pc = "idle"
  /\ pending[l] # {}
  /\ pending' = [pending EXCEPT ![l] = {}]
  /\ IF writeback THEN UNCHANGED <<pc, cur, todo>>
     ELSE /\ pc' = "promote" /\ cur' = l
          /\ todo' = pending[l] \cap HeldIn(active[l])
  /\ UNCHANGED <<writeback, stackVars, nxt, active, lru, exp, fresh,
                 assigned, evict>>

PromoteOne(e) ==
  /\ pc = "promote" /\ IsLeast(e, todo)
  /\ lru' = CachePut(lru, <<cur, e>>, active[cur][e], LruSlots)
  /\ todo' = todo \ {e}
  /\ UNCHANGED <<writeback, stackVars, stateVars, pc, cur, exp, fresh,
                 assigned, evict>>

PromoteDone ==
  /\ pc = "promote" /\ todo = {}
  /\ Leave("idle")
  /\ UNCHANGED <<stackVars, stateVars, lru>>

(* Engine reset between requests: every layer drops its staged and pending *)
(* state; the stack and the LRU survive.                                    *)
Reset ==
  /\ pc \in {"idle", "failed"}
  /\ nxt' = [l \in Layers |-> NoBundles]
  /\ active' = [l \in Layers |-> NoBundles]
  /\ pending' = [l \in Layers |-> {}]
  /\ pc' = "idle"
  /\ UNCHANGED <<writeback, stackVars, lru, cur, exp, todo, fresh,
                 assigned, evict>>

(* A read of expert e raises: stage_experts lets it through, with the      *)
(* occupancy already changed and nothing else.                              *)
BuildFails(e) ==
  /\ pc = "stage" /\ IsLeast(e, todo)
  /\ <<cur, e>> \notin CachedKeys(lru)
  /\ FreeSlots(cur) # {}
  /\ Leave("failed")
  /\ UNCHANGED <<stackVars, stateVars, lru>>

-----------------------------------------------------------------------------
StageStep == \/ \E e \in Experts : \/ ResolveHit(e) \/ ResolveBuild(e)
                                   \/ WriteBackOne(e)
             \/ CommitStage

ForwardStep == \/ \E e \in Experts : ExactLookup(e) \/ ExactBuild(e)
                                     \/ PromoteOne(e)
               \/ ExactDone \/ PromoteDone

Next ==
  \/ \E l \in Layers, S \in SUBSET Experts :
       \/ StageExperts(l, S)
       \/ PrefillCall(l, S)
       \/ \E single \in BOOLEAN : Call(l, S, single)
  \/ \E l \in Layers : SwapStaged(l) \/ SyncActuals(l)
  \/ StageStep
  \/ ForwardStep
  \/ Reset

Spec == Init /\ [][Next]_vars

(* The same program on a machine where a read may raise. *)
FaultNext == Next \/ \E e \in Experts : BuildFails(e) \/ ResolveNoSlot(e)

FaultSpec == Init /\ [][FaultNext]_vars

-----------------------------------------------------------------------------
(* Correctness.                                                             *)

TypeOK ==
  /\ writeback \in BOOLEAN
  /\ rows \in [Layers -> [0..Overflow -> Weights \cup {Nil}]]
  /\ table \in [Layers -> [Experts -> 0..Overflow]]
  /\ occ \in [Layers -> [Slots -> Experts \cup {Empty}]]
  /\ held \in [Layers -> [Experts -> Weights \cup {Nil}]]
  /\ nxt \in [Layers -> [Experts -> Weights \cup {Nil}]]
  /\ active \in [Layers -> [Experts -> Weights \cup {Nil}]]
  /\ pending \in [Layers -> SUBSET Experts]
  /\ lru \in Seq([key : Weights, val : Weights])
  /\ pc \in {"idle", "stage", "exact", "promote", "failed"}
  /\ cur \in Layers
  /\ exp \in SUBSET Experts /\ todo \in SUBSET Experts
  /\ evict \in SUBSET Experts
  /\ fresh \in [Experts -> Weights \cup {Nil}]
  /\ assigned \in [Experts -> 0..Overflow]

(* What a forward of layer l would gather for expert e. *)
Gathered(l, e) == rows[l][table[l][e]]

(* Between stagings, a layer with a staged set serves every expert of that *)
(* set with its own weights and every other expert with zeros: the decode  *)
(* forward of __call__ never multiplies by another expert's rows, however  *)
(* the sets came and went before.                                           *)
StackServesStagedSet ==
  \A l \in Layers :
    (pc \in {"idle", "exact", "promote"} /\ Promoted(l) # NoBundles) =>
      \A e \in Experts :
        Gathered(l, e) = IF Promoted(l)[e] # Nil THEN <<l, e>> ELSE Nil

(* "|exp| <= n guarantees a free slot for every changed expert": whenever  *)
(* _stage_incr is about to place an expert, a slot is free.                 *)
FreeSlotForEveryChanged ==
  (pc = "stage" /\ todo # {}) => FreeSlots(cur) # {}

(* The LRU never exceeds its budget and never holds a bundle under another *)
(* expert's key, with all layers putting, hitting and writing back.         *)
LruSound == WithinBudget(lru, LruSlots) /\ Coherent(lru)

(* The stack implements the atomic staged view. *)
ResidentSets == [l \in Layers |-> HeldIn(held[l])]
StackView == [l \in Layers |-> [e \in Experts |-> Gathered(l, e)]]
StageableSets ==
  {S \in SUBSET Experts : S # {} /\ Cardinality(S) <= SlotCount}
Abstract == INSTANCE StagedView WITH Stageable <- StageableSets,
                                     resident <- ResidentSets,
                                     view <- StackView
ImplementsStagedView == Abstract!Spec

=============================================================================
