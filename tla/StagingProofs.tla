---------------------------- MODULE StagingProofs ----------------------------
(***************************************************************************)
(* The two ways a streaming layer stages experts.                          *)
(*                                                                         *)
(* For any layers, experts, slot count and LRU budget: the incremental     *)
(* stack serves exactly the staged set, always finds a free slot, keeps    *)
(* the shared LRU coherent, and implements the atomic staged view.         *)
(*                                                                         *)
(* For any number of pool threads and of calls: the asynchronous fills     *)
(* never lose one that has finished, never have two of them under way, and *)
(* never go back to an older set while no fill fails.                      *)
(***************************************************************************)
EXTENDS IncrStack, AsyncStaging, FiniteSetTheorems, TLAPS

-----------------------------------------------------------------------------
(* What the methods of SharedExpertCache preserve, for caches of any size. *)

Entries(K) == [key : K, val : K]

(* A cached key has a position, and the entry there carries that key. *)
LEMMA PositionFound ==
  ASSUME NEW K, NEW c \in Seq(Entries(K)), NEW k \in CachedKeys(c)
  PROVE  PositionOf(c, k) \in 1..Len(c) /\ c[PositionOf(c, k)].key = k
<1>1. \E i \in DOMAIN c : c[i].key = k
  BY DEF CachedKeys
<1>2. PositionOf(c, k) \in DOMAIN c /\ c[PositionOf(c, k)].key = k
  BY <1>1 DEF PositionOf
<1> QED BY <1>2

(* peek returns a bundle of the key it is asked for. *)
LEMMA PeekOwn ==
  ASSUME NEW K, NEW c \in Seq(Entries(K)), Coherent(c), NEW k \in CachedKeys(c)
  PROVE  CachePeek(c, k) = k
BY PositionFound DEF CachePeek, Coherent

(* get reorders the entries: none is lost, doubled or changed. *)
LEMMA GetSound ==
  ASSUME NEW K, NEW c \in Seq(Entries(K)), Coherent(c), NEW k
  PROVE  /\ CacheGet(c, k) \in Seq(Entries(K))
         /\ Coherent(CacheGet(c, k))
         /\ Len(CacheGet(c, k)) = Len(c)
<1>1. CASE k \notin CachedKeys(c)
  BY <1>1 DEF CacheGet
<1>2. CASE k \in CachedKeys(c)
  <2> DEFINE p == PositionOf(c, k)
             w == WithoutPosition(c, p)
  <2>1. p \in 1..Len(c)
    BY <1>2, PositionFound
  <2>2. CacheGet(c, k) = Append(w, c[p])
    BY <1>2 DEF CacheGet
  <2> HIDE DEF p
  <2>3. w \in Seq(Entries(K)) /\ Len(w) = Len(c) - 1
    <3>1. \A j \in 1..(Len(c) - 1) :
            (IF j < p THEN c[j] ELSE c[j + 1]) \in Entries(K)
      BY <2>1
    <3>2. Len(c) - 1 \in Nat
      BY <2>1
    <3> QED BY <3>1, <3>2 DEF WithoutPosition
  <2>4. \A j \in 1..(Len(c) - 1) : w[j] = IF j < p THEN c[j] ELSE c[j + 1]
    BY DEF WithoutPosition
  <2> HIDE DEF w
  <2> DEFINE g == Append(w, c[p])
  <2>5. /\ g \in Seq(Entries(K)) /\ Len(g) = Len(c)
        /\ g[Len(c)] = c[p]
        /\ \A j \in 1..(Len(c) - 1) : g[j] = w[j]
    BY <2>1, <2>3
  <2> HIDE DEF g
  <2>6. Coherent(g)
    <3> DEFINE at(i) == IF i = Len(c) THEN p ELSE IF i < p THEN i ELSE i + 1
    <3>2. \A i \in 1..Len(c) : at(i) \in 1..Len(c) /\ g[i] = c[at(i)]
      BY <2>1, <2>4, <2>5
    <3>3. \A i, j \in 1..Len(c) : at(i) = at(j) => i = j
      BY <2>1
    <3> HIDE DEF at
    <3>1. DOMAIN c = 1..Len(c) /\ DOMAIN g = 1..Len(c)
      BY <2>5
    <3>4. ASSUME NEW i \in 1..Len(c) PROVE g[i].val = g[i].key
      BY <3>1, <3>2 DEF Coherent
    <3>5. ASSUME NEW i \in 1..Len(c), NEW j \in 1..Len(c),
                 g[i].key = g[j].key
          PROVE  i = j
      <4>1. c[at(i)].key = c[at(j)].key
        BY <3>2, <3>5
      <4>2. at(i) = at(j)
        BY <3>1, <3>2, <4>1 DEF Coherent
      <4> QED BY <3>3, <4>2
    <3> QED BY <3>1, <3>4, <3>5 DEF Coherent
  <2> QED BY <2>2, <2>5, <2>6 DEF g
<1> QED BY <1>1, <1>2

(* put files the bundle of a key under that key, keeps one entry per key   *)
(* and stays within the budget.                                             *)
LEMMA PutSound ==
  ASSUME NEW K, NEW c \in Seq(Entries(K)), Coherent(c), NEW k \in K,
         NEW slots \in Nat, WithinBudget(c, slots)
  PROVE  /\ CachePut(c, k, k, slots) \in Seq(Entries(K))
         /\ Coherent(CachePut(c, k, k, slots))
         /\ WithinBudget(CachePut(c, k, k, slots), slots)
<1> DEFINE entry == [key |-> k, val |-> k]
<1>0. entry \in Entries(K)
  BY DEF Entries
<1>1. CASE k \in CachedKeys(c)
  <2> DEFINE p == PositionOf(c, k)
             d == [c EXCEPT ![p] = entry]
  <2>1. p \in 1..Len(c) /\ c[p].key = k
    BY <1>1, PositionFound
  <2> HIDE DEF p
  <2>2. d \in Seq(Entries(K)) /\ Len(d) = Len(c)
    BY <2>1, <1>0
  <2>3. \A i \in 1..Len(c) : d[i] = IF i = p THEN entry ELSE c[i]
    BY <2>1
  <2> HIDE DEF d
  <2>4. Coherent(d)
    <3>1. DOMAIN c = 1..Len(c) /\ DOMAIN d = 1..Len(c)
      BY <2>2
    <3>2. \A i \in 1..Len(c) : d[i].key = c[i].key
      BY <1>0, <2>1, <2>3
    <3>3. \A i \in 1..Len(c) : d[i].val = d[i].key
      BY <1>0, <2>3, <3>1 DEF Coherent
    <3> QED BY <3>1, <3>2, <3>3 DEF Coherent
  <2>5. CachePut(c, k, k, slots) = d
    BY <1>1 DEF CachePut, d, p
  <2> QED BY <2>2, <2>4, <2>5 DEF WithinBudget
<1>2. CASE k \notin CachedKeys(c)
  <2> DEFINE g == Append(c, entry)
  <2>1. /\ g \in Seq(Entries(K)) /\ Len(g) = Len(c) + 1
        /\ g[Len(c) + 1] = entry
        /\ \A i \in 1..Len(c) : g[i] = c[i]
    BY <1>0
  <2>2. \A i \in 1..Len(c) : c[i].key # k
    BY <1>2 DEF CachedKeys
  <2> HIDE DEF g
  <2>3. Coherent(g)
    BY <2>1, <2>2 DEF Coherent
  <2>4. /\ Tail(g) \in Seq(Entries(K)) /\ Len(Tail(g)) = Len(c)
        /\ \A i \in 1..Len(c) : Tail(g)[i] = g[i + 1]
    BY <2>1
  <2>5. Coherent(Tail(g))
    BY <2>1, <2>3, <2>4 DEF Coherent
  <2>6. CachePut(c, k, k, slots)
          = IF slots > 0 /\ Len(g) > slots THEN Tail(g) ELSE g
    BY <1>2 DEF CachePut, g
  <2> QED BY <2>1, <2>3, <2>4, <2>5, <2>6 DEF WithinBudget
<1> QED BY <1>1, <1>2

-----------------------------------------------------------------------------
(* Bundles are filed under the expert they belong to. *)
Own(b, l) == \A e \in Experts : b[e] \in {Nil, <<l, e>>}

BundlesOwn ==
  /\ \A l \in Layers : Own(held[l], l) /\ Own(nxt[l], l) /\ Own(active[l], l)
  /\ pc = "stage" => Own(fresh, cur)

(* Table, rows and bundles of a layer agree, during a staging too. *)
TableInv ==
  \A l \in Layers :
    /\ rows[l][Overflow] = Nil
    /\ \A e \in Experts :
         IF held[l][e] # Nil
         THEN table[l][e] \in Slots /\ rows[l][table[l][e]] = <<l, e>>
         ELSE table[l][e] = Overflow

(* Between stagings the occupancy mirrors the table. *)
OccMirrors(l) ==
  /\ \A i \in Slots : occ[l][i] # Empty =>
       held[l][occ[l][i]] # Nil /\ table[l][occ[l][i]] = i
  /\ \A e \in Experts : held[l][e] # Nil => occ[l][table[l][e]] = e

OccInv == \A l \in Layers : ~(pc = "stage" /\ cur = l) => OccMirrors(l)

(* During a staging: the slot an expert keeps or has been given. *)
SlotNow(e) == IF held[cur][e] # Nil THEN table[cur][e] ELSE assigned[e]

StageInv ==
  pc = "stage" =>
    /\ exp # {} /\ Cardinality(exp) <= SlotCount
    /\ todo \subseteq exp
    /\ evict \subseteq HeldIn(held[cur]) \ exp
    /\ \A e \in Experts : fresh[e] # Nil <=> e \in exp \ todo
    /\ \A e \in todo : held[cur][e] = Nil
    /\ \A e \in Experts :
         assigned[e] # Overflow <=> (e \in exp \ todo /\ held[cur][e] = Nil)
    /\ \A i \in Slots : occ[cur][i] # Empty =>
         occ[cur][i] \in exp \ todo /\ SlotNow(occ[cur][i]) = i
    /\ \A e \in exp \ todo : occ[cur][SlotNow(e)] = e

(* The set a forward will use is the one the stack holds. *)
StateInv ==
  \A l \in Layers :
    /\ nxt[l] # NoBundles => nxt[l] = held[l]
    /\ (nxt[l] = NoBundles /\ active[l] # NoBundles) => active[l] = held[l]

PcInv == /\ pc # "failed"
         /\ pc = "promote" => todo \subseteq HeldIn(active[cur])

IInv == /\ TypeOK /\ LruSound /\ BundlesOwn /\ TableInv /\ OccInv
        /\ StageInv /\ StateInv /\ PcInv

-----------------------------------------------------------------------------
(* Init establishes the invariant: nothing is staged, the LRU is empty. *)
LEMMA InitIInv == Init => IInv
<1> SUFFICES ASSUME Init PROVE IInv
  OBVIOUS
<1>1. Overflow \in 0..Overflow /\ Overflow \notin Slots /\ Empty \notin Experts
  BY SlotAssumption, ExpertAssumption DEF Overflow, Slots, Empty
<1>2. TypeOK
  BY <1>1 DEF Init, TypeOK, NoBundles, NoSlots
<1>3. LruSound
  BY LruAssumption DEF Init, LruSound, WithinBudget, Coherent
<1>4. BundlesOwn
  BY DEF Init, BundlesOwn, Own, NoBundles
<1>5. TableInv
  BY <1>1 DEF Init, TableInv, NoBundles
<1>6. OccInv
  BY DEF Init, OccInv, OccMirrors, NoBundles
<1>7. StageInv /\ StateInv /\ PcInv
  BY DEF Init, StageInv, StateInv, PcInv
<1> QED BY <1>2, <1>3, <1>4, <1>5, <1>6, <1>7 DEF IInv

(* Whenever an expert is still to be placed, a slot is free: the occupied  *)
(* slots hold distinct experts of the set, none of them the one to place.  *)
LEMMA FreeSlotExists ==
  ASSUME IInv, pc = "stage", NEW e \in todo
  PROVE  FreeSlots(cur) # {}
<1> SUFFICES ASSUME FreeSlots(cur) = {} PROVE FALSE
  OBVIOUS
<1> DEFINE others == exp \ {e}
           f == occ[cur]
<1>1. IsFiniteSet(exp) /\ IsFiniteSet(others) /\ Cardinality(exp) \in Nat
  BY ExpertAssumption, FS_Subset, FS_CardinalityType, FS_RemoveElement
     DEF IInv, TypeOK
<1>2. Cardinality(others) = Cardinality(exp) - 1
  BY <1>1, FS_RemoveElement DEF IInv, StageInv
<1>3. IsFiniteSet(Slots) /\ Cardinality(Slots) = SlotCount
  BY SlotAssumption, FS_Interval DEF Slots
<1>4. Cardinality(others) < Cardinality(Slots)
  BY <1>1, <1>2, <1>3, SlotAssumption DEF IInv, StageInv
<1>5. \A i \in Slots : f[i] \in others
  BY DEF IInv, StageInv, FreeSlots
<1>6. f \in [Slots -> others]
  BY <1>5 DEF IInv, TypeOK
<1> HIDE DEF others, f
<1>7. PICK i \in Slots, j \in Slots : i # j /\ f[i] = f[j]
  BY <1>1, <1>3, <1>4, <1>6, FS_PigeonHole
<1>8. \A k \in Slots : SlotNow(f[k]) = k
  BY DEF IInv, StageInv, FreeSlots, f
<1> QED BY <1>7, <1>8

-----------------------------------------------------------------------------
(* The start of a staging: survivors keep their slots. *)
LEMMA StageExpertsIInv ==
  ASSUME IInv, NEW l \in Layers, NEW S \in SUBSET Experts, StageExperts(l, S)
  PROVE  IInv'
<1> USE DEF IInv
<1>1. PICK T \in SUBSET S :
        /\ IsSmallest(T, S)
        /\ exp' = T
        /\ occ' = [occ EXCEPT ![l] = FreedOcc(l, T)]
        /\ todo' = {e \in T : held[l][e] = Nil}
        /\ fresh' = KeptBundles(l, T)
        /\ evict' = IF writeback THEN HeldIn(held[l]) \ T ELSE {}
  BY DEF StageExperts
<1>2. /\ pc = "idle" /\ S # {} /\ assigned' = NoSlots /\ cur' = l
      /\ pc' = "stage"
      /\ UNCHANGED <<writeback, rows, table, held, stateVars, lru>>
  BY DEF StageExperts
<1>3. T \in SUBSET Experts
  OBVIOUS
<1>4. FreedOcc(l, T) \in [Slots -> Experts \cup {Empty}]
  BY <1>3 DEF FreedOcc, TypeOK
<1>5. KeptBundles(l, T) \in [Experts -> Weights \cup {Nil}]
  BY DEF KeptBundles, TypeOK
<1>6. TypeOK'
  <2>1. NoSlots \in [Experts -> 0..Overflow]
    BY SlotAssumption DEF NoSlots, Overflow
  <2>2. HeldIn(held[l]) \in SUBSET Experts
    BY DEF HeldIn
  <2> QED BY <1>1, <1>2, <1>3, <1>4, <1>5, <2>1, <2>2 DEF TypeOK, stateVars
<1>7. LruSound'
  BY <1>2 DEF LruSound
<1>8. BundlesOwn'
  BY <1>1, <1>2 DEF BundlesOwn, Own, KeptBundles, stateVars
<1>9. TableInv'
  BY <1>2 DEF TableInv
<1>10. OccMirrors(l)
  BY <1>2 DEF OccInv
<1>11. OccInv'
  <2> SUFFICES ASSUME NEW m \in Layers, ~(pc = "stage" /\ cur = m)'
               PROVE  OccMirrors(m)'
    BY DEF OccInv
  <2>1. m # l
    BY <1>2
  <2>2. OccMirrors(m)
    BY <1>2 DEF OccInv
  <2>3. occ'[m] = occ[m]
    BY <1>1, <2>1 DEF TypeOK
  <2> QED BY <1>2, <2>2, <2>3 DEF OccMirrors
<1>12. StageInv'
  <2>1. T # {} /\ Cardinality(T) <= SlotCount
    <3>1. T # S => Cardinality(T) = SlotCount
      BY <1>1 DEF IsSmallest
    <3>2. Cardinality({}) = 0
      BY FS_EmptySet
    <3> QED BY <1>1, <1>2, <3>1, <3>2, SlotAssumption DEF IsSmallest
  <2>2. \A e \in Experts : fresh'[e] # Nil <=> e \in exp' \ todo'
    BY <1>1 DEF KeptBundles
  <2>3. occ'[l] = FreedOcc(l, T)
    BY <1>1 DEF TypeOK
  <2>4. \A e \in Experts :
          held[l][e] # Nil => table[l][e] \in Slots /\ occ[l][table[l][e]] = e
    BY <1>10 DEF OccMirrors, TableInv
  <2>5. Empty \notin Experts
    BY ExpertAssumption DEF Empty
  <2>6. \A e \in T : held[l][e] # Nil => occ'[l][table[l][e]] = e
    BY <2>3, <2>4, <1>3 DEF FreedOcc
  <2>7. \A i \in Slots : occ'[l][i] # Empty =>
          /\ occ'[l][i] \in T /\ held[l][occ'[l][i]] # Nil
          /\ table[l][occ'[l][i]] = i
    BY <2>3, <1>10 DEF FreedOcc, OccMirrors
  <2>8. \A e \in Experts : assigned'[e] = Overflow
    BY <1>2 DEF NoSlots
  <2>9. evict' \subseteq HeldIn(held[l]) \ T
    BY <1>1
  <2>10. todo' \subseteq T /\ \A e \in todo' : held[l][e] = Nil
    BY <1>1
  <2>11. \A e \in Experts : assigned'[e] # Overflow
                            <=> (e \in exp' \ todo' /\ held[l][e] = Nil)
    BY <2>8, <1>1
  <2>12. \A e \in exp' \ todo' : held[l][e] # Nil
    BY <1>1
  <2> QED BY <1>1, <1>2, <2>1, <2>2, <2>6, <2>7, <2>9, <2>10, <2>11, <2>12
          DEF StageInv, SlotNow, HeldIn
<1>13. StateInv'
  BY <1>2 DEF StateInv, stateVars
<1>14. PcInv'
  BY <1>2 DEF PcInv
<1> QED BY <1>6, <1>7, <1>8, <1>9, <1>11, <1>12, <1>13, <1>14

(* Placing one expert, with its own bundle, in a free slot. *)
LEMMA PlaceIInv ==
  ASSUME IInv, pc = "stage", NEW e \in todo, NEW i \in FreeSlots(cur),
         Place(e, i, <<cur, e>>), LruSound', lru' \in Seq(Entries(Weights))
  PROVE  IInv'
<1> USE DEF IInv
<1>0. e \in Experts /\ i \in Slots /\ cur \in Layers /\ e \in exp
  BY DEF TypeOK, StageInv, FreeSlots
<1>1. /\ fresh' = [fresh EXCEPT ![e] = <<cur, e>>]
      /\ occ' = [occ EXCEPT ![cur][i] = e]
      /\ assigned' = [assigned EXCEPT ![e] = i]
      /\ todo' = todo \ {e}
      /\ UNCHANGED <<writeback, rows, table, held, stateVars, pc, cur, exp,
                     evict>>
  BY DEF Place
<1>2. <<cur, e>> \in Weights /\ <<cur, e>> # Nil
  BY <1>0, NilAssumption DEF Weights
<1>3. Overflow \notin Slots /\ Slots \subseteq 0..Overflow
  BY SlotAssumption DEF Slots, Overflow
<1>4. TypeOK'
  BY <1>0, <1>1, <1>2, <1>3 DEF TypeOK, stateVars, Entries
<1>5. BundlesOwn'
  BY <1>0, <1>1 DEF BundlesOwn, Own, TypeOK, stateVars
<1>6. TableInv'
  BY <1>1 DEF TableInv
<1>7. OccInv'
  <2> SUFFICES ASSUME NEW m \in Layers, ~(pc = "stage" /\ cur = m)'
               PROVE  OccMirrors(m)'
    BY DEF OccInv
  <2>1. m # cur /\ OccMirrors(m)
    BY <1>1 DEF OccInv
  <2>2. occ'[m] = occ[m]
    BY <1>1, <2>1 DEF TypeOK
  <2> QED BY <1>1, <2>1, <2>2 DEF OccMirrors
<1>8. StageInv'
  <2>1. /\ occ'[cur][i] = e
        /\ \A j \in Slots : j # i => occ'[cur][j] = occ[cur][j]
    BY <1>0, <1>1 DEF TypeOK
  <2>2. /\ assigned'[e] = i
        /\ \A d \in Experts : d # e => assigned'[d] = assigned[d]
    BY <1>0, <1>1 DEF TypeOK
  <2>3. held[cur][e] = Nil /\ occ[cur][i] = Empty
    BY DEF StageInv, FreeSlots
  <2>4. exp' \ todo' = (exp \ todo) \cup {e}
    BY <1>0, <1>1
  <2>5. \A d \in exp \ todo : d # e /\ d \in Experts /\ SlotNow(d) # i
    BY <2>3, ExpertAssumption DEF StageInv, TypeOK, Empty
  <2>6. \A d \in exp \ todo : SlotNow(d) \in Slots
    BY <1>3, <2>5, SlotAssumption
       DEF StageInv, SlotNow, TypeOK, TableInv, Slots, Overflow
  <2>7. \A d \in exp \ todo :
          (IF held[cur][d] # Nil THEN table[cur][d] ELSE assigned'[d])
            = SlotNow(d)
    BY <2>2, <2>5 DEF SlotNow
  <2>8. \A d \in exp \ todo : occ'[cur][SlotNow(d)] = d
    BY <2>1, <2>5, <2>6 DEF StageInv
  <2>9. \A d \in exp' \ todo' :
          occ'[cur][IF held[cur][d] # Nil THEN table[cur][d]
                    ELSE assigned'[d]] = d
    BY <2>1, <2>2, <2>3, <2>4, <2>7, <2>8
  <2>10. \A j \in Slots : occ'[cur][j] # Empty =>
          /\ occ'[cur][j] \in exp' \ todo'
          /\ (IF held[cur][occ'[cur][j]] # Nil THEN table[cur][occ'[cur][j]]
              ELSE assigned'[occ'[cur][j]]) = j
    BY <2>1, <2>2, <2>3, <2>4, <2>7 DEF StageInv
  <2>11. \A d \in Experts : fresh'[d] # Nil <=> d \in exp' \ todo'
    BY <1>0, <1>1, <1>2, <2>4 DEF StageInv, TypeOK
  <2>12. \A d \in Experts :
          assigned'[d] # Overflow
            <=> (d \in exp' \ todo' /\ held[cur][d] = Nil)
    BY <1>0, <1>3, <2>2, <2>3, <2>4 DEF StageInv
  <2> QED BY <1>1, <2>9, <2>10, <2>11, <2>12 DEF StageInv, SlotNow
<1>9. StateInv'
  BY <1>1 DEF StateInv, stateVars
<1>10. PcInv'
  BY <1>1 DEF PcInv
<1> QED BY <1>4, <1>5, <1>6, <1>7, <1>8, <1>9, <1>10

(* A step that changes the LRU and the thread's counters only. *)
LEMMA LruStepIInv ==
  ASSUME IInv, lru' \in Seq(Entries(Weights)), LruSound',
         UNCHANGED <<writeback, stackVars, stateVars, pc, cur, exp, fresh,
                     assigned>>,
         todo' \in SUBSET todo, evict' \in SUBSET Experts,
         pc = "stage" => todo' = todo /\ evict' \subseteq evict
  PROVE  IInv'
<1> USE DEF IInv, stackVars, stateVars
<1>1. TypeOK'
  BY DEF TypeOK, Entries
<1>2. BundlesOwn' /\ TableInv'
  BY DEF BundlesOwn, TableInv
<1>3. OccInv'
  BY DEF OccInv, OccMirrors
<1>4. StageInv'
  BY DEF StageInv, SlotNow, HeldIn
<1>5. StateInv' /\ PcInv'
  BY DEF StateInv, PcInv, HeldIn
<1> QED BY <1>1, <1>2, <1>3, <1>4, <1>5

(* The LRU's type and soundness in the form the cache lemmas use. *)
LEMMA LruFacts ==
  ASSUME IInv
  PROVE  /\ lru \in Seq(Entries(Weights)) /\ Coherent(lru)
         /\ WithinBudget(lru, LruSlots)
BY DEF IInv, TypeOK, LruSound, Entries

(* A put of an expert's own bundle keeps the LRU sound. *)
LEMMA OwnPutSound ==
  ASSUME IInv, NEW e \in Experts,
         lru' = CachePut(lru, <<cur, e>>, <<cur, e>>, LruSlots)
  PROVE  lru' \in Seq(Entries(Weights)) /\ LruSound'
<1>1. <<cur, e>> \in Weights
  BY DEF IInv, TypeOK, Weights
<1> QED BY <1>1, LruFacts, LruAssumption, PutSound DEF LruSound

(* A get keeps the LRU sound. *)
LEMMA GetKeepsSound ==
  ASSUME IInv, NEW k, lru' = CacheGet(lru, k)
  PROVE  lru' \in Seq(Entries(Weights)) /\ LruSound'
BY LruFacts, GetSound DEF LruSound, WithinBudget

(* The steps that resolve or write back one expert of a staging. *)
LEMMA ResolveIInv ==
  ASSUME IInv, NEW e \in Experts,
         ResolveHit(e) \/ ResolveBuild(e) \/ WriteBackOne(e)
  PROVE  IInv'
<1>1. CASE ResolveHit(e)
  <2>1. PICK i \in Slots : /\ IsLeast(i, FreeSlots(cur))
                           /\ Place(e, i, CachePeek(lru, <<cur, e>>))
    BY <1>1 DEF ResolveHit
  <2>2. CachePeek(lru, <<cur, e>>) = <<cur, e>>
    BY <1>1, LruFacts, PeekOwn DEF ResolveHit
  <2>3. lru' \in Seq(Entries(Weights)) /\ LruSound'
    BY <1>1, GetKeepsSound DEF ResolveHit
  <2> QED BY <1>1, <2>1, <2>2, <2>3, PlaceIInv DEF ResolveHit, IsLeast
<1>2. CASE ResolveBuild(e)
  <2>1. PICK i \in Slots : /\ IsLeast(i, FreeSlots(cur))
                           /\ Place(e, i, <<cur, e>>)
    BY <1>2 DEF ResolveBuild, Build
  <2>2. lru' = lru \/ lru' = CachePut(lru, <<cur, e>>, <<cur, e>>, LruSlots)
    BY <1>2 DEF ResolveBuild, Build
  <2>3. lru' \in Seq(Entries(Weights)) /\ LruSound'
    BY <2>2, LruFacts, OwnPutSound DEF LruSound
  <2> QED BY <1>2, <2>1, <2>3, PlaceIInv DEF ResolveBuild, IsLeast
<1>3. CASE WriteBackOne(e)
  <2>1. held[cur][e] = <<cur, e>>
    BY <1>3 DEF WriteBackOne, IInv, TypeOK, StageInv, BundlesOwn, Own, HeldIn
  <2>2. lru' \in Seq(Entries(Weights)) /\ LruSound'
    BY <1>3, <2>1, OwnPutSound DEF WriteBackOne
  <2> QED BY <1>3, <2>2, LruStepIInv DEF WriteBackOne, IInv, TypeOK
<1> QED BY <1>1, <1>2, <1>3

(* The exact path and sync_actuals. *)
LEMMA ForwardIInv ==
  ASSUME IInv, ForwardStep
  PROVE  IInv'
<1>1. ASSUME NEW e \in Experts, ExactLookup(e) PROVE IInv'
  <2>1. lru' \in Seq(Entries(Weights)) /\ LruSound'
    BY <1>1, GetKeepsSound DEF ExactLookup
  <2> QED BY <1>1, <2>1, LruStepIInv DEF ExactLookup, IInv, TypeOK
<1>2. ASSUME NEW e \in Experts, ExactBuild(e) PROVE IInv'
  <2>1. lru' \in Seq(Entries(Weights)) /\ LruSound'
    BY <1>2, OwnPutSound DEF ExactBuild, Build
  <2> QED BY <1>2, <2>1, LruStepIInv DEF ExactBuild, IInv, TypeOK
<1>3. ASSUME NEW e \in Experts, PromoteOne(e) PROVE IInv'
  <2>1. active[cur][e] = <<cur, e>>
    BY <1>3 DEF PromoteOne, IsLeast, IInv, PcInv, BundlesOwn, Own, HeldIn,
                TypeOK
  <2>2. lru' \in Seq(Entries(Weights)) /\ LruSound'
    BY <1>3, <2>1, OwnPutSound DEF PromoteOne
  <2> QED BY <1>3, <2>2, LruStepIInv DEF PromoteOne, IInv, TypeOK
<1>4. CASE ExactDone \/ PromoteDone
  <2>1. /\ Leave("idle") /\ pc # "stage"
        /\ UNCHANGED <<stackVars, stateVars, lru>>
    BY <1>4 DEF ExactDone, PromoteDone
  <2> USE <2>1 DEF IInv, Leave, stackVars, stateVars
  <2>2. TypeOK'
    BY SlotAssumption DEF TypeOK, NoBundles, NoSlots, Overflow
  <2>3. LruSound' /\ BundlesOwn' /\ TableInv'
    BY DEF LruSound, BundlesOwn, TableInv
  <2>4. OccInv'
    BY DEF OccInv, OccMirrors
  <2>5. StageInv' /\ StateInv' /\ PcInv'
    BY DEF StageInv, StateInv, PcInv
  <2> QED BY <2>2, <2>3, <2>4, <2>5
<1> QED BY <1>1, <1>2, <1>3, <1>4 DEF ForwardStep

(* Steps between stagings that move the staged state but not the stack. *)
LEMMA StateStepIInv ==
  ASSUME IInv, NEW l \in Layers, NEW S \in SUBSET Experts,
         NEW single \in BOOLEAN,
         \/ SwapStaged(l) \/ SyncActuals(l) \/ PrefillCall(l, S)
         \/ Call(l, S, single) \/ Reset
  PROVE  IInv'
<1> USE DEF IInv
<1>1. /\ pc # "stage" /\ pc' # "stage" /\ pc' # "failed"
      /\ UNCHANGED <<writeback, rows, table, occ, held, lru, exp, fresh,
                     assigned, evict>>
  BY DEF SwapStaged, SyncActuals, PrefillCall, Call, Reset, stackVars,
         workVars, PcInv
<1>2. NoBundles \in [Experts -> Weights \cup {Nil}]
  BY DEF NoBundles
<1>3. Promoted(l) \in [Experts -> Weights \cup {Nil}]
  BY DEF Promoted, TypeOK
<1>4. TypeOK'
  <2>1. CASE SwapStaged(l)
    BY <2>1, <1>2, <1>3 DEF SwapStaged, TypeOK, stackVars, workVars
  <2>2. CASE SyncActuals(l)
    BY <2>2 DEF SyncActuals, TypeOK, stackVars
  <2>3. CASE Call(l, S, single)
    BY <2>3, <1>2, <1>3 DEF Call, TypeOK, stackVars
  <2>4. CASE Reset
    BY <2>4, <1>2 DEF Reset, TypeOK, stackVars
  <2>5. CASE PrefillCall(l, S)
    BY <2>5 DEF PrefillCall, TypeOK, stackVars, workVars
  <2> QED BY <2>1, <2>2, <2>3, <2>4, <2>5
<1>5. LruSound' /\ TableInv'
  BY <1>1 DEF LruSound, TableInv
<1>6. OccInv'
  BY <1>1 DEF OccInv, OccMirrors
<1>7. StageInv'
  BY <1>1 DEF StageInv
<1>8. \A m \in Layers :
        /\ nxt'[m] \in {NoBundles, nxt[m]}
        /\ active'[m] \in {NoBundles, active[m], nxt[m]}
        /\ nxt'[m] = NoBundles =>
             active'[m] \in {NoBundles, Promoted(m)}
        /\ nxt'[m] # NoBundles => nxt'[m] = nxt[m]
  <2>1. CASE SwapStaged(l)
    BY <2>1 DEF SwapStaged, TypeOK, Promoted
  <2>2. CASE SyncActuals(l)
    BY <2>2 DEF SyncActuals, TypeOK, Promoted
  <2>3. CASE Call(l, S, single)
    BY <2>3 DEF Call, TypeOK, Promoted
  <2>4. CASE Reset
    BY <2>4 DEF Reset, TypeOK, Promoted
  <2>5. CASE PrefillCall(l, S)
    BY <2>5 DEF PrefillCall, TypeOK, Promoted
  <2> QED BY <2>1, <2>2, <2>3, <2>4, <2>5
<1>9. BundlesOwn'
  BY <1>1, <1>8 DEF BundlesOwn, Own, NoBundles
<1>10. StateInv'
  BY <1>1, <1>8 DEF StateInv, Promoted
<1>11. PcInv'
  BY <1>1 DEF PcInv, SwapStaged, SyncActuals, PrefillCall, Call, Reset,
              HeldIn, workVars
<1> QED BY <1>4, <1>5, <1>6, <1>7, <1>9, <1>10, <1>11

-----------------------------------------------------------------------------
(* The writes that end a staging: the new experts' rows and table entries  *)
(* land, the survivors' stay, and the evicted experts map to the zero row. *)
LEMMA CommitEffect ==
  ASSUME IInv, CommitStage
  PROVE  /\ held' = [held EXCEPT ![cur] = fresh]
         /\ nxt' = [nxt EXCEPT ![cur] = fresh]
         /\ Leave("idle")
         /\ UNCHANGED <<occ, active, pending, lru>>
         /\ \A e \in Experts : fresh[e] # Nil <=> e \in exp
         /\ \A i \in 0..Overflow :
              rows'[cur][i] \in Weights \cup {Nil}
         /\ rows'[cur][Overflow] = Nil
         /\ \A e \in exp : /\ table'[cur][e] = SlotNow(e)
                           /\ SlotNow(e) \in Slots
                           /\ rows'[cur][SlotNow(e)] = <<cur, e>>
         /\ \A e \in Experts \ exp : table'[cur][e] = Overflow
<1> USE DEF IInv
<1>1. pc = "stage" /\ todo = {} /\ evict = {} /\ cur \in Layers
  BY DEF CommitStage, TypeOK
<1>2. \A e \in Experts : fresh[e] # Nil <=> e \in exp
  BY <1>1 DEF StageInv
<1>3. exp \subseteq Experts
  BY DEF TypeOK
<1>4. /\ held' = [held EXCEPT ![cur] = fresh]
      /\ nxt' = [nxt EXCEPT ![cur] = fresh] /\ Leave("idle")
      /\ UNCHANGED <<occ, active, pending, lru>>
  BY <1>2, <1>3 DEF CommitStage
<1>5. rows'[cur] = WrittenRows(cur) /\ table'[cur] = UpdatedTable(cur)
  BY <1>1 DEF CommitStage, TypeOK
<1>6. Overflow \notin Slots /\ Overflow \in 0..Overflow
      /\ Slots = (0..Overflow) \ {Overflow}
  BY SlotAssumption DEF Slots, Overflow
<1>7. \A e \in Experts : assigned[e] # Overflow
                         <=> (e \in exp /\ held[cur][e] = Nil)
  BY <1>1 DEF StageInv
<1>8. \A e \in exp : SlotNow(e) \in Slots /\ occ[cur][SlotNow(e)] = e
  BY <1>1, <1>3, <1>6, <1>7 DEF StageInv, SlotNow, TableInv, TypeOK
<1>9. \A e \in exp : fresh[e] = <<cur, e>>
  BY <1>1, <1>2, <1>3 DEF BundlesOwn, Own
<1>10. rows'[cur][Overflow] = Nil
  BY <1>1, <1>5, <1>6 DEF WrittenRows, TableInv
<1>11. \A d, e \in exp : assigned[d] = SlotNow(e) => d = e
  BY <1>3, <1>6, <1>7, <1>8 DEF SlotNow
<1>12. \A e \in exp : rows'[cur][SlotNow(e)] = <<cur, e>>
  <2> SUFFICES ASSUME NEW e \in exp PROVE rows'[cur][SlotNow(e)] = <<cur, e>>
    OBVIOUS
  <2>0. SlotNow(e) \in 0..Overflow /\ SlotNow(e) # Overflow
    BY <1>6, <1>8
  <2>1. CASE held[cur][e] # Nil
    <3>1. \A d \in exp : assigned[d] # SlotNow(e)
      BY <1>3, <1>6, <1>7, <1>8, <1>11, <2>1
    <3>2. rows'[cur][SlotNow(e)] = rows[cur][SlotNow(e)]
      BY <1>5, <2>0, <3>1 DEF WrittenRows
    <3> QED BY <1>1, <1>3, <2>1, <3>2 DEF SlotNow, TableInv
  <2>2. CASE held[cur][e] = Nil
    <3>1. assigned[e] = SlotNow(e)
      BY <2>2 DEF SlotNow
    <3>2. (CHOOSE d \in exp : assigned[d] = SlotNow(e)) = e
      BY <1>11, <3>1
    <3>3. rows'[cur][SlotNow(e)]
            = fresh[CHOOSE d \in exp : assigned[d] = SlotNow(e)]
      BY <1>5, <2>0, <3>1 DEF WrittenRows
    <3> QED BY <1>9, <3>2, <3>3
  <2> QED BY <2>1, <2>2
<1>13. \A i \in 0..Overflow : rows'[cur][i] \in Weights \cup {Nil}
  <2> SUFFICES ASSUME NEW i \in 0..Overflow
               PROVE  rows'[cur][i] \in Weights \cup {Nil}
    OBVIOUS
  <2>0. rows \in [Layers -> [0..Overflow -> Weights \cup {Nil}]]
    BY DEF TypeOK
  <2> DEFINE Cells == Weights \cup {Nil}
             Index == 0..Overflow
  <2> HIDE DEF Cells, Index
  <2>1. rows[cur][i] \in Cells
    <3>1. rows \in [Layers -> [Index -> Cells]] /\ i \in Index
      BY <2>0 DEF Cells, Index
    <3> QED BY <1>1, <3>1
  <2> USE DEF Cells
  <2>2. CASE \E e \in exp : assigned[e] = i /\ i # Overflow
    <3>1. (CHOOSE e \in exp : assigned[e] = i) \in exp
      BY <2>2
    <3>2. rows'[cur][i] = fresh[CHOOSE e \in exp : assigned[e] = i]
      BY <1>5, <2>2 DEF WrittenRows
    <3> QED BY <1>3, <3>1, <3>2 DEF TypeOK
  <2>3. CASE ~\E e \in exp : assigned[e] = i /\ i # Overflow
    BY <1>5, <2>1, <2>3 DEF WrittenRows
  <2> QED BY <2>2, <2>3
<1>14. \A e \in exp : table'[cur][e] = SlotNow(e)
  BY <1>3, <1>5, <1>7 DEF UpdatedTable, SlotNow
<1>15. \A e \in Experts \ exp : table'[cur][e] = Overflow
  BY <1>1, <1>5, <1>7 DEF UpdatedTable, HeldIn, TableInv
<1> QED BY <1>2, <1>4, <1>8, <1>10, <1>12, <1>13, <1>14, <1>15

(* commit_stage preserves the invariant. *)
LEMMA CommitIInv ==
  ASSUME IInv, CommitStage
  PROVE  IInv'
<1> USE DEF IInv
<1>1. pc = "stage" /\ todo = {} /\ cur \in Layers /\ exp \subseteq Experts
  BY DEF CommitStage, TypeOK
<1>2. /\ held' = [held EXCEPT ![cur] = fresh]
      /\ nxt' = [nxt EXCEPT ![cur] = fresh]
      /\ Leave("idle")
      /\ UNCHANGED <<occ, active, pending, lru>>
      /\ \A e \in Experts : fresh[e] # Nil <=> e \in exp
  BY CommitEffect
<1>3. /\ rows' = [rows EXCEPT ![cur] = WrittenRows(cur)]
      /\ table' = [table EXCEPT ![cur] = UpdatedTable(cur)]
  BY DEF CommitStage
<1>4. Overflow \in 0..Overflow /\ Slots \subseteq 0..Overflow
      /\ Overflow \notin Slots
  BY SlotAssumption DEF Slots, Overflow
<1>5. /\ held'[cur] = fresh /\ nxt'[cur] = fresh
      /\ \A m \in Layers : m # cur =>
           /\ held'[m] = held[m] /\ nxt'[m] = nxt[m]
           /\ rows'[m] = rows[m] /\ table'[m] = table[m]
  BY <1>1, <1>2, <1>3 DEF TypeOK
<1>6. TypeOK'
  <2>1. WrittenRows(cur) \in [0..Overflow -> Weights \cup {Nil}]
    <3>1. rows'[cur] = WrittenRows(cur)
      BY <1>1, <1>3 DEF TypeOK
    <3>2. \A i \in 0..Overflow : WrittenRows(cur)[i] \in Weights \cup {Nil}
      BY <3>1, CommitEffect
    <3> QED BY <3>2 DEF WrittenRows
  <2>2. UpdatedTable(cur) \in [Experts -> 0..Overflow]
    BY <1>1, <1>4 DEF UpdatedTable, TypeOK
  <2>3. /\ NoSlots \in [Experts -> 0..Overflow]
        /\ NoBundles \in [Experts -> Weights \cup {Nil}]
    BY <1>4 DEF NoSlots, NoBundles
  <2> QED BY <1>1, <1>2, <1>3, <2>1, <2>2, <2>3 DEF TypeOK, Leave
<1>7. LruSound'
  BY <1>2 DEF LruSound
<1>8. BundlesOwn'
  BY <1>1, <1>2, <1>5 DEF BundlesOwn, Own, Leave
<1>9. TableInv'
  <2>1. ASSUME NEW m \in Layers, m # cur
        PROVE  /\ rows'[m][Overflow] = Nil
               /\ \A e \in Experts :
                    IF held'[m][e] # Nil
                    THEN /\ table'[m][e] \in Slots
                         /\ rows'[m][table'[m][e]] = <<m, e>>
                    ELSE table'[m][e] = Overflow
    <3>1. /\ held'[m] = held[m] /\ rows'[m] = rows[m]
          /\ table'[m] = table[m]
      BY <1>5, <2>1
    <3>2. TableInv
      OBVIOUS
    <3> HIDE DEF IInv
    <3> QED BY <3>1, <3>2 DEF TableInv
  <2>2. /\ rows'[cur][Overflow] = Nil
        /\ \A e \in Experts :
             IF held'[cur][e] # Nil
             THEN /\ table'[cur][e] \in Slots
                  /\ rows'[cur][table'[cur][e]] = <<cur, e>>
             ELSE table'[cur][e] = Overflow
    BY <1>2, <1>5, CommitEffect
  <2> QED BY <2>1, <2>2 DEF TableInv
<1>10. OccInv'
  <2> SUFFICES ASSUME NEW m \in Layers PROVE OccMirrors(m)'
    BY DEF OccInv
  <2>1. CASE m # cur
    BY <1>2, <1>5, <2>1 DEF OccInv, OccMirrors
  <2>2. CASE m = cur
    <3>1. \A i \in Slots : occ[cur][i] # Empty =>
            occ[cur][i] \in exp /\ SlotNow(occ[cur][i]) = i
      BY <1>1 DEF StageInv
    <3>2. \A e \in exp : /\ occ[cur][SlotNow(e)] = e
                         /\ table'[cur][e] = SlotNow(e)
      BY <1>1, CommitEffect DEF StageInv
    <3> QED BY <1>1, <1>2, <1>5, <2>2, <3>1, <3>2 DEF OccMirrors
  <2> QED BY <2>1, <2>2
<1>11. StageInv' /\ PcInv'
  BY <1>2 DEF StageInv, PcInv, Leave
<1>12. StateInv'
  <2>1. fresh # NoBundles
    BY <1>1, <1>2 DEF StageInv, NoBundles
  <2> QED BY <1>2, <1>5, <2>1 DEF StateInv
<1> QED BY <1>6, <1>7, <1>8, <1>9, <1>10, <1>11, <1>12

(* Every step preserves the invariant. *)
LEMMA NextIInv == IInv /\ [Next]_vars => IInv'
<1> SUFFICES ASSUME IInv, [Next]_vars PROVE IInv'
  OBVIOUS
<1>1. ASSUME NEW l \in Layers, NEW S \in SUBSET Experts, StageExperts(l, S)
      PROVE  IInv'
  BY <1>1, StageExpertsIInv
<1>2. ASSUME NEW l \in Layers, NEW S \in SUBSET Experts,
             NEW single \in BOOLEAN, Call(l, S, single) \/ PrefillCall(l, S)
      PROVE  IInv'
  BY <1>2, StateStepIInv
<1>3. ASSUME NEW l \in Layers, SwapStaged(l) \/ SyncActuals(l)
      PROVE  IInv'
  <2>1. {} \in SUBSET Experts /\ TRUE \in BOOLEAN
    OBVIOUS
  <2> QED BY <1>3, <2>1, StateStepIInv
<1>4. CASE StageStep
  BY <1>4, ResolveIInv, CommitIInv DEF StageStep
<1>5. CASE ForwardStep
  BY <1>5, ForwardIInv
<1>6. CASE Reset
  <2>1. {} \in SUBSET Experts /\ TRUE \in BOOLEAN /\ cur \in Layers
    BY DEF IInv, TypeOK
  <2> QED BY <1>6, <2>1, StateStepIInv
<1>7. CASE UNCHANGED vars
  <2> USE <1>7 DEF vars, stackVars, stateVars, workVars, IInv
  <2>1. TypeOK' /\ LruSound' /\ BundlesOwn' /\ TableInv'
    BY DEF TypeOK, LruSound, BundlesOwn, TableInv
  <2>2. OccInv'
    BY DEF OccInv, OccMirrors
  <2>3. StageInv' /\ StateInv' /\ PcInv'
    BY DEF StageInv, StateInv, PcInv, SlotNow, HeldIn
  <2> QED BY <2>1, <2>2, <2>3
<1> QED BY <1>1, <1>2, <1>3, <1>4, <1>5, <1>6, <1>7 DEF Next

(* The inductive invariant holds in every reachable state. *)
THEOREM Inductive == Spec => []IInv
BY InitIInv, NextIInv, PTL DEF Spec

(* Every variable keeps its type. *)
THEOREM TypeCorrect == Spec => []TypeOK
<1>1. IInv => TypeOK
  BY DEF IInv
<1> QED BY <1>1, Inductive, PTL

(* The staged forward of __call__ reads, for every staged expert, that     *)
(* expert's own rows, and zeros for all others.                             *)
THEOREM ServesStagedSet == Spec => []StackServesStagedSet
<1>1. IInv => StackServesStagedSet
  <2> SUFFICES ASSUME IInv, NEW l \in Layers, Promoted(l) # NoBundles,
                      NEW e \in Experts
               PROVE  Gathered(l, e)
                        = IF Promoted(l)[e] # Nil THEN <<l, e>> ELSE Nil
    BY DEF StackServesStagedSet
  <2>1. Promoted(l) = held[l]
    BY DEF Promoted, IInv, StateInv
  <2> QED BY <2>1 DEF IInv, TableInv, Gathered
<1> QED BY <1>1, Inductive, PTL

(* _stage_incr always finds a free slot for an expert it has to place. *)
THEOREM AlwaysFreeSlot == Spec => []FreeSlotForEveryChanged
<1>1. IInv => FreeSlotForEveryChanged
  BY FreeSlotExists DEF FreeSlotForEveryChanged
<1> QED BY <1>1, Inductive, PTL

(* The shared LRU keeps its budget and files bundles under their own keys. *)
THEOREM LruStaysSound == Spec => []LruSound
<1>1. IInv => LruSound
  BY DEF IInv
<1> QED BY <1>1, Inductive, PTL

-----------------------------------------------------------------------------
(* The stack implements the atomic staged view: a commit is a restaging,   *)
(* every other step leaves rows, table and bundles alone.                   *)
THEOREM Refinement == Spec => ImplementsStagedView
<1>1. Init => Abstract!Init
  <2> SUFFICES ASSUME Init PROVE Abstract!Init
    OBVIOUS
  <2>1. Overflow \in 0..Overflow
    BY SlotAssumption DEF Overflow
  <2>2. ResidentSets = [l \in Layers |-> {}]
    BY DEF Init, ResidentSets, HeldIn, NoBundles
  <2>3. StackView = [l \in Layers |-> Abstract!ViewOf(l, {})]
    BY <2>1 DEF Init, StackView, Gathered, Abstract!ViewOf
  <2> QED BY <2>2, <2>3 DEF Abstract!Init
<1>2. IInv /\ IInv' /\ [Next]_vars => [Abstract!Next]_(Abstract!vars)
  <2> SUFFICES ASSUME IInv, IInv', [Next]_vars
               PROVE  [Abstract!Next]_(Abstract!vars)
    OBVIOUS
  <2>1. CASE CommitStage
    <3>1. cur \in Layers /\ exp \in SUBSET Experts /\ exp # {}
          /\ Cardinality(exp) <= SlotCount
      BY <2>1 DEF CommitStage, IInv, TypeOK, StageInv
    <3>2. /\ held' = [held EXCEPT ![cur] = fresh]
          /\ \A e \in Experts : fresh[e] # Nil <=> e \in exp
      BY <2>1, CommitEffect
    <3>3. ResidentSets' = [ResidentSets EXCEPT ![cur] = exp]
      <4>1. held'[cur] = fresh
            /\ \A l \in Layers : l # cur => held'[l] = held[l]
        BY <3>1, <3>2 DEF IInv, TypeOK
      <4>2. HeldIn(fresh) = exp
        BY <3>1, <3>2 DEF HeldIn
      <4>3. \A l \in Layers : HeldIn(held'[l])
                             = IF l = cur THEN exp ELSE HeldIn(held[l])
        BY <4>1, <4>2
      <4> QED BY <3>1, <4>3 DEF ResidentSets
    <3>4. \A l \in Layers : \A e \in Experts :
            rows'[l][table'[l][e]]
              = IF l = cur THEN (IF e \in exp THEN <<l, e>> ELSE Nil)
                ELSE rows[l][table[l][e]]
      <4>1. \A l \in Layers :
              l # cur => rows'[l] = rows[l] /\ table'[l] = table[l]
        BY <2>1 DEF CommitStage, IInv, TypeOK
      <4>2. \A e \in Experts : rows'[cur][table'[cur][e]]
                               = IF e \in exp THEN <<cur, e>> ELSE Nil
        BY <2>1, CommitEffect
      <4> QED BY <4>1, <4>2
    <3>5. StackView' = [StackView EXCEPT ![cur] = Abstract!ViewOf(cur, exp)]
      <4>1. StackView' = [l \in Layers |-> [e \in Experts |->
                            rows'[l][table'[l][e]]]]
        BY DEF StackView, Gathered
      <4>2. \A l \in Layers : StackView'[l]
              = IF l = cur THEN Abstract!ViewOf(cur, exp) ELSE StackView[l]
        BY <3>4, <4>1 DEF StackView, Gathered, Abstract!ViewOf
      <4> QED BY <3>1, <4>1, <4>2 DEF StackView
    <3>6. exp \in StageableSets
      BY <3>1 DEF StageableSets
    <3> QED BY <3>1, <3>3, <3>5, <3>6 DEF Abstract!Next, Abstract!Restage
  <2>2. CASE UNCHANGED <<rows, table, held>>
    BY <2>2 DEF Abstract!vars, ResidentSets, StackView, Gathered
  <2>3. CommitStage \/ UNCHANGED <<rows, table, held>>
    BY DEF Next, StageStep, ForwardStep, StageExperts, PrefillCall, Call,
           SwapStaged, SyncActuals, ResolveHit, ResolveBuild,
           WriteBackOne, Place,
           ExactLookup, ExactBuild, ExactDone, PromoteOne, PromoteDone,
           Reset, vars, stackVars
  <2> QED BY <2>1, <2>2, <2>3
<1> QED BY <1>1, <1>2, Inductive, PTL
        DEF Spec, ImplementsStagedView, Abstract!Spec

-----------------------------------------------------------------------------
(* Asynchronous fills.                                                      *)

Submitting(t) == step[t] \in {"check", "attach"}
Publishing(t) == step[t] = "publish"

(* The lock is held by the thread that submits, or for good by one whose   *)
(* callback waits for it.                                                   *)
LockInv ==
  \A t \in Threads :
    /\ Submitting(t) => lock = t
    /\ lock = t => Submitting(t) \/ Publishing(t)

(* A thread has a job exactly while it builds or publishes the fill that   *)
(* occupies _staging_future, and no two threads have one.                  *)
JobInv ==
  \A t \in Threads :
    /\ job[t] # 0 => job[t] = future /\ step[t] \in {"build", "publish"}
    /\ step[t] = "build" => job[t] \in Sets /\ fut[job[t]] = "running"
    /\ Publishing(t) => job[t] \in Sets /\ Finished(job[t])
    /\ \A u \in Threads : job[t] # 0 /\ job[u] # 0 => t = u

(* Only the occupying fill is under way, and it is watched: by its         *)
(* callback, by its submitter, or by whoever publishes it.                 *)
FillInv ==
  /\ \A v \in Sets : fut[v] \in {"queued", "running"} => v = future
  /\ future # 0 => fut[future] # "none"
  /\ (future # 0 /\ ~Finished(future)) =>
       future \in attached \/ \E t \in Threads : Submitting(t)
  /\ (future # 0 /\ Finished(future)) =>
       \/ rearm = future
       \/ \E t \in Threads : Publishing(t) \/ Submitting(t)

(* A fill has one way of being published. *)
OneWayInv ==
  /\ rearm # 0 => rearm = future /\ Finished(future)
  /\ \A t \in Threads : Submitting(t) =>
       future # 0 /\ future \notin attached
  /\ \A t \in Threads : Submitting(t) \/ Publishing(t) => rearm = 0
  /\ \A t, u \in Threads : ~(Submitting(t) /\ Publishing(u))

(* A request that has not been submitted has no future yet. *)
FreshInv ==
  /\ \A v \in Sets : fut[v] = "none" => v \notin attached
  /\ \A v \in Sets : v > calls => fut[v] = "none"
  /\ pendingSet # 0 => fut[pendingSet] = "none"
  /\ op = "stage" => calls # 0 /\ calls # pendingSet /\ fut[calls] = "none"

NoFailure == \A v \in Sets : fut[v] # "failed"

(* Sets in the order in which they will be shown. *)
OrderInv ==
  NoFailure =>
    /\ next # 0 => shown < next
    /\ future # 0 => shown < future /\ next < future
    /\ pendingSet # 0 => future # 0 /\ future < pendingSet
    /\ op = "stage" => /\ shown < calls /\ next < calls
                       /\ future < calls /\ pendingSet < calls

AsyncIInv == /\ AsyncRanges /\ LockInv /\ JobInv /\ FillInv /\ OneWayInv
             /\ FreshInv /\ OrderInv

-----------------------------------------------------------------------------
(* Nothing is staged and no thread is busy. *)
LEMMA AsyncInitIInv == AsyncInit => AsyncIInv
  BY StageBound, ThreadNames
     DEF AsyncInit, AsyncIInv, AsyncRanges, LockInv, JobInv, FillInv,
         OneWayInv, FreshInv, OrderInv, Submitting, Publishing, Finished,
         Threads, Sets, Free

(* The submitter leaves a fill that finished at once for the next entry. *)
LEMMA CheckDoneIInv ==
  ASSUME AsyncIInv, NEW t \in Threads, CheckDone(t)
  PROVE  AsyncIInv'
<1> USE ThreadNames, StageBound DEF AsyncIInv, Threads, Sets, Free
<1>1. /\ step[t] = "check" /\ lock = t /\ future # 0 /\ rearm = 0
      /\ UNCHANGED <<state, next, future, pendingSet, fut, attached, calls,
                     job, op, waited, shown>>
  BY DEF CheckDone, LockInv, OneWayInv, Submitting
<1>2. CASE Finished(future)
  <2>1. PICK l \in {"idle", "enter"} : step' = [step EXCEPT ![t] = l]
    BY <1>2 DEF CheckDone, Return, Goto
  <2>2. rearm' = future /\ lock' = "free"
    BY <1>2 DEF CheckDone
  <2>3. \A u \in Threads : ~Submitting(u)' /\ ~Publishing(u)'
    BY <1>1, <2>1 DEF AsyncRanges, LockInv, OneWayInv, Submitting, Publishing
  <2>4. AsyncRanges'
    BY <1>1, <2>1, <2>2 DEF AsyncRanges
  <2>5. LockInv' /\ OneWayInv'
    BY <1>1, <1>2, <2>2, <2>3 DEF AsyncRanges, LockInv, OneWayInv, Finished
  <2>6. JobInv'
    BY <1>1, <2>1, <2>3 DEF AsyncRanges, JobInv, Publishing, Finished
  <2>7. FillInv' /\ FreshInv' /\ OrderInv'
    BY <1>1, <1>2, <2>2 DEF FillInv, FreshInv, OrderInv, NoFailure, Finished
  <2> QED BY <2>4, <2>5, <2>6, <2>7
<1>3. CASE ~Finished(future)
  <2>1. step' = [step EXCEPT ![t] = "attach"] /\ UNCHANGED <<rearm, lock>>
    BY <1>3 DEF CheckDone, Goto
  <2>2. \A u \in Threads : /\ Submitting(u)' <=> Submitting(u)
                           /\ Publishing(u)' <=> Publishing(u)
    BY <1>1, <2>1 DEF AsyncRanges, Submitting, Publishing
  <2>3. AsyncRanges'
    BY <1>1, <2>1 DEF AsyncRanges
  <2>4. JobInv'
    BY <1>1, <2>1, <2>2 DEF AsyncRanges, JobInv, Finished
  <2>5. LockInv' /\ FillInv' /\ OneWayInv'
    BY <1>1, <2>1, <2>2 DEF LockInv, FillInv, OneWayInv, Finished
  <2>6. FreshInv' /\ OrderInv'
    BY <1>1 DEF FreshInv, OrderInv, NoFailure
  <2> QED BY <2>3, <2>4, <2>5, <2>6
<1> QED BY <1>2, <1>3

(* The submitter registers the callback, or runs it itself. *)
LEMMA AddDoneCallbackIInv ==
  ASSUME AsyncIInv, NEW t \in Threads, AddDoneCallback(t)
  PROVE  AsyncIInv'
<1> USE ThreadNames, StageBound DEF AsyncIInv, Threads, Sets, Free
<1>1. /\ step[t] = "attach" /\ lock = t /\ future \in Sets /\ rearm = 0
      /\ job[t] = 0 /\ \A u \in Threads : ~Publishing(u)
      /\ UNCHANGED <<state, next, future, pendingSet, rearm, fut, calls, op,
                     waited, shown>>
  BY DEF AddDoneCallback, staging, AsyncRanges, LockInv, JobInv, OneWayInv,
         Submitting
<1>2. \A u \in Threads : u # t => ~Submitting(u)
  BY <1>1 DEF LockInv
<1>3. FreshInv' /\ OrderInv'
  <2>1. fut[future] # "none" /\ attached' \subseteq attached \cup {future}
    BY <1>1 DEF FillInv, AddDoneCallback
  <2> QED BY <1>1, <2>1 DEF FreshInv, OrderInv, NoFailure
<1>4. CASE Finished(future)
  <2>1. /\ job' = [job EXCEPT ![t] = future]
        /\ step' = [step EXCEPT ![t] = "publish"]
        /\ UNCHANGED <<attached, lock>>
    BY <1>4 DEF AddDoneCallback, Goto
  <2>2. \A u \in Threads : ~Submitting(u)' /\ (Publishing(u)' <=> u = t)
    BY <1>1, <1>2, <2>1 DEF AsyncRanges, Submitting, Publishing
  <2>3. AsyncRanges'
    BY <1>1, <2>1 DEF AsyncRanges
  <2>4. LockInv' /\ FillInv' /\ OneWayInv'
    BY <1>1, <1>4, <2>1, <2>2 DEF LockInv, FillInv, OneWayInv, Finished
  <2>5. \A u \in Threads : job[u] = 0
    BY <1>1, <1>4 DEF AsyncRanges, JobInv, Publishing, Finished
  <2>6. JobInv'
    BY <1>1, <1>4, <2>1, <2>2, <2>5 DEF AsyncRanges, JobInv, Publishing,
       Finished
  <2> QED BY <1>3, <2>3, <2>4, <2>6
<1>5. CASE ~Finished(future)
  <2>1. PICK l \in {"idle", "enter"} : step' = [step EXCEPT ![t] = l]
    BY <1>5 DEF AddDoneCallback, Return, Goto
  <2>2. lock' = "free" /\ attached' = attached \cup {future} /\ job' = job
    BY <1>5 DEF AddDoneCallback
  <2>3. \A u \in Threads : ~Submitting(u)' /\ ~Publishing(u)'
    BY <1>1, <1>2, <2>1 DEF AsyncRanges, Submitting, Publishing
  <2>4. AsyncRanges'
    BY <1>1, <2>1, <2>2 DEF AsyncRanges
  <2>5. LockInv' /\ FillInv' /\ OneWayInv'
    BY <1>1, <1>5, <2>2, <2>3 DEF LockInv, FillInv, OneWayInv, Finished
  <2>6. JobInv'
    BY <1>1, <2>1, <2>2, <2>3 DEF AsyncRanges, JobInv, Publishing, Finished
  <2> QED BY <1>3, <2>4, <2>5, <2>6
<1> QED BY <1>4, <1>5

(* A fill is published, and the pending request takes its place. *)
LEMMA OnStageDoneIInv ==
  ASSUME AsyncIInv, NEW t \in Threads, OnStageDone(t)
  PROVE  AsyncIInv'
<1> USE ThreadNames, StageBound DEF AsyncIInv, Threads, Sets, Free
<1>1. /\ step[t] = "publish" /\ lock = "free" /\ job[t] = future
      /\ future \in Sets /\ Finished(future) /\ rearm = 0
      /\ UNCHANGED <<state, rearm, attached, calls, op, waited, shown>>
      /\ job' = [job EXCEPT ![t] = 0]
  BY DEF OnStageDone, JobInv, OneWayInv, Publishing
<1>2. \A u \in Threads : u # t => ~Submitting(u) /\ ~Publishing(u)
                                  /\ job[u] = 0
  BY <1>1 DEF AsyncRanges, LockInv, JobInv, Submitting, Publishing
<1>3. \A v \in Sets : fut[v] \notin {"queued", "running"}
  BY <1>1 DEF FillInv, Finished
<1>4. CASE fut[future] = "done" /\ pendingSet # 0
  <2>1. /\ next' = future /\ future' = pendingSet /\ pendingSet' = 0
        /\ fut' = [fut EXCEPT ![pendingSet] = "queued"] /\ lock' = t
        /\ step' = [step EXCEPT ![t] = "check"]
    BY <1>1, <1>4 DEF OnStageDone, Submit, Goto
  <2>2. \A u \in Threads : (Submitting(u)' <=> u = t) /\ ~Publishing(u)'
                           /\ job'[u] = 0 /\ step'[u] # "build"
    BY <1>1, <1>2, <1>3, <2>1
       DEF AsyncRanges, JobInv, Submitting, Publishing
  <2>3. /\ pendingSet \in Sets /\ fut[pendingSet] = "none"
        /\ pendingSet \notin attached
    BY <1>4 DEF AsyncRanges, FreshInv
  <2>4. AsyncRanges'
    BY <1>1, <2>1, <2>3 DEF AsyncRanges
  <2>5. LockInv' /\ JobInv'
    BY <2>1, <2>2 DEF LockInv, JobInv
  <2>6. FillInv' /\ OneWayInv'
    BY <1>1, <1>3, <2>1, <2>2, <2>3
       DEF AsyncRanges, FillInv, OneWayInv, Finished
  <2>7. FreshInv'
    BY <1>1, <2>1, <2>3 DEF AsyncRanges, FreshInv
  <2>8. OrderInv'
    BY <1>1, <2>1, <2>3 DEF AsyncRanges, OrderInv, NoFailure
  <2> QED BY <2>4, <2>5, <2>6, <2>7, <2>8
<1>5. CASE ~(fut[future] = "done" /\ pendingSet # 0)
  <2>1. PICK l \in {"idle", "enter"} : step' = [step EXCEPT ![t] = l]
    BY <1>1, <1>5 DEF OnStageDone, Return, Goto
  <2>2. /\ next' = IF fut[future] = "done" THEN future ELSE next
        /\ future' = 0 /\ UNCHANGED <<pendingSet, lock, fut>>
    BY <1>1, <1>5 DEF OnStageDone
  <2>3. \A u \in Threads : ~Submitting(u)' /\ ~Publishing(u)'
                           /\ job'[u] = 0 /\ step'[u] # "build"
    BY <1>1, <1>2, <1>3, <2>1
       DEF AsyncRanges, JobInv, Submitting, Publishing
  <2>4. AsyncRanges'
    BY <1>1, <2>1, <2>2 DEF AsyncRanges
  <2>5. LockInv' /\ JobInv'
    BY <1>1, <2>2, <2>3 DEF LockInv, JobInv
  <2>6. FillInv' /\ OneWayInv'
    BY <1>1, <1>3, <2>2, <2>3 DEF FillInv, OneWayInv
  <2>7. FreshInv'
    BY <1>1, <2>2 DEF FreshInv
  <2>8. OrderInv'
    BY <1>1, <1>5, <2>2 DEF AsyncRanges, OrderInv, NoFailure, Finished
  <2> QED BY <2>4, <2>5, <2>6, <2>7, <2>8
<1> QED BY <1>4, <1>5

(* The pool takes up the occupying fill. *)
LEMMA StartFillIInv ==
  ASSUME AsyncIInv, NEW w \in Workers, NEW v \in Sets, StartFill(w, v)
  PROVE  AsyncIInv'
<1> USE ThreadNames, StageBound
    DEF AsyncIInv, Threads, Sets, Free, StartFill, Goto, staging
<1>1. AsyncRanges'
  BY DEF AsyncRanges, JobInv, OneWayInv, FreshInv, Submitting, Publishing
<1>2. LockInv'
  BY DEF AsyncRanges, LockInv, JobInv, Submitting, Publishing
<1>3. JobInv'
  BY DEF AsyncRanges, LockInv, JobInv, FillInv, OneWayInv, FreshInv,
         Submitting, Publishing, Finished
<1>4. FillInv'
  BY DEF AsyncRanges, LockInv, JobInv, FillInv, OneWayInv, FreshInv,
         Submitting, Publishing, Finished
<1>5. OneWayInv'
  BY DEF AsyncRanges, LockInv, JobInv, FillInv, OneWayInv, FreshInv,
         Submitting, Publishing, Finished
<1>6. FreshInv'
  BY DEF AsyncRanges, JobInv, FillInv, FreshInv, OneWayInv, Submitting
<1>7. OrderInv'
  BY DEF AsyncRanges, JobInv, FillInv, FreshInv, OneWayInv, OrderInv,
         NoFailure, Submitting, Publishing, Finished
<1> QED BY <1>1, <1>2, <1>3, <1>4, <1>5, <1>6, <1>7

(* A fill ends; its builder or its submitter will publish it. *)
LEMMA FinishFillIInv ==
  ASSUME AsyncIInv, NEW w \in Workers, NEW outcome \in {"done", "failed"},
         FinishFill(w, outcome)
  PROVE  AsyncIInv'
<1> USE ThreadNames, StageBound
    DEF AsyncIInv, Threads, Sets, Free, FinishFill, Goto, staging
<1>1. AsyncRanges'
  <2>1. {state, next, future, pendingSet, rearm, waited, shown}' \subseteq
          0..calls'
    BY DEF AsyncRanges
  <2>2. (step \in [Threads -> {"idle", "build", "publish", "check", "attach",
                             "drain", "enter", "result", "promote", "swap",
                             "reset"}])'
    BY DEF AsyncRanges
  <2>3. (job \in [Threads -> 0..calls])'
    BY DEF AsyncRanges
  <2>4. (attached \subseteq Sets)'
    BY DEF AsyncRanges, OneWayInv, Submitting
  <2>5. (fut \in [Sets -> {"none", "queued", "running", "done", "failed"}])'
    BY DEF AsyncRanges, JobInv
  <2>6. (calls \in 0..MaxStages /\ lock \in Threads \cup {Free}
           /\ op \in {"stage", "wait", "swap", "none"})'
    BY DEF AsyncRanges
  <2> QED BY <2>1, <2>2, <2>3, <2>4, <2>5, <2>6 DEF AsyncRanges
<1>2. LockInv'
  BY DEF AsyncRanges, LockInv, Submitting, Publishing
<1>3. JobInv'
  BY DEF AsyncRanges, LockInv, JobInv, FillInv, OneWayInv, FreshInv,
         Submitting, Publishing, Finished
<1>4. FillInv'
  BY DEF AsyncRanges, LockInv, JobInv, FillInv, OneWayInv, FreshInv,
         Submitting, Publishing, Finished
<1>5. OneWayInv'
  BY DEF AsyncRanges, LockInv, JobInv, FillInv, OneWayInv, FreshInv,
         Submitting, Publishing, Finished
<1>6. FreshInv'
  BY DEF AsyncRanges, JobInv, FillInv, FreshInv, OneWayInv, Submitting
<1>7. OrderInv'
  BY DEF AsyncRanges, JobInv, FillInv, FreshInv, OneWayInv, OrderInv,
         NoFailure, Submitting, Publishing, Finished
<1> QED BY <1>1, <1>2, <1>3, <1>4, <1>5, <1>6, <1>7

(* An entry point is called, or the sets are dropped. *)
LEMMA EntryIInv ==
  ASSUME AsyncIInv, Entry
  PROVE  AsyncIInv'
<1> USE ThreadNames, StageBound
    DEF AsyncIInv, Threads, Sets, Free, Entry, AsyncStageExperts, WaitStaged,
        AsyncSwapStaged, AsyncReset, Begin, Goto, staging
<1>1. AsyncRanges'
  <2>1. {state, next, future, pendingSet, rearm, waited, shown}' \subseteq
          0..calls'
    BY DEF AsyncRanges
  <2>2. (step \in [Threads -> {"idle", "build", "publish", "check", "attach",
                             "drain", "enter", "result", "promote", "swap",
                             "reset"}])'
    BY DEF AsyncRanges
  <2>3. (job \in [Threads -> 0..calls])'
    BY DEF AsyncRanges
  <2>4. (attached \subseteq Sets)'
    BY DEF AsyncRanges, OneWayInv, Submitting
  <2>5. (fut \in [Sets -> {"none", "queued", "running", "done", "failed"}])'
    BY DEF AsyncRanges, JobInv
  <2>6. (calls \in 0..MaxStages /\ lock \in Threads \cup {Free}
           /\ op \in {"stage", "wait", "swap", "none"})'
    BY DEF AsyncRanges
  <2> QED BY <2>1, <2>2, <2>3, <2>4, <2>5, <2>6 DEF AsyncRanges
<1>2. LockInv'
  BY DEF AsyncRanges, LockInv, JobInv, Submitting, Publishing
<1>3. JobInv'
  BY DEF AsyncRanges, LockInv, JobInv, FillInv, OneWayInv, FreshInv,
         Submitting, Publishing, Finished
<1>4. FillInv'
  BY DEF AsyncRanges, LockInv, JobInv, FillInv, OneWayInv, FreshInv,
         Submitting, Publishing, Finished
<1>5. OneWayInv'
  BY DEF AsyncRanges, LockInv, JobInv, FillInv, OneWayInv, FreshInv,
         Submitting, Publishing, Finished
<1>6. FreshInv'
  BY DEF AsyncRanges, FreshInv
<1>7. OrderInv'
  BY DEF AsyncRanges, JobInv, FillInv, FreshInv, OneWayInv, OrderInv,
         NoFailure, Submitting, Publishing, Finished
<1> QED BY <1>1, <1>2, <1>3, <1>4, <1>5, <1>6, <1>7

(* The main thread takes over a fill that was left behind. *)
LEMMA DrainRearmIInv ==
  ASSUME AsyncIInv, DrainRearm
  PROVE  AsyncIInv'
<1> USE ThreadNames, StageBound
    DEF AsyncIInv, Threads, Sets, Free, DrainRearm, Goto
<1>1. AsyncRanges'
  BY DEF AsyncRanges, JobInv, OneWayInv, FreshInv, Submitting, Publishing
<1>2. LockInv'
  BY DEF AsyncRanges, LockInv, JobInv, Submitting, Publishing
<1>3. JobInv'
  BY DEF AsyncRanges, LockInv, JobInv, FillInv, OneWayInv, FreshInv,
         Submitting, Publishing, Finished
<1>4. FillInv'
  BY DEF AsyncRanges, LockInv, JobInv, FillInv, OneWayInv, FreshInv,
         Submitting, Publishing, Finished
<1>5. OneWayInv'
  BY DEF AsyncRanges, LockInv, JobInv, FillInv, OneWayInv, FreshInv,
         Submitting, Publishing, Finished
<1>6. FreshInv'
  BY DEF AsyncRanges, JobInv, FillInv, FreshInv, OneWayInv, Submitting
<1>7. OrderInv'
  BY DEF AsyncRanges, JobInv, FillInv, FreshInv, OneWayInv, OrderInv,
         NoFailure, Submitting, Publishing, Finished
<1> QED BY <1>1, <1>2, <1>3, <1>4, <1>5, <1>6, <1>7

(* stage_experts submits its request or leaves it pending. *)
LEMMA StageEnterIInv ==
  ASSUME AsyncIInv, StageEnter
  PROVE  AsyncIInv'
<1> USE ThreadNames, StageBound DEF AsyncIInv, Threads, Sets, Free
<1>1. /\ step["main"] = "enter" /\ op = "stage" /\ lock = "free"
      /\ op' = "none"
      /\ UNCHANGED <<state, next, rearm, attached, calls, job, waited,
                     shown>>
  BY DEF StageEnter
<1>2. /\ calls \in Sets /\ fut[calls] = "none" /\ calls # pendingSet
      /\ calls \notin attached /\ job["main"] = 0
  BY <1>1 DEF AsyncRanges, FreshInv, JobInv
<1>3. CASE future # 0
  <2>1. /\ pendingSet' = calls /\ step' = [step EXCEPT !["main"] = "idle"]
        /\ UNCHANGED <<future, lock, fut>>
    BY <1>3 DEF StageEnter, Goto
  <2>2. \A u \in Threads : /\ Submitting(u)' <=> Submitting(u)
                           /\ Publishing(u)' <=> Publishing(u)
    BY <1>1, <2>1 DEF AsyncRanges, Submitting, Publishing
  <2>3. AsyncRanges'
    BY <1>1, <1>2, <2>1 DEF AsyncRanges
  <2>4. JobInv'
    BY <1>1, <1>2, <2>1, <2>2 DEF AsyncRanges, JobInv, Finished
  <2>5. LockInv' /\ FillInv' /\ OneWayInv'
    BY <1>1, <2>1, <2>2 DEF LockInv, FillInv, OneWayInv, Finished
  <2>6. FreshInv' /\ OrderInv'
    BY <1>1, <1>2, <1>3, <2>1 DEF AsyncRanges, FreshInv, OrderInv, NoFailure
  <2> QED BY <2>3, <2>4, <2>5, <2>6
<1>4. CASE future = 0
  <2>1. /\ fut' = [fut EXCEPT ![calls] = "queued"] /\ future' = calls
        /\ lock' = "main" /\ step' = [step EXCEPT !["main"] = "check"]
        /\ pendingSet' = pendingSet
    BY <1>4 DEF StageEnter, Submit, Goto
  <2>2. \A v \in Sets : fut[v] \notin {"queued", "running"}
    BY <1>4 DEF FillInv
  <2>3. \A u \in Threads : /\ Submitting(u)' <=> u = "main"
                           /\ ~Publishing(u)' /\ step'[u] # "build"
                           /\ job[u] = 0
    BY <1>1, <1>4, <2>1
       DEF AsyncRanges, LockInv, JobInv, Submitting, Publishing
  <2>4. AsyncRanges'
    BY <1>1, <1>2, <2>1 DEF AsyncRanges
  <2>5. LockInv' /\ JobInv'
    BY <1>1, <2>1, <2>3 DEF LockInv, JobInv
  <2>6. FillInv' /\ OneWayInv'
    BY <1>1, <1>2, <1>4, <2>1, <2>2, <2>3
       DEF AsyncRanges, FillInv, OneWayInv, Finished
  <2>7. FreshInv' /\ OrderInv'
    BY <1>1, <1>2, <1>4, <2>1
       DEF AsyncRanges, FreshInv, OrderInv, NoFailure
  <2> QED BY <2>4, <2>5, <2>6, <2>7
<1> QED BY <1>3, <1>4

(* wait_staged takes the future and waits for it. *)
LEMMA WaitIInv ==
  ASSUME AsyncIInv, WaitEnter \/ WaitResult
  PROVE  AsyncIInv'
<1> USE ThreadNames, StageBound
    DEF AsyncIInv, Threads, Sets, Free, WaitEnter, WaitResult, Goto, staging
<1>1. AsyncRanges'
  <2>1. {state, next, future, pendingSet, rearm, waited, shown}' \subseteq
          0..calls'
    BY DEF AsyncRanges
  <2>2. (step \in [Threads -> {"idle", "build", "publish", "check", "attach",
                             "drain", "enter", "result", "promote", "swap",
                             "reset"}])'
    BY DEF AsyncRanges
  <2>3. (job \in [Threads -> 0..calls])'
    BY DEF AsyncRanges
  <2>4. (attached \subseteq Sets)'
    BY DEF AsyncRanges, OneWayInv, Submitting
  <2>5. (fut \in [Sets -> {"none", "queued", "running", "done", "failed"}])'
    BY DEF AsyncRanges, JobInv
  <2>6. (calls \in 0..MaxStages /\ lock \in Threads \cup {Free}
           /\ op \in {"stage", "wait", "swap", "none"})'
    BY DEF AsyncRanges
  <2> QED BY <2>1, <2>2, <2>3, <2>4, <2>5, <2>6 DEF AsyncRanges
<1>2. LockInv'
  BY DEF AsyncRanges, LockInv, JobInv, Submitting, Publishing
<1>3. JobInv'
  BY DEF AsyncRanges, LockInv, JobInv, FillInv, OneWayInv, FreshInv,
         Submitting, Publishing, Finished
<1>4. FillInv'
  BY DEF AsyncRanges, FillInv, Submitting, Publishing, Finished
<1>5. OneWayInv'
  BY DEF AsyncRanges, LockInv, JobInv, FillInv, OneWayInv, FreshInv,
         Submitting, Publishing, Finished
<1>6. FreshInv'
  BY DEF AsyncRanges, JobInv, FillInv, FreshInv, OneWayInv, Submitting
<1>7. OrderInv'
  BY DEF AsyncRanges, JobInv, FillInv, FreshInv, OneWayInv, OrderInv,
         NoFailure, Submitting, Publishing, Finished
<1> QED BY <1>1, <1>2, <1>3, <1>4, <1>5, <1>6, <1>7

(* The next set becomes the active one, the pending one is dropped. *)
LEMMA PromoteIInv ==
  ASSUME AsyncIInv, WaitPromote \/ SwapPromote \/ ResetPending
  PROVE  AsyncIInv'
<1> USE ThreadNames, StageBound
    DEF AsyncIInv, Threads, Sets, Free, WaitPromote, SwapPromote, ResetPending,
        PromoteNext, Goto
<1>1. AsyncRanges'
  <2>1. {state, next, future, pendingSet, rearm, waited, shown}' \subseteq
          0..calls'
    BY DEF AsyncRanges
  <2>2. (step \in [Threads -> {"idle", "build", "publish", "check", "attach",
                             "drain", "enter", "result", "promote", "swap",
                             "reset"}])'
    BY DEF AsyncRanges
  <2>3. (job \in [Threads -> 0..calls])'
    BY DEF AsyncRanges
  <2>4. (attached \subseteq Sets)'
    BY DEF AsyncRanges, OneWayInv, Submitting
  <2>5. (fut \in [Sets -> {"none", "queued", "running", "done", "failed"}])'
    BY DEF AsyncRanges, JobInv
  <2>6. (calls \in 0..MaxStages /\ lock \in Threads \cup {Free}
           /\ op \in {"stage", "wait", "swap", "none"})'
    BY DEF AsyncRanges
  <2> QED BY <2>1, <2>2, <2>3, <2>4, <2>5, <2>6 DEF AsyncRanges
<1>2. LockInv'
  BY DEF AsyncRanges, LockInv, JobInv, Submitting, Publishing
<1>3. JobInv'
  BY DEF AsyncRanges, LockInv, JobInv, FillInv, OneWayInv, FreshInv,
         Submitting, Publishing, Finished
<1>4. FillInv'
  BY DEF AsyncRanges, LockInv, JobInv, FillInv, OneWayInv, FreshInv,
         Submitting, Publishing, Finished
<1>5. OneWayInv'
  BY DEF AsyncRanges, LockInv, JobInv, FillInv, OneWayInv, FreshInv,
         Submitting, Publishing, Finished
<1>6. FreshInv'
  BY DEF AsyncRanges, JobInv, FillInv, FreshInv, OneWayInv, Submitting
<1>7. OrderInv'
  BY DEF AsyncRanges, JobInv, FillInv, FreshInv, OneWayInv, OrderInv,
         NoFailure, Submitting, Publishing, Finished
<1> QED BY <1>1, <1>2, <1>3, <1>4, <1>5, <1>6, <1>7

-----------------------------------------------------------------------------
(* Every step of the program keeps the invariant. *)
LEMMA AsyncNextIInv == AsyncIInv /\ [AsyncNext]_asyncVars => AsyncIInv'
<1> SUFFICES ASSUME AsyncIInv, [AsyncNext]_asyncVars PROVE AsyncIInv'
  OBVIOUS
<1>1. CASE Entry
  BY <1>1, EntryIInv
<1>2. CASE MainStep
  BY <1>2, DrainRearmIInv, StageEnterIInv, WaitIInv, PromoteIInv,
     CheckDoneIInv, AddDoneCallbackIInv, OnStageDoneIInv
     DEF MainStep, Threads
<1>3. ASSUME NEW w \in Workers, WorkerStep(w) PROVE AsyncIInv'
  BY <1>3, StartFillIInv, FinishFillIInv, CheckDoneIInv,
     AddDoneCallbackIInv, OnStageDoneIInv DEF WorkerStep, Threads
<1>4. CASE UNCHANGED asyncVars
  BY <1>4 DEF asyncVars, staging, threads, AsyncIInv, AsyncRanges, LockInv,
     JobInv, FillInv, OneWayInv, FreshInv, OrderInv, NoFailure, Submitting,
     Publishing, Finished
<1> QED BY <1>1, <1>2, <1>3, <1>4 DEF AsyncNext

(* The invariant holds throughout every behaviour. *)
THEOREM AsyncInvariantHolds == AsyncSpec => []AsyncIInv
  BY AsyncInitIInv, AsyncNextIInv, PTL DEF AsyncSpec

(* wait_staged waits only if there was a future to take. *)
WaitInv == step["main"] = "result" => waited # 0

(* Only wait_staged takes a future to wait for, and no other thread moves  *)
(* the main thread to its result.                                           *)
LEMMA WaitInvKept ==
  ASSUME AsyncRanges, WaitInv, [AsyncNext]_asyncVars
  PROVE  WaitInv'
<1> DEFINE Kept == \/ step'["main"] # "result"
                   \/ step'["main"] = step["main"] /\ waited' = waited
<1>1. step = [t \in Threads |-> step[t]] /\ "main" \in Threads
  BY DEF AsyncRanges, Threads
<1>2. ASSUME Kept PROVE WaitInv'
  BY <1>2 DEF WaitInv
<1>3. ASSUME NEW t \in Threads, NEW label, label # "result", waited' = waited,
             Goto(t, label)
      PROVE  Kept
  BY <1>1, <1>3 DEF Goto
<1>4. ASSUME NEW t \in Threads, waited' = waited, Return(t)
      PROVE  Kept
  BY <1>3, <1>4 DEF Return
<1>5. CASE Entry
  BY <1>1, <1>2, <1>3, <1>5
     DEF Entry, AsyncStageExperts, WaitStaged, AsyncSwapStaged, AsyncReset,
         Begin
<1>6. CASE DrainRearm \/ StageEnter \/ WaitResult \/ WaitPromote
             \/ SwapPromote \/ ResetPending
  BY <1>1, <1>2, <1>3, <1>6
     DEF DrainRearm, StageEnter, WaitResult, WaitPromote, SwapPromote,
         ResetPending, Submit
<1>7. CASE WaitEnter
  BY <1>1, <1>7 DEF WaitEnter, Goto, WaitInv
<1>8. ASSUME NEW t \in Threads,
             CheckDone(t) \/ AddDoneCallback(t) \/ OnStageDone(t)
      PROVE  WaitInv'
  BY <1>2, <1>3, <1>4, <1>8
     DEF CheckDone, AddDoneCallback, OnStageDone, Submit
<1>9. ASSUME NEW w \in Workers,
             \/ \E v \in Sets : StartFill(w, v)
             \/ \E outcome \in {"done", "failed"} : FinishFill(w, outcome)
      PROVE  WaitInv'
  <2>1. w \in Threads
    BY DEF Threads
  <2> QED BY <1>2, <1>3, <1>9, <2>1 DEF StartFill, FinishFill
<1>10. CASE UNCHANGED asyncVars
  BY <1>10 DEF asyncVars, threads, WaitInv
<1>11. \A w \in Workers : w \in Threads
  BY DEF Threads
<1> QED BY <1>1, <1>5, <1>6, <1>7, <1>8, <1>9, <1>10, <1>11
        DEF AsyncNext, MainStep, WorkerStep

(* Every variable keeps its type, no set is ever named that stage_experts  *)
(* has not been asked for, and no thread reads the result of a future that *)
(* is None.                                                                 *)
THEOREM AsyncTypeCorrect == AsyncSpec => []AsyncTypeOK
<1>1. AsyncIInv => AsyncRanges
  BY DEF AsyncIInv
<1>2. AsyncInit => WaitInv
  BY DEF AsyncInit, WaitInv, Threads
<1>3. AsyncIInv /\ WaitInv => AsyncTypeOK
  BY DEF AsyncIInv, JobInv, WaitInv, AsyncTypeOK, Publishing, Sets
<1> QED BY <1>1, <1>2, <1>3, WaitInvKept, AsyncInvariantHolds, PTL
        DEF AsyncSpec

(* A finished fill that occupies _staging_future always has a publisher,   *)
(* whatever the interleaving of submitters, callbacks and drains.          *)
THEOREM NeverOrphaned == AsyncSpec => []NoOrphanFill
<1>1. AsyncIInv => NoOrphanFill
  <2> SUFFICES ASSUME AsyncIInv, future # 0, Finished(future), rearm # future
               PROVE  \E t \in Threads :
                        \/ job[t] = future /\ step[t] = "publish"
                        \/ lock = t /\ step[t] \in {"check", "attach"}
    BY DEF NoOrphanFill
  <2>1. PICK t \in Threads : Publishing(t) \/ Submitting(t)
    BY DEF AsyncIInv, FillInv
  <2>2. Publishing(t) => job[t] # 0
    BY DEF AsyncIInv, JobInv, Sets
  <2> QED BY <2>1, <2>2 DEF AsyncIInv, JobInv, LockInv, Publishing, Submitting
<1> QED BY <1>1, AsyncInvariantHolds, PTL

(* No two fills are ever between submission and publication. *)
THEOREM FillsNeverOverlap == AsyncSpec => []OneFillAtATime
<1>1. AsyncIInv => OneFillAtATime
  BY DEF AsyncIInv, FillInv, JobInv, OneFillAtATime, Publishing, Sets
<1> QED BY <1>1, AsyncInvariantHolds, PTL

(* While no fill fails, a promotion never goes back to an older set. *)
THEOREM ActiveSetNeverOlder == AsyncSpec => NeverOlder
<1>1. ASSUME AsyncIInv, [AsyncNext]_asyncVars, NoFailure
      PROVE  state' \in {0, state} \/ state' > shown
  <2>1. UNCHANGED state \/ state' = 0 \/ PromoteNext
    BY <1>1 DEF AsyncNext, Entry, MainStep, WorkerStep, AsyncStageExperts,
       WaitStaged, AsyncSwapStaged, AsyncReset, Begin, DrainRearm,
       StageEnter, WaitEnter, WaitResult, WaitPromote, SwapPromote,
       ResetPending, CheckDone, AddDoneCallback, OnStageDone, StartFill,
    FinishFill, staging, asyncVars
  <2>2. CASE PromoteNext
    BY <1>1, <2>2 DEF PromoteNext, AsyncIInv, OrderInv, AsyncRanges
  <2> QED BY <2>1, <2>2
<1>2. AsyncIInv /\ [AsyncNext]_asyncVars =>
        [(\A v \in Sets : fut[v] # "failed") => (state' \in {0, state}
                                                \/ state' > shown)]_asyncVars
  BY <1>1 DEF NoFailure
<1> QED BY <1>2, AsyncInvariantHolds, PTL DEF AsyncSpec, NeverOlder

=============================================================================
