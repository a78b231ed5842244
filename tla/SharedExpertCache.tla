-------------------------- MODULE SharedExpertCache --------------------------
(***************************************************************************)
(* The process-wide LRU of expert bundles that all streaming MoE layers    *)
(* share (streaming/cache.py, class SharedExpertCache).                    *)
(*                                                                         *)
(* The OrderedDict is a sequence of entries [key, val], least recently     *)
(* used first.  A key is <<layer, expert>>; val is the bundle stored under *)
(* it.  Every method runs under the cache's own lock, so each one is an    *)
(* operator from the cache before the call to the cache after it.          *)
(***************************************************************************)
EXTENDS Naturals, Sequences

CachedKeys(c) == {c[i].key : i \in DOMAIN c}

(* Where key k sits in the cache; used only when k is cached. *)
PositionOf(c, k) == CHOOSE i \in DOMAIN c : c[i].key = k

(* peek(k): the stored bundle, order untouched. *)
CachePeek(c, k) == c[PositionOf(c, k)].val

(* The cache with the entry at position i taken out. *)
WithoutPosition(c, i) ==
  [j \in 1..(Len(c) - 1) |-> IF j < i THEN c[j] ELSE c[j + 1]]

(* get(k): a hit is moved to the most recently used end. *)
CacheGet(c, k) ==
  IF k \in CachedKeys(c)
  THEN LET i == PositionOf(c, k) IN Append(WithoutPosition(c, i), c[i])
  ELSE c

(* Mutant: the budget is off by one. *)
CachePutOneOver(c, k, v, slots) ==
  IF k \in CachedKeys(c)
  THEN [c EXCEPT ![PositionOf(c, k)] = [key |-> k, val |-> v]]
  ELSE LET grown == Append(c, [key |-> k, val |-> v])
       IN  IF slots > 0 /\ Len(grown) > slots + 1 THEN Tail(grown) ELSE grown

(* put(k, v): a cached key keeps its place in the order (OrderedDict        *)
(* assignment does not move it); a new key is the most recent one, and one *)
(* entry is dropped from the old end when the budget is exceeded (slots =  *)
(* 0 means no budget).                                                      *)
CachePut(c, k, v, slots) ==
  IF k \in CachedKeys(c)
  THEN [c EXCEPT ![PositionOf(c, k)] = [key |-> k, val |-> v]]
  ELSE LET grown == Append(c, [key |-> k, val |-> v])
       IN  IF slots > 0 /\ Len(grown) > slots THEN Tail(grown) ELSE grown

(* pop(k): the entry is removed. *)
CachePop(c, k) ==
  IF k \in CachedKeys(c) THEN WithoutPosition(c, PositionOf(c, k)) ELSE c

-----------------------------------------------------------------------------
(* What its users rely on. *)

(* The budget is respected. *)
WithinBudget(c, slots) == slots > 0 => Len(c) <= slots

(* One entry per key, each holding the bundle of the expert it is filed    *)
(* under.                                                                   *)
Coherent(c) ==
  /\ \A i \in DOMAIN c : c[i].val = c[i].key
  /\ \A i, j \in DOMAIN c : c[i].key = c[j].key => i = j

=============================================================================
