----------------------------- MODULE ExpertCache -----------------------------
(***************************************************************************)
(* How one streaming MoE layer finds the weights of its experts            *)
(* (streaming/layer.py: _get_bundles, prefetch, the hot pins and the hot   *)
(* prefill stack; streaming/cache.py: PrefetchBuffer).                     *)
(*                                                                         *)
(* The main thread runs the forwards, submits prefetches and rebuilds the  *)
(* hot stack; the threads of the prefetch pool build bundles and file them *)
(* in the prefetch buffer from a done callback.  _lock protects the pins,  *)
(* the table of futures and the buffer, but not the three attributes of    *)
(* the hot stack, which _build reads on every thread.                      *)
(*                                                                         *)
(* A bundle is the id of the expert whose rows it holds.  The shared LRU   *)
(* is used by this layer only: its own evictions stand for the others'.    *)
(* Which experts are hot depends on decayed counts; any choice of HotKeys  *)
(* may come out.                                                            *)
(***************************************************************************)
EXTENDS Integers, FiniteSets, SharedExpertCache, SequencesExt

CONSTANTS Experts,         \* expert ids
          CallSets,        \* expert sets a call can ask for
          LruSlots,        \* SharedExpertCache.slots
          BufferCap,       \* PrefetchBuffer.cap
          Options,         \* [pins, hot]: hot_per_layer, hot prefill on
          HotCount,        \* n_hot
          HotKeys,         \* hot lists the counts can give
          PrefetchThreads, \* workers of the prefetch pool
          FutureIds        \* bound on the futures alive at a time

ASSUME CacheAssumption ==
  /\ Experts \subseteq Nat /\ IsFiniteSet(Experts)
  /\ LruSlots \in Nat /\ BufferCap \in Nat
  /\ CallSets \subseteq SUBSET Experts /\ {} \notin CallSets
  /\ Options \subseteq [pins : Nat, hot : BOOLEAN] /\ HotCount \in Nat \ {0}
  /\ HotKeys \subseteq Seq(Experts) /\ PrefetchThreads \in Nat \ {0}
ASSUME FutureAssumption ==
  FutureIds \subseteq Nat \ {0} /\ IsFiniteSet(FutureIds)

None == -1     \* no bundle, no future, an attribute that is None
ZeroRow == -2  \* the overflow row behind the hot stack

VARIABLES
  opts,     \* the layer's options, fixed when it is built
  pinned,   \* _pinned: [Experts -> bundle or None]
  lru, buf, \* the shared LRU and the prefetch buffer
  inflight, \* _inflight: [Experts -> future or None]
  futs,     \* the futures, by id
  queue,    \* futures the pool has not started
  backing,  \* _hot_backing: the stacked rows, zero row last; <<>> for None
  key,      \* _hot_key; <<>> for None
  hotset,   \* _hot_set; {} for None
  window,   \* _hot_weights: the rows on the GPU; <<>> for None
  pc,       \* where the main thread is
  want,     \* experts the forward asked for
  got,      \* bundles: [Experts -> bundle or None]
  todo,     \* experts the current phase has still to look at
  missing,  \* experts the current phase could not resolve
  cur,      \* expert being resolved
  fut,      \* future being waited for
  val,      \* its bundle, or the one popped from the buffer
  attach,   \* futures whose callback is still to be registered
  newkey,   \* hot list being installed
  closed,   \* close() has shut the pools down
  tainted   \* history: experts with a bundle read across a rebuild

stores == <<opts, pinned, lru, buf>>
pool == <<inflight, futs, queue, attach>>
hot == <<backing, key, hotset, window>>
call == <<want, got, todo, missing, cur, fut, val>>
vars == <<stores, pool, hot, pc, call, newkey, closed, tainted>>

NoBundles == [e \in Experts |-> None]
FreeFuture == [exp |-> None, st |-> "free", val |-> None, idx |-> 0,
               rows |-> <<>>, cb |-> "none", torn |-> FALSE]
Least(S) == CHOOSE e \in S : \A d \in S : e <= d

(* The members of S in ascending order. *)
Ascending(S) ==
  CHOOSE s \in [1..Cardinality(S) -> S] :
    \A i, j \in 1..Cardinality(S) : i < j => s[i] < s[j]

Init ==
  /\ opts \in Options
  /\ pinned = NoBundles /\ lru = <<>> /\ buf = <<>>
  /\ inflight = [e \in Experts |-> None]
  /\ futs = [f \in FutureIds |-> FreeFuture] /\ queue = <<>> /\ attach = {}
  /\ backing = <<>> /\ key = <<>> /\ hotset = {} /\ window = <<>>
  /\ pc = "idle" /\ newkey = <<>> /\ closed = FALSE /\ tainted = {}
  /\ want = {} /\ got = NoBundles /\ todo = {} /\ missing = {}
  /\ cur = None /\ fut = None /\ val = None

-----------------------------------------------------------------------------
(* _build as the main thread sees it: the hot stack cannot change under    *)
(* it.  A hot expert is sliced from the stack, any other read from disk.   *)
Build(e) == IF backing # <<>> /\ e \in hotset
            THEN backing[CHOOSE i \in DOMAIN key : key[i] = e] ELSE e

(* A call is over: it returned or raised. *)
Leave ==
  /\ pc' = "idle" /\ want' = {} /\ got' = NoBundles /\ todo' = {}
  /\ missing' = {} /\ cur' = None /\ fut' = None /\ val' = None

-----------------------------------------------------------------------------
(* _get_bundles.                                                            *)

Lookup(e) == IF pinned[e] # None THEN pinned[e]
             ELSE IF e \in CachedKeys(lru) THEN CachePeek(lru, e) ELSE None

(* The LRU after a hit on each expert of S, in ascending order. *)
Touched(S) == FoldLeft(CacheGet, lru, Ascending(S))

(* The pins under _lock, then the LRU: no other thread changes either. *)
GetBundles(S) ==
  /\ pc = "idle" /\ ~closed
  /\ want' = S
  /\ got' = [e \in Experts |-> IF e \in S THEN Lookup(e) ELSE None]
  /\ lru' = Touched({e \in S : pinned[e] = None})
  /\ todo' = {e \in S : Lookup(e) = None}
  /\ pc' = "buffer"
  /\ UNCHANGED <<opts, pinned, buf, pool, hot, missing, cur, fut, val, newkey,
                 closed, tainted>>

(* Phase over: what is still missing goes to the next one. *)
NextPhase(from, to) ==
  /\ pc = from /\ todo = {}
  /\ todo' = missing /\ missing' = {} /\ pc' = to
  /\ UNCHANGED <<stores, pool, hot, want, got, cur, fut, val, newkey, closed,
                 tainted>>

(* One expert is popped from the prefetch buffer. *)
BufferPop ==
  /\ pc = "buffer" /\ todo # {}
  /\ LET e == Least(todo)
     IN  IF e \in CachedKeys(buf)
         THEN /\ val' = CachePeek(buf, e) /\ buf' = CachePop(buf, e)
              /\ cur' = e /\ pc' = "putBuffer"
              /\ UNCHANGED <<todo, missing>>
         ELSE /\ todo' = todo \ {e} /\ missing' = missing \cup {e}
              /\ UNCHANGED <<val, buf, cur, pc>>
  /\ UNCHANGED <<opts, pinned, lru, pool, hot, want, got, fut, newkey, closed,
                 tainted>>

(* The bundle found is put into the LRU, after the lock is released. *)
Promote(from, to) ==
  /\ pc = from
  /\ lru' = CachePut(lru, cur, val, LruSlots)
  /\ got' = [got EXCEPT ![cur] = val]
  /\ todo' = todo \ {cur} /\ cur' = None /\ val' = None /\ fut' = None
  /\ pc' = to
  /\ UNCHANGED <<opts, pinned, buf, pool, hot, want, missing, newkey, closed,
                 tainted>>

(* One expert is looked up among the futures. *)
InflightGet ==
  /\ pc = "inflight" /\ todo # {}
  /\ LET e == Least(todo)
     IN  IF inflight[e] # None
         THEN /\ fut' = inflight[e] /\ cur' = e /\ pc' = "result"
              /\ UNCHANGED <<todo, missing>>
         ELSE /\ todo' = todo \ {e} /\ missing' = missing \cup {e}
              /\ UNCHANGED <<fut, cur, pc>>
  /\ UNCHANGED <<stores, pool, hot, want, got, val, newkey, closed, tainted>>

(* fut.result(): blocks, and raises what the build raised. *)
InflightResult ==
  /\ pc = "result"
  /\ \/ /\ futs[fut].st = "failed" /\ Leave
     \/ /\ futs[fut].st = "done"
        /\ val' = futs[fut].val /\ pc' = "pop"
        /\ UNCHANGED <<want, got, todo, missing, cur, fut>>
  /\ UNCHANGED <<stores, pool, hot, newkey, closed, tainted>>

(* The entry of the expert is removed, whichever future it holds. *)
InflightPop ==
  /\ pc = "pop"
  /\ inflight' = [inflight EXCEPT ![cur] = None]
  /\ pc' = "putInflight"
  /\ UNCHANGED <<stores, futs, queue, attach, hot, call, newkey, closed,
                 tainted>>

(* The rest is built on the load pool while the main thread waits, and put *)
(* into the LRU under one hold of the lock; or a build raises.             *)
BuildMissing ==
  /\ pc = "build" /\ todo # {}
  /\ \/ /\ lru' = FoldLeft(LAMBDA c, e : CachePut(c, e, Build(e), LruSlots),
                           lru, Ascending(todo))
        /\ got' = [e \in Experts |-> IF e \in todo THEN Build(e) ELSE got[e]]
        /\ todo' = {} /\ pc' = "serve"
        /\ UNCHANGED <<want, missing, cur, fut, val>>
     \/ Leave /\ UNCHANGED lru
  /\ UNCHANGED <<opts, pinned, buf, pool, hot, newkey, closed, tainted>>

(* The forward stacks the bundles and returns. *)
Serve ==
  /\ pc = "serve" /\ Leave
  /\ UNCHANGED <<stores, pool, hot, newkey, closed, tainted>>

-----------------------------------------------------------------------------
(* Prefetching.                                                             *)

Wanted(S) == {e \in S : /\ pinned[e] = None /\ inflight[e] = None
                        /\ e \notin CachedKeys(lru) \cup CachedKeys(buf)}
Idle(f) == futs[f].st = "free" \/ futs[f].cb = "ran"

(* prefetch (also prefetch_from_prefill and the history prefetch): the     *)
(* futures are submitted under _lock, their callbacks come afterwards.     *)
Prefetch(S) ==
  /\ pc = "idle" /\ ~closed
  /\ \E ids \in SUBSET {f \in FutureIds : Idle(f)} :
       LET es == Ascending(Wanted(S))
           fs == Ascending(ids)
       IN  /\ Len(fs) = Len(es) /\ es # <<>>
           /\ futs' = [f \in FutureIds |->
                         IF f \in ids
                         THEN [FreeFuture EXCEPT !.st = "queued",
                                 !.exp = es[CHOOSE i \in DOMAIN fs :
                                              fs[i] = f]]
                         ELSE futs[f]]
           /\ inflight' = [e \in Experts |->
                IF \E i \in DOMAIN es : es[i] = e
                THEN fs[CHOOSE i \in DOMAIN es : es[i] = e] ELSE inflight[e]]
           /\ queue' = queue \o fs /\ attach' = ids
  /\ pc' = "attach"
  /\ UNCHANGED <<stores, hot, call, newkey, closed, tainted>>

Finished(f) == futs[f].st \in {"done", "failed"}

(* A future is forgotten once its callback has run and nobody waits for it *)
Released(g) ==
  [f \in FutureIds |-> IF g[f].cb = "ran" /\ f # fut' THEN FreeFuture
                       ELSE g[f]]

(* Mutant: the callback of a future leaves its entry behind. *)
OnPrefetchDoneKeeps(f) ==
  LET e == futs[f].exp
  IN  /\ inflight' = inflight
      /\ buf' = IF futs[f].st = "done" /\ e \notin CachedKeys(lru)
                THEN CachePut(buf, e, futs[f].val, BufferCap) ELSE buf

(* _on_prefetch_done, under _lock: the entry of the expert goes, whichever *)
(* future it holds; the bundle goes into the buffer unless the LRU has it. *)
OnPrefetchDone(f) ==
  LET e == futs[f].exp
  IN  /\ inflight' = [inflight EXCEPT ![e] = None]
      /\ buf' = IF futs[f].st = "done" /\ e \notin CachedKeys(lru)
                THEN CachePut(buf, e, futs[f].val, BufferCap) ELSE buf

(* Mutant: callbacks are registered under _lock, which the callback of a   *)
(* finished future then waits for.                                          *)
AttachCallbackLocked(f) ==
  /\ pc = "attach" /\ f \in attach /\ f = Least(attach) /\ ~Finished(f)
  /\ attach' = attach \ {f}
  /\ futs' = [futs EXCEPT ![f].cb = "attached"]
  /\ pc' = IF attach = {f} THEN "idle" ELSE "attach"
  /\ UNCHANGED <<stores, inflight, queue, hot, call, newkey, closed, tainted>>

(* add_done_callback: a finished future runs the callback here and now. *)
AttachCallback(f) ==
  /\ pc = "attach" /\ f \in attach /\ f = Least(attach)
  /\ attach' = attach \ {f}
  /\ fut' = fut
  /\ IF Finished(f)
     THEN OnPrefetchDone(f)
          /\ futs' = Released([futs EXCEPT ![f].cb = "ran"])
     ELSE futs' = [futs EXCEPT ![f].cb = "attached"]
          /\ UNCHANGED <<inflight, buf>>
  /\ pc' = IF attach = {f} THEN "idle" ELSE "attach"
  /\ UNCHANGED <<opts, pinned, lru, queue, hot, want, got, todo, missing, cur,
                 val,
                 newkey, closed, tainted>>

Building == {"check", "index", "stack", "slice"}

(* A pool thread takes the oldest future. *)
PoolStart ==
  /\ queue # <<>>
  /\ Cardinality({f \in FutureIds : futs[f].st \in Building})
       < PrefetchThreads
  /\ futs' = [futs EXCEPT ![Head(queue)].st = "check"]
  /\ queue' = Tail(queue)
  /\ UNCHANGED <<stores, inflight, attach, hot, pc, call, newkey, closed,
                 tainted>>

Finish(f, b) ==
  futs' = [futs EXCEPT ![f].st = IF b = None THEN "failed" ELSE "done",
                       ![f].val = b, ![f].idx = 0, ![f].rows = <<>>]

(* _build on a pool thread, one step per read of a shared attribute.  The  *)
(* membership test raises on a _hot_set that is still None; a read from    *)
(* disk may raise.                                                          *)
BuildCheck(f) ==
  /\ futs[f].st = "check"
  /\ IF backing # <<>> /\ hotset = {} THEN Finish(f, None)
     ELSE IF backing # <<>> /\ futs[f].exp \in hotset
     THEN futs' = [futs EXCEPT ![f].st = "index",
                               ![f].torn = @ \/ pc \in {"hotKey", "hotSet"}]
     ELSE \E b \in {futs[f].exp, None} : Finish(f, b)
  /\ UNCHANGED <<stores, inflight, queue, attach, hot, pc, call, newkey,
                 closed, tainted>>

(* _hot_key.index: raises when the key no longer has the expert. *)
BuildIndex(f) ==
  /\ futs[f].st = "index"
  /\ IF \E i \in DOMAIN key : key[i] = futs[f].exp
     THEN futs' = [futs EXCEPT ![f].st = "stack",
                     ![f].idx = CHOOSE i \in DOMAIN key :
                                  key[i] = futs[f].exp]
     ELSE Finish(f, None)
  /\ UNCHANGED <<stores, inflight, queue, attach, hot, pc, call, newkey,
                 closed, tainted>>

(* _hot_backing.items() ... *)
BuildStack(f) ==
  /\ futs[f].st = "stack"
  /\ futs' = [futs EXCEPT ![f].st = "slice", ![f].rows = backing]
  /\ UNCHANGED <<stores, inflight, queue, attach, hot, pc, call, newkey,
                 closed, tainted>>

(* ... and the row size from the length of the key: the wrong length, or   *)
(* an index past the end, gives a slice that cannot be reshaped.           *)
BuildSlice(f) ==
  /\ futs[f].st = "slice"
  /\ LET b == IF /\ Len(futs[f].rows) = Len(key) + 1
                 /\ futs[f].idx \in DOMAIN futs[f].rows
              THEN futs[f].rows[futs[f].idx] ELSE None
     IN  /\ Finish(f, b)
         /\ tainted' = IF futs[f].torn /\ b \notin {futs[f].exp, None}
                       THEN tainted \cup {futs[f].exp} ELSE tainted
  /\ UNCHANGED <<stores, inflight, queue, attach, hot, pc, call, newkey,
                 closed>>

(* A pool thread runs the callback of the future it finished. *)
PoolCallback(f) ==
  /\ Finished(f) /\ futs[f].cb = "attached"
  /\ fut' = fut /\ OnPrefetchDone(f)
  /\ futs' = Released([futs EXCEPT ![f].cb = "ran"])
  /\ UNCHANGED <<opts, pinned, lru, queue, attach, hot, pc, want, got, todo,
                 missing, cur, val, newkey, closed, tainted>>

-----------------------------------------------------------------------------
(* Pins and the hot stack, on the main thread.                              *)

(* _refresh_hot_pins, under _lock: the new pins are taken out of the LRU,  *)
(* kept, or built.  A build that raises leaves the experts after it        *)
(* unpinned and those that are no longer hot dropped.                      *)
RefreshHotPins(target) ==
  /\ pc = "idle" /\ ~closed
  /\ opts.pins > 0 /\ Cardinality(target) <= opts.pins
  /\ \E done \in SUBSET target :
       /\ done # target => \E d \in target \ done : Lookup(d) = None
       /\ pinned' = [e \in Experts |->
            IF e \in done
            THEN IF e \in CachedKeys(lru) THEN CachePeek(lru, e)
                 ELSE IF pinned[e] # None THEN pinned[e] ELSE Build(e)
            ELSE IF e \in target THEN pinned[e] ELSE None]
       /\ lru' = FoldLeft(CachePop, lru, Ascending(done))
  /\ UNCHANGED <<opts, buf, pool, hot, pc, call, newkey, closed, tainted>>

(* load_hot_layer: the stack is rebuilt when there is none or more than an *)
(* eighth of it changed.  The three attributes are set one by one.         *)
Changed(k) == Cardinality({i \in DOMAIN k : k[i] \notin ToSet(key)})
LoadHotLayer(k) ==
  /\ pc = "idle" /\ ~closed /\ opts.hot
  /\ backing # <<>> => Changed(k) > IF HotCount < 16 THEN 1
                                    ELSE HotCount \div 8
  /\ newkey' = k
  /\ backing' = k \o <<ZeroRow>>
  /\ futs' = [f \in FutureIds |->
                [futs[f] EXCEPT !.torn = @ \/ futs[f].st \in Building \
                                                {"check"}]]
  /\ pc' = "hotKey"
  /\ UNCHANGED <<stores, inflight, queue, attach, key, hotset, window, call,
                 closed, tainted>>

SetHotKey ==
  /\ pc = "hotKey" /\ key' = newkey /\ pc' = "hotSet"
  /\ UNCHANGED <<stores, pool, backing, hotset, window, call, newkey, closed,
                 tainted>>

(* Mutant: the rows on the GPU outlive the stack they were made from. *)
SetHotSetKeepsWindow ==
  /\ pc = "hotSet" /\ hotset' = ToSet(newkey)
  /\ newkey' = <<>> /\ pc' = "idle"
  /\ UNCHANGED <<stores, pool, backing, key, window, call, closed, tainted>>

SetHotSet ==
  /\ pc = "hotSet" /\ hotset' = ToSet(newkey) /\ window' = <<>>
  /\ newkey' = <<>> /\ pc' = "idle"
  /\ UNCHANGED <<stores, pool, backing, key, call, closed, tainted>>

(* materialize_hot and dematerialize_hot. *)
MaterializeHot ==
  /\ pc = "idle" /\ ~closed /\ window = <<>> /\ backing # <<>>
  /\ window' = backing
  /\ UNCHANGED <<stores, pool, backing, key, hotset, pc, call, newkey, closed,
                 tainted>>

DematerializeHot ==
  /\ pc = "idle" /\ ~closed /\ window # <<>> /\ window' = <<>>
  /\ UNCHANGED <<stores, pool, backing, key, hotset, pc, call, newkey, closed,
                 tainted>>

(* A gather past the end of the window reads no row. *)
WindowRow(i) == IF i \in DOMAIN window THEN window[i] ELSE None

(* The hot prefill forward: a hot expert reads its row of the window, a    *)
(* miss reads the zero row and its own bundle is added.                    *)
HotPrefill(S) ==
  /\ pc = "idle" /\ ~closed /\ window # <<>>
  /\ want' = S /\ pc' = "serve"
  /\ got' = [e \in Experts |->
               IF e \notin S THEN None
               ELSE IF e \in ToSet(key)
               THEN WindowRow(CHOOSE i \in DOMAIN key : key[i] = e)
               ELSE IF WindowRow(Len(key) + 1) = ZeroRow THEN Build(e)
               ELSE None]
  /\ UNCHANGED <<stores, pool, hot, todo, missing, cur, fut, val, newkey,
                 closed, tainted>>

(* Mutant: what the pool has not started is forgotten, not cancelled. *)
CloseForgets ==
  /\ pc = "idle" /\ ~closed /\ closed' = TRUE
  /\ queue' = <<>>
  /\ UNCHANGED <<stores, inflight, futs, attach, hot, pc, call, newkey,
                 tainted>>

(* close(): the futures not yet started are cancelled; their callbacks see *)
(* the cancellation as a failure.  The engine makes no call afterwards.    *)
Close ==
  /\ pc = "idle" /\ ~closed /\ closed' = TRUE
  /\ queue' = <<>>
  /\ futs' = [f \in FutureIds |->
                IF f \in ToSet(queue) THEN [futs[f] EXCEPT !.st = "failed"]
                ELSE futs[f]]
  /\ UNCHANGED <<stores, inflight, attach, hot, pc, call, newkey, tainted>>

-----------------------------------------------------------------------------
MainStep ==
  \/ NextPhase("buffer", "inflight") \/ BufferPop
  \/ Promote("putBuffer", "buffer")
  \/ InflightGet \/ InflightResult \/ InflightPop
  \/ Promote("putInflight", "inflight")
  \/ NextPhase("inflight", "build")
  \/ BuildMissing
  \/ pc = "build" /\ todo = {} /\ pc' = "serve"
     /\ UNCHANGED <<stores, pool, hot, call, newkey, closed, tainted>>
  \/ Serve
  \/ \E f \in FutureIds : AttachCallback(f)
  \/ SetHotKey \/ SetHotSet

BuildStep(f) == BuildCheck(f) \/ BuildIndex(f) \/ BuildStack(f)
                \/ BuildSlice(f)
PoolStep == \/ PoolStart
            \/ \E f \in FutureIds : BuildStep(f) \/ PoolCallback(f)

EngineCall ==
  \/ \E S \in CallSets : GetBundles(S) \/ Prefetch(S) \/ HotPrefill(S)
  \/ \E S \in SUBSET Experts : RefreshHotPins(S)
  \/ \E k \in HotKeys : LoadHotLayer(k)
  \/ MaterializeHot \/ DematerializeHot \/ Close

Next == EngineCall \/ MainStep \/ PoolStep

(* The main thread and every pool thread keep running; the engine need not *)
(* make a further call.                                                     *)
Fairness == /\ WF_vars(MainStep) /\ WF_vars(PoolStart)
            /\ \A f \in FutureIds : WF_vars(BuildStep(f))
                                    /\ WF_vars(PoolCallback(f))
Spec == Init /\ [][Next]_vars /\ Fairness

-----------------------------------------------------------------------------
(* Correctness.                                                             *)

Rows == Experts \cup {ZeroRow}
Bundle == Rows \cup {None}
Entries == [key : Experts, val : Rows]
FutureType == [exp : Experts \cup {None}, val : Bundle, idx : Nat,
               rows : Seq(Rows), torn : BOOLEAN,
               st : {"free", "queued", "done", "failed"} \cup Building,
               cb : {"none", "attached", "ran"}]
Places == {"idle", "buffer", "putBuffer", "inflight", "result", "pop",
           "putInflight", "build", "serve", "attach", "hotKey", "hotSet"}

TypeOK ==
  /\ opts \in Options /\ pinned \in [Experts -> Bundle]
  /\ Cardinality({e \in Experts : pinned[e] # None}) <= opts.pins
  /\ lru \in Seq(Entries) /\ WithinBudget(lru, LruSlots)
  /\ buf \in Seq(Entries) /\ WithinBudget(buf, BufferCap)
  /\ inflight \in [Experts -> FutureIds \cup {None}]
  /\ futs \in [FutureIds -> FutureType] /\ queue \in Seq(FutureIds)
  /\ attach \in SUBSET FutureIds
  /\ backing \in Seq(Rows) /\ key \in Seq(Experts)
  /\ hotset \in SUBSET Experts /\ window \in Seq(Rows)
  /\ pc \in Places /\ newkey \in Seq(Experts) /\ closed \in BOOLEAN
  /\ want \in SUBSET Experts /\ todo \in SUBSET want
  /\ missing \in SUBSET want /\ got \in [Experts -> Bundle]
  /\ cur \in Experts \cup {None} /\ fut \in FutureIds \cup {None}
  /\ val \in Bundle /\ tainted \in SUBSET Experts

(* A forward that returns has a bundle for every expert it asked for, and  *)
(* every bundle anywhere (answered, pinned, cached, buffered, on the GPU)  *)
(* is the expert's own.  The one exception is a prefetch whose build read  *)
(* the hot stack while load_hot_layer was replacing it.                    *)
OwnBundle ==
  /\ pc = "serve" => \A e \in want : got[e] # None
  /\ \A e \in Experts \ tainted :
       /\ got[e] \in {e, None} /\ pinned[e] \in {e, None}
       /\ \A c \in {lru, buf} : e \in CachedKeys(c) => CachePeek(c, e) = e
       /\ \A f \in FutureIds : futs[f].exp = e => futs[f].val \in {e, None}

(* A future stays registered only as long as its callback is still to run, *)
(* so the expert does not stay blocked for prefetching, and every future   *)
(* of the pool will be told.                                                *)
NoOrphanPrefetch ==
  /\ \A e \in Experts : inflight[e] # None =>
       futs[inflight[e]].exp = e /\ futs[inflight[e]].cb # "ran"
  /\ \A f \in FutureIds : futs[f].st # "free" /\ futs[f].cb = "none"
                            => f \in attach

(* Every forward returns or raises, whatever the pool is doing.            *)
ForwardReturns == pc # "idle" ~> pc = "idle"

(* Every prefetch settles: its expert becomes available again.             *)
PrefetchSettles ==
  \A f \in FutureIds :
    futs[f].st = "queued" ~> futs[f].st = "free" \/ futs[f].cb = "ran"

=============================================================================
