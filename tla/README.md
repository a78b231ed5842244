# Edge0: TLA+ models, model checking and proofs

Edge0 runs mixture-of-experts language models on devices whose memory cannot
hold all experts. The weights of the experts are streamed from disk; while one
token is computed, a *prerouter* predicts which experts the next token will
need, and those are *staged* into a small stack of resident weight rows. An
OpenAI-style chat server serves the engine. A macOS daemon (`edge0d`), a
downloader (`edge0-pull`), and iOS, Android, macOS and Windows applications
surround it.

A mistake in staging does not crash: a wrong row is multiplied, an expert
contributes zero, or a feature of an earlier request routes a token, and the
model only answers a little worse. Tests compare a few decode traces; the
models below explore every short history of the same operations, and the
proofs cover the incremental stack, the asynchronous fills, prefetching, both
engine pipelines, the chat server, the backbones and sampling for any number of
layers, experts, threads, requests and tokens.

## Inventory

Paths are relative to `src/`.

| Component | State | Operations | Modelled |
|---|---|---|---|
| Shared expert LRU, `python/src/edge0/streaming/cache.py` | ordered map (layer, expert) -> bundle, budget | `get`, `peek`, `put`, `pop` | `SharedExpertCache` |
| Incremental staged stack, `streaming/layer.py` | persistent rows, slot table, occupancy, bundles, next/active set, pending indices | `stage_experts`/`_stage_incr`, `__call__`, `sync_actuals`, `swap_staged`, `reset` | `IncrStack`, `StagedView` |
| Asynchronous staged fills, `streaming/layer.py` with `staged_sync = False` | next/active set, one future, one pending request, rearm slot, `_staging_lock` | `stage_experts`, `_submit_stage_locked`, `_on_stage_done`, `_drain_rearm`, `wait_staged`, `swap_staged`, `reset` | `AsyncStaging` |
| Cross-token prerouter, `prerouter/*.py` | captured features, one-token-old features, predictions | capture in the patched block, `stage_all`, `swap`, `reset` | `PrerouterPipeline` |
| Engine loop and edge0-35b engine, `engine/base.py`, `engine/qwen.py` | position, per-layer staged and history state | `prefill`, `step`, `generate`, `reset` and their hooks | `PrerouterPipeline` |
| Chat server, `server/app.py`, `server/chat.py` | one lock, one engine, an event queue per stream | chat, stream producer, handler, error and disconnect paths | `ChatServer` |
| Expert prefetch and pins, `streaming/layer.py` | prefetch buffer, in-flight futures, pinned bundles | `prefetch`, `_on_prefetch_done`, `_get_bundles`, `_refresh_hot_pins`, `close` | `ExpertCache` |
| Whole-layer and hot-stack prefill, `streaming/layer.py`, `engine/hooks.py` | resident prefill stacks, hot backing, sliding window | `load_full_layer`, `load_hot_layer`, `materialize_hot`, `make_prefill_before_layer` | `ExpertCache` (hot stack), `LingPipeline` (whole layers); the hot window over several layers is left out |
| edge0-8b engine, `engine/ling.py`, `moe/routing.py` | features in the blocks, cached head logits, staged and history sets | as edge0-35b, other shifts, prewarm | `Routing`, `LingPipeline` |
| Backbones, `backends/mlx/_impl/*.py` | key/value caches, convolution windows, recurrent states | forward of a chunk, layer by layer; hidden clip; cache reset | `Backbone` |
| Sampling, `sampling.py` | token history | penalty, top-k, top-p, greedy | `Sampling` |
| Replies and tool calls, `server/app.py`, `server/chat.py`, `server/tool_calls.py` | the generated text | validation, think split, tool-call parsing, plain and streamed reply | `ToolCalls`, `ChatReply` |
| Weight repackers, `ios/tools/repack_experts.py`, `windows/tools/repack_mlx_to_gguf.py` | files of the output directory | `pack`, `verify`, `resident`; register, header, data, audit | `ByteLayout`, `ExpertRepack`, `GgufRepack` |
| Worker pool, `macos/crates/edge0d/src/workers.rs` | workers by tier, streams, active counts, keep-alive deadlines | `ensure_loaded`, `begin`, `finish`, `handle_worker_dead`, `terminate`, maintenance | planned |
| Downloader, `macos/crates/edge0-pull` | job state, `.part` files, registry | plan, fetch, verify, stage, commit, resume | planned |
| iOS engine, `ios/Sources/Edge0MLX` | a second streaming engine, prefix cache | - | later |
| Weight loading, registry, configuration, LoRA, other converters, desktop and phone user interfaces | - | - | no: I/O, tensor arithmetic, or no protocol state |

### How the parts interact

- A request thread of the server takes `QueueServer._lock`, resets the engine
  and runs `generate`. Streaming requests do this on a producer thread and
  talk to their handler thread through a queue ended by a sentinel.
- `generate` runs `prefill` and then `step` per token. Within a forward each
  block captures features and its streaming layer looks up, or waits for, its
  staged set. At the end of the forward `stage_all` runs all prerouter heads
  and calls `stage_experts` on the layers they predict for.
- `stage_experts` resolves experts from the LRU shared by all layers, or from
  disk, and writes them in place into the rows the next forward gathers. With
  asynchronous staging the resolution runs on a thread pool and is published
  by a future's callback.
- A forward that is not served by staged slots asks `_get_bundles`, which looks
  among pins, LRU, prefetch buffer and in-flight prefetches, under separate
  holds of one lock, and builds the rest itself; pool threads build the
  prefetched ones and file them from a future's callback.
- The text of a generation goes through the think split and the tool-call
  parser, once for a plain reply and, if tools are offered, once at the end of
  a stream.
- The repackers turn a checkpoint into the files of the iOS and the Windows
  engine; nothing later compares these files with the checkpoint again.
- `edge0d` starts engine processes and multiplexes streams over their sockets;
  `edge0-pull` fills the model directory they load.

### What is hard, and what makes each part correct

- *Incremental stack*: slots are sticky, so what a row holds depends on the
  whole history of stagings. A forward must read a staged expert's own weights
  and zeros for every other expert; a staging must always find a slot; the LRU
  must stay within budget and file each bundle under its own key.
- *Asynchronous fills*: submissions from several threads, callbacks on whatever
  thread finishes, a lock that is not reentrant. Fills must not overlap, get
  lost, or be published out of order, and no entry point may hang.
- *Prerouter pipeline*: two shifts (next layer, next token) and a reset in
  between. A layer's slots must be its routing set, and a prediction must come
  from the previous token of the same request.
- *Chat server*: threads, errors and clients that leave. Requests must not mix
  on the engine, every request must end, and a stream must add up to the
  decoded text without ever showing half a character.
- *Prefetch*: check-then-act across lock holds, callbacks that find another
  future under their expert's name, a hot stack replaced while it is read. A
  forward must return, with its own experts' weights.
- *edge0-8b*: the selection law exists in three copies and features are
  captured on every forward. The copies must agree, and a prediction must use
  tokens of the right age.
- *Backbones*: position p must be computed from positions 0..p however the
  prompt was cut; the loop must sample from fresh, finite logits.
- *Replies*: no text may vanish between model and client, and a stream must
  say what the plain reply says.
- *Repackers*: interruptions, reruns over old files, offsets fixed before the
  data is written.
- *Worker pool, downloader*: objects found by name after they were replaced,
  crashes between steps.

`PROJECT.json` lists each hazard at its line, with the property that covers it
or the reason why none does.

## Modules

`SharedExpertCache` - the LRU as pure operators on a sequence of key/value
entries, oldest first. `IncrStack` puts them together; there is no action of
its own since the cache is only ever called with the layer's own operation.

`StagedView` - the abstract specification. Each layer has a resident set and a
view (expert -> its weights, or zeros), and `Restage` replaces both at once.

`IncrStack` - the production configuration (`staged_sync`, `incr_stack`), both
with and without write-back. `rows`, `table`, `occ` and `held` are
`_incr_tensors`, `_incr_slot_table`, `_incr_occupancy` and `_incr_bundles`;
`nxt` and `active` are the two staged states. A staging is one action per
expert: `StageExperts` frees slots and computes the changed experts,
`ResolveHit`/`ResolveBuild` give each a slot, `WriteBackOne` returns evicted
bundles to the LRU, `CommitStage` writes rows and table and publishes.
`BuildFails` lets a read raise in the middle (`FaultSpec` only). The forward is
`Call` (staged or exact path, the latter with `ExactLookup` and `ExactBuild`
per expert) and `PrefillCall`; `SyncActuals`, `SwapStaged` and `Reset` are the
rest. An expert's tensors are the pair `<<layer, expert>>`, so a wrong row or a
row of another layer is visible. The order in which evicted experts are written
back is a dictionary's order in the code and arbitrary in the model.

`AsyncStaging` - the same interface with `staged_sync = False`. The n-th call
asks for set n; sets, futures and results are that number. Actions are the
steps between which another thread can run. The steps around
`_submit_stage_locked` are separate although the lock is held, because the
submitted fill runs without the lock: `CheckDone` is `fut.done()`,
`AddDoneCallback` the registration, which runs the callback on the spot if the
future has finished meanwhile. `FinishFill` wakes waiters before the callback
runs, as `concurrent.futures` does. Fills may fail. How a fill resolves its
bundles is `IncrStack`'s subject and left out here.

`PrerouterPipeline` - the engine thread of edge0-35b: requests, prefill chunks,
single-token forwards layer by layer, `stage_all`, `_prefill_end`, `_step_pre`,
`_step_post`, and the end of a request at any point (EOS, cap or exception). A
token is `<<request, position>>`, a feature the token it was captured on, a
prediction an expert set with the tokens of its features. Router and head
results are arbitrary members of `Routes`. A layer's staging is one step here;
that this is sound is what `ImplementsStagedView` says of `IncrStack`.

`ChatServer` - request arrival, the lock, generation, the event queue, the
handler's drain loop, errors of the engine or while the reply is decoded and
parsed (`Raise`), and disconnects. A token is a whole
character or half of a two-byte one, `Decoded` is the byte-level decoder with
U+FFFD for fragments, and `IncrementalSuffix` and `FlushTail` are
`_incremental_suffix` and the producer's last flush. Events for a client that
has gone are not kept, since nobody reads that queue again.

`ExpertCache` - one streaming layer's search for bundles, the thread pool, the
prefetch buffer and the hot prefill stack. `_get_bundles` is one action per
lock hold (`GetBundles`, `BufferPop`, `InflightGet`, `InflightResult`,
`InflightPop`, `BuildMissing`), `prefetch` registers futures and then attaches
the callbacks one by one (`AttachCallback`). `_build` on a pool thread reads
the three attributes of the hot stack in separate steps, and `load_hot_layer`
writes them in separate steps, since no lock protects them. A bundle is the id
of the expert whose rows it holds. `tainted` remembers experts whose build
overlapped a replacement of the hot stack.

`Routing` - the group-limited selection law, once as the gate computes it
(`BailingGate`), once as the block does from cached logits
(`SelectFromLogits`), once as the stager does (`GroupSelectFromLogits`), and
`ObeysLaw`, what all of them must satisfy. `LingPipeline` uses them in the
engine thread of edge0-8b: warm-up, prefill with whole-layer loads
(`BeforeLayer`), feature capture on every forward, `StageAll`,
`StageFromPrefill`, decode steps, and the end of a request at any point. All
combinations of prerouter, `history_slots` and whole-layer prefill are initial
states.

`Sampling` - `_mask_logits` and `sample` over integer logits in units of ln 2,
so that softmax masses are powers of two and comparisons exact; `Drawable` is
the set of tokens the settings allow, said directly. `Backbone` runs both
families' layers under `prefill` and `generate`: tensors are the positions
they were computed from, plus whether they have become NaN. `BailingKDA`,
`BailingMLA`, `GatedDeltaNet` and `QwenAttention` are the layers, `Rotary` the
offset, `ShortConvState` and `GatedDeltaConvState` the carried windows,
`Clipped` the hidden clip. The caches and masks of mlx-lm are external.

`ToolCalls` - both dialects' parsers over texts of lexemes (tags, words, white
space) with the regular expressions' leftmost and non-greedy matching, argument
coercion, and `Split` with its leftover text. `RenderLing` and `RenderQwen` are
the assistant calls of the two chat templates the repository keeps as test
fixtures, white space included: the line breaks the Ling template leaves behind
the name, between key and value and before `</tool_call>` are what the parser
has to strip and skip. `ChatReply` - a request is validated, the model writes
prose, `</think>`, calls as the template renders them (`Render`), malformed
pieces or calls without the template's white space, and the server replies
plain or as a stream.

`ExpertRepack` - the commands of the iOS tool step by step, each interruptible,
on an output directory that keeps what earlier runs left. Every checkpoint has
its own number of layers and experts, its own resident tensors and shards; as
in the code `pack` takes them from the checkpoint, `verify` from the
`experts.json` it finds, which may be of another one. A byte is named after the
checkpoint, tensor and index it comes from, and offsets are computed as in the
code. `GgufRepack` - the two passes of the GGUF tool: sizes and offsets
first, then header, chunks and padding, with the block packing, the fp16 gate
and its exemptions; fp16 is "the even integers", so a value that fp16 cannot
hold is visible. `ByteLayout` has what both compute offsets with, `WeightTools`
is the two side by side, sharing no state, so that one run checks both.

The `MC*` modules give constants their values, the `*Proofs` modules hold the
theorems. Definitions marked *Mutant* are wrong variants of the definition that
follows them and are used by no specification; each shows that the property it
belongs to notices that mistake.

## Runs

| Run | Shows | Instance |
|---|---|---|
| `incr_stack` | `StackServesStagedSet`, `FreeSlotForEveryChanged`, `LruSound`, refinement of `StagedView`, no deadlock | 1 layer, 3 experts, 2 slots, LRU of 2, both modes |
| `incr_stack_fault` | `FreeSlotForEveryChanged` is violated if a read raises | same |
| `prerouter` | `ZeroDrop`, `FreshRouting`, `SlotsFollowPrediction` | 4 layers, 2 routes, 2 requests, positions to 5, both `history_slots` |
| `async_staging` | `NoOrphanFill`, `OneFillAtATime`, `NeverOlder`, `EntriesReturn` | 2 pool threads, 3 stagings |
| `async_deadlock` | `NoSelfDeadlock` is violated | 2 pool threads, 2 stagings |
| `async_wait` | `WaitPromotes` is violated | same |
| `chat_server` | `EngineIsolation`, `NeverPartial`, `StreamEqualsText`, `EveryRequestAnswered` | 2 requests, of 3 tokens and 1 |
| `expert_cache` | `OwnBundle`, `NoOrphanPrefetch`, `ForwardReturns`, `PrefetchSettles` | 3 experts, LRU and buffer of 1, one pool thread, 2 futures; pins or hot stack |
| `ling` | `ZeroDrop`, `SelectionLaw`, `FreshRouting`, `FullStackWindow` | 4 layers, 6 experts in 2 groups, warm-up or not and one request, positions to 5; the law over all vectors of scores 0..2 |
| `backbone` | `CausalContext`, `FreshLogits`, `FiniteLogits`, `DrawnAsConfigured` | 3 layers, both families, kernels 1 and 3, prompts up to 3 (`MaxPrompt`) in chunks of 2, 2 requests, 4 sampling settings |
| `reply` | `NothingLost`, `CallsAsMeant`, `StreamAgrees` | 3 dialects, up to 3 pieces of text, typed and untyped tools |
| `weights` | `RepackSound`, `GgufSound` | 4 checkpoints of 2 or 3 layers of 1 or 2 experts, 4 commands; GGUF plans of 4- and 8-bit and plain tensors, two chunks, 4 header lengths |

Why these bounds are enough to be interesting:

- 3 experts over 2 slots is the smallest stack where an expert can leave, lose
  its slot to another and come back to a different slot, and where a set can
  ask for more experts than there are slots. The LRU of 2 evicts. One layer is
  used because layers only share the LRU; several layers are covered by the
  proofs, which bound nothing.
- With 4 layers and `Start = 1` there are two predicted layers, a first layer
  without prediction and a last one that owns no head. Position 5 allows a
  prefill of one or two chunks and steps whose prediction has a two-token
  history. Two requests show a reset after each way to end a request.
- Three stagings are needed for one fill in flight, one waiting and one
  replacing it; two pool threads for a callback that runs while the next fill
  does.
- Three fragments hold a split character between or next to others; the
  second request is there to interleave.
- Two futures suffice for an old callback to meet a newer future of the same
  expert; an LRU and a buffer of one entry evict at once, so each place an
  expert can be found in, and each way to lose it, occurs.
- Chunks of two and kernels of one and three give prompts that end within,
  at and after a chunk, and windows longer than what has been fed. In the
  selection law two groups of three with one kept group is the smallest case
  with a dropped group and a choice within the kept one.
- Three pieces allow prose, a malformed block and a call in any order. Of the
  checkpoints two have the same shape and can be mixed in one directory
  unnoticed by sizes, one has a layer less and otherwise the same sizes, and
  one has a single expert as large as two of the others, so that a file's size
  does not tell whose it is, and a layer of another size. Four commands allow
  pack, an interrupted pack of another checkpoint, and verify. `Samples`
  satisfies the relation the tool's default has to the real model
  (`SampleAssumption`).

Prompts, requests, pieces and commands are bounded, so these specifications
end; deadlock checking is switched off where they do.

Deadlock is checked for the incremental stack, which always can do something.
The other specifications end when the bound on requests or calls is reached.

### Fairness

`AsyncStaging`: weak fairness of the main thread inside an entry point and of
every pool thread: operating-system threads that can run do run. Nothing says
that the main thread calls again. `ChatServer`: weak fairness of every producer
and every handler's drain; clients need not arrive or leave. A thread waiting
for the lock is only guaranteed weakly: since finitely many requests arrive,
the lock is eventually free for good. With endless arrivals `threading.Lock`
guarantees nothing. `ExpertCache`: weak fairness of the main thread inside a
call, of the pool's worker and of every future's build and callback; the engine
need not call. The other specifications state no fairness and no liveness.

## Findings

Each is a run that violates a sentence of the source.

- `incr_stack_fault`: `_stage_incr` enters each expert in the occupancy as it
  goes and replaces the bundles only at the end. A read that raises in between
  leaves occupied slots without a bundle, and a later staging can run out of
  slots, the case the code comments as unreachable.
- `async_deadlock`: the fill can finish between `fut.done()` and
  `add_done_callback`; the callback then waits for the lock its own thread
  holds. Shipped profiles stage synchronously and do not reach it.
- `async_wait`: `wait_staged` can return before the callback has published the
  fill it waited for.

## Observations

Met while modelling, and built into the models as the code has them; where a
property excludes one of them, its definition says so.

- Write-back staging that hits the LRU leaves the entry there (`layer.py:654`),
  against the comment at `layer.py:672` that a staged bundle lives only in the
  stack: memory, not results.
- A prompt whose last chunk is one token captures features, so edge0-35b's
  first decode step is routed by a prediction, against `qwen.py:189`. Routing
  stays consistent. On edge0-8b the same prompt gives the first prediction a
  zero previous-token feature.
- Requests are served in lock order, not FIFO as `chat.py:5` says.
- `load_hot_layer` replaces `_hot_backing`, `_hot_key` and `_hot_set` without
  the lock that prefetch builds would need: a build in that moment can file
  another expert's rows, or raise. `OwnBundle` excludes exactly these builds.
- The callback of an older prefetch removes a newer future of the same expert
  from `_inflight`; the only cost is a second build.
- A failed prefetch is raised into the forward that waits for it.
- The prefill window and history prefetch of `hooks.py` end at
  `len(all_stream_layers)`, one layer short where layer 0 is dense.
- `tool_choice: "required"` without tools is parsed by the plain reply only;
  a thinking model's reasoning goes into `content` of an unbuffered stream and
  is dropped from a buffered one; of a repeated argument key the last value is
  kept; an undeclared argument that reads as JSON is not a string.
- `top_p` keeps the tokens whose cumulative mass is at most p, without the one
  that crosses it; a seed is set again for every token, so that equal logits
  draw equal tokens; the hidden clip scrubs a layer's output, not its
  recurrent state.
- `verify` checks the layers that `experts.json` counts, against the comment at
  `repack_experts.py:222` ("Every layer's file must be present and exactly the
  right size"): when `pack` of a checkpoint is interrupted over the remains of
  one with fewer layers, `experts.json` is still the old one, and `verify` of
  the new checkpoint passes with its last layers missing. `RepackSound` says of
  a passing `verify` what is true: every layer `experts.json` counts is the
  verified checkpoint's. That all layers are there it says of a `pack` that ran
  to its end.
- `pack`'s size check only notices layers sized unlike layer 0; `verify` with
  few samples (a step above the number of experts) can skip layers; `resident`
  writes the index before its read-back, and if interrupted before the index
  leaves one of another checkpoint; nothing ties the packed experts and the
  resident file to one checkpoint.
- The GGUF audit adds a chunk's first row twice to exempted rows
  (`repack_mlx_to_gguf.py:328`), so `exempt_list` is wrong past the first
  chunk; a killed run leaves the file under its final name, possibly beside an
  older GREEN audit.

## Proofs

The modules `*Proofs` and `Induction` are checked by TLAPS. `InvariantHolds`
in each of them is the inductive invariant `IInv`, from which the others
follow.

| Module | Theorem | Statement |
|---|---|---|
| `StagingProofs` | `TypeCorrect` | `Spec => []TypeOK` |
| | `ServesStagedSet` | `Spec => []StackServesStagedSet` |
| | `AlwaysFreeSlot` | `Spec => []FreeSlotForEveryChanged` |
| | `LruStaysSound` | `Spec => []LruSound` |
| | `Refinement` | `Spec => ImplementsStagedView` |
| | `AsyncTypeCorrect` | `AsyncSpec => []AsyncTypeOK` |
| | `NeverOrphaned` | `AsyncSpec => []NoOrphanFill` |
| | `FillsNeverOverlap` | `AsyncSpec => []OneFillAtATime` |
| | `ActiveSetNeverOlder` | `AsyncSpec => NeverOlder` |
| `PrerouterPipelineProofs` | `TypeCorrect` | `Spec => []TypeOK` |
| | `NothingDropped` | `Spec => []ZeroDrop` |
| | `RoutingIsFresh` | `Spec => []FreshRouting` |
| | `SlotsArePredictions` | `Spec => []SlotsFollowPrediction` |
| `LingPipelineProofs` | `TypeCorrect` | `Spec => []TypeOK` |
| | `NothingDropped` | `Spec => []ZeroDrop` |
| | `RoutingIsFresh` | `Spec => []FreshRouting` |
| | `AtMostTwoWhole` | `Spec => []FullStackWindow` |
| | `SelectionsObeyLaw` | `Spec => []SelectionLaw` |
| `ExpertCacheProofs` | `TypeCorrect` | `Spec => []TypeOK` |
| | `BundlesAreOwn` | `Spec => []OwnBundle` |
| | `PrefetchesRegistered` | `Spec => []NoOrphanPrefetch` |
| `ChatServerProofs` | `TypeCorrect` | `Spec => []TypeOK` |
| | `Isolated` | `Spec => []EngineIsolation` |
| | `NeverSendsPartial` | `Spec => []NeverPartial` |
| | `StreamIsText` | `Spec => []StreamEqualsText` |
| | `StreamsAgree` | `ReplySpec => []StreamAgrees` |
| `BackboneProofs` | `TypeCorrect` | `Spec => []TypeOK` |
| | `ContextIsCausal` | `Spec => []CausalContext` |
| | `LogitsAreFresh` | `Spec => []FreshLogits` |
| | `LogitsStayFinite` | `Spec => []FiniteLogits` |
| | `DrawsAreConfigured` | `Spec => []DrawnAsConfigured` |
| `WeightToolsProofs` | `RepackIsSound` | `Spec => []RepackSound` |
| | `GgufIsSound` | `Spec => []GgufSound` |

Hardly any of these properties is inductive by itself. Every `IInv` was checked
by TLC on the instance of its run before it was proved.

### Incremental stack

Assumed: at least one slot, finitely many experts numbered by naturals, a
natural LRU budget (0 for none), and that no expert is the "no weights" value.
`IInv` is the conjunction of:

- `TypeOK` and `LruSound`;
- `BundlesOwn`: a held bundle is the expert's own;
- `TableInv`: an expert with a bundle has a slot of its own and that row holds
  its weights, any other points at the zero row;
- `OccInv`: outside a staging of the layer the occupancy mirrors table and
  bundles, which is what makes freeing slots by occupancy correct;
- `StageInv`: during a staging, kept and newly placed experts are exactly the
  occupied slots, no slot is given twice, and what is still to be resolved has
  no slot;
- `StateInv`: a non-empty promoted set is the set the stack holds;
- `PcInv`: no call raises, and `sync_actuals` only promotes bundles it has.

The free slot is a pigeonhole argument (`FreeSlotExists`): if every slot were
occupied, the occupants together with the expert to be placed would be more
than `SlotCount` members of the staged set. `CommitEffect` is the central step
of both the invariant and the refinement: after `CommitStage` what a forward
gathers is the abstract view of the staged set. Every other action leaves
`held`, `rows` and `table` alone and so maps to a stutter.
The first section of `StagingProofs` holds the lemmas about the LRU's operators.

### Asynchronous fills

Assumed: the main thread and the free lock are no pool threads
(`ThreadNames`). `LockInv` says who may hold the lock, `JobInv` that a thread
builds or publishes only the fill in `_staging_future` and that no two do,
`FillInv` that a fill under way is watched by its callback or its submitter,
and `OneWayInv` that there is never more than one way to publish it, which is
what a callback, the rearm slot and a submitter racing each other could break.
`FreshInv` and `OrderInv` number the sets in the order shown < next < in
flight < pending < being staged; the action property follows from this order.
That `wait_staged` only waits for a future it found (`WaitInv`), part of
`AsyncTypeOK`, is inductive by itself. The self-deadlock of the finding is a
state of this specification: the proofs hold there too.

### Prefetch and pins

Assumed: finitely many experts and futures, numbered, natural budgets, and call
sets and hot lists of experts (`CacheAssumption`, `FutureAssumption`). `IInv` is
`TypeOK` and `NoOrphanPrefetch` with:

- `HotInv`: outside the assignments of `load_hot_layer` its three attributes
  and the window agree, and in between which of them are new already;
- `FutureInv` and `QueueInv`: the life of a future, and that the pool's queue
  holds each waiting future once;
- `BuildInv`: a build that no replacement of the hot stack overlapped has read
  what is there now, at each of its three reads;
- `CallInv`: an expert asked for has a bundle or is still looked for, whatever
  has been taken away by callbacks and evictions between two lock holds;
- `StoreInv`: answers, pins, futures, and every entry of LRU and buffer (not
  only the one a lookup would find) are their expert's own, except for the
  experts of the torn builds.

A lookup touches, and a call files, several experts in ascending order: folds
of the LRU's operations over a sorted sequence. That such a sequence exists and
that a fold keeps what its step keeps are lemmas of their own.

### Engine pipelines

Assumed of edge0-35b: a start layer below the last, and routes that are not
empty. Assumed of edge0-8b: a start layer before the last two, a position bound
that admits the longest prompt (`MaxPos >= 3`), groups that divide the experts
and can hold a selection (`GroupAssumption`), and scores above the number that
stands for minus infinity (`ScoreAssumption`). Prompts are cut as
the models enumerate it; the number of layers, requests and positions is
arbitrary.

Both invariants follow a feature along its way: `ControlInv` ties phase, chunks
and position together, `FeatureInv` says which token each captured feature is
of, layer by layer during a forward, `PredInv` which tokens a prediction was
made from, `SlotInv` that promoted slots are the prediction at every moment
and not only between steps. `ZeroDrop` and `FreshRouting` are then conjuncts
that each forward re-establishes. `WindowInv` names the at most two layers
whose whole weights can be resident.

`SelectionLaw` needs facts about the operators alone. `TopKSelects`: k best
entries exist for any finite score. `GroupsHold`: n groups hold n times the
group size of experts, by an injection. `LawHolds`: with all scores above minus
infinity, masking the dropped groups and taking the best k picks from the kept
groups only, for if it picked one masked expert it would have to pick every
expert of the kept groups, and these are too many.

### Chat server

Assumed: caps are naturals and the free lock is no request. `LockInv`: the
lock's holder is the request that generates. Per request, `ArrivalInv` says
that nothing happens before its turn, `QueueInv` in which order text, ending
and sentinel reach the queue, `EmittedInv` that `on_token` has emitted what is
complete so far, `SentInv` that received and queued text together are a prefix
of the decoded text. The lemmas about text show that `_incremental_suffix`
appended to what was emitted gives the decoded text without its trailing
fragments, and that more tokens only ever extend that.

`StreamsAgree` is about `ChatReply`, for any dialects, tools and texts, and
assumes nothing. `StreamAgrees` excludes the two cases in which the code
answers differently: a thinking model without buffering, whose reasoning is
streamed as content, and `tool_choice: "required"` without tools. `ReplyInv`
says that a stream that is not buffered has sent the text so far. The rest is that the last delta completes either kind of
stream to the plain reply, whatever the parser finds.

### Backbones

Assumed: a group size within the layers, kernels of at least 1, positive chunk
size and cap, prompts of at most `MaxPrompt` tokens of the vocabulary, logits
over a vocabulary that is not empty. The invariant, `CacheInv`, states each
layer's cache outright: the keys of the first n positions under their own
rotary positions (`Keys`), the recurrence over the first n (`Upto`) and the
last kernel - 1 rows with zeros in front (`Window`), where n is what that layer
has taken: `fed + fwd` for the layers a forward has passed, `fed` for the
others, and anything after an abort. The step of a layer then comes down to
facts about these three sequences (`AppendKeys`, `AppendWindow`, `SubWindow`,
...), each with a chunk appended. `LoopInv` bounds what is still to be fed and
ties the loop's logits to the last position; `FaultInv` says that with the clip
the hidden state between layers is finite. That a drawn token is one of the
vocabulary needs a sorted order of the logits to exist (`DescendingExists`).

`DrawnAsConfigured` compares what `_mask_logits` leaves with `Drawable`, which
says it directly. Assumed besides: natural `top_k`, a fraction as `top_p`, a
positive penalty, and penalised logits within `LogitBound`, far above the value
that masks (`GenAssumption`, `LogitAssumption`, `BoundAssumption`). A sorted
order gives every token a rank (`Ranks`), top-k keeps the first ranks
(`TopKIs`), and the masses of the first ranks grow with every rank that is not
masked (`MassGrows`), so what top-p keeps is again an initial segment
(`KeepFromIs`, `InitialSegment`), whether it is computed on the logits or on
those top-k has masked (`MassAgrees`). Masses are sums over sets, so `MassAdds`
rests on sums not depending on the order of their terms (`SumAnyOrder`).

### Repackers

For `RepackIsSound` assumed, of each checkpoint by itself: names are strings,
there are a layer, an expert and a part, every part has a byte
(`NameAssumption`, `SizeAssumption`), and the samples of `verify` are dense
enough to take a block of every layer, as its default of 64 is for the shipped
models (`SampleAssumption`). Without the last a passing `verify` would not say
anything of the layers it skips. No two checkpoints need to have anything in
common. `RepackInv` is the conjunction of:

- `PackedInv`: a file under a layer's name is that layer of one checkpoint;
- `WriteInv`: the layers before the current one are the packed checkpoint's,
  the temporary file is the first blocks of the current one, and no earlier
  `pack` or `verify` counts any more;
- `FinishedInv`: `experts.json` and all layers are the packed checkpoint's once
  `pack` has ended;
- `VerifiedInv`: every layer `experts.json` counts is the verified checkpoint's;
- `ResidentInv`: the index is only touched once the resident file, which is one
  checkpoint's, is in place.

What has to be shown is about the files. A shard is its tensors one after
another, a layer its blocks, a block its parts: `FlattenAt` says where in a
flattened sequence each of them is, by the running totals of the sizes before.
So an entry leads to its tensor (`EntryLeads`), `slice_of` returns the expert's
part (`SliceIsPart`) and a written block extends the first blocks by one
(`NextBlock`). For `verify` the argument is that a multiple of the step falls
into every layer `experts.json` counts (`PickInLayer`), that a file of a layer
is known to be some checkpoint's, and that one byte of it shows whose
(`VerifySound`). Layout and number of experts may be another checkpoint's;
whatever stack `slice_of` takes the tensor for, it returns bytes of it
(`SliceOfTensor`).

For `GgufIsSound` assumed: a block, a word, the alignment and a chunk are not
empty, a block and a word hold an even number of codes and a group is whole
words (`BlockAssumption`; 32, 8, 32 and 8192 in the code), and a tensor is a
matrix of words with, if it is quantised, a matrix of scales and one of biases
(`TensorAssumption`). fp16 is the model's `F16`. `GgufInv` is the conjunction
of: no audit error so far, the records are `Registered` of the plan, and
`FileInv`: every row before the next one to write is where its tensor's record
says, and the file ends where the next one goes.

- A tensor is registered with its rows times what a row takes when it is
  written (`SizesAgree`), for every kind and although the one is computed from
  shapes and the other by packing.
- The records round sizes up to the alignment, the data pass rounds the length
  of the file: as every tensor starts aligned (`StartsAligned`), it is the same
  padding (`PaddingAligns`).
- A block decodes to its codes (`Nibbles`, `Decodes`), a block never straddles
  a group (`GroupOfBlock`), and so a packed row decodes to the checkpoint's
  values where fp16 holds the bias, and the scale or the code is zero
  (`DecodesExactly`). That the gate finds no difference, sampled or not, is the
  same fact (`GateAlways`): its exemptions cover every other group.
- What has been written stays in place when the file grows (`RowFound`).

### Induction

The library's induction theorems take a predicate, which no installed prover
can instantiate. `SetInduction` states course-of-values induction for a *set*
of naturals, from the well-foundedness of their order; `GreatestExists` gives a
greatest element under any integer score. With them the proofs above do
induct: over the length of a text for the recursive function `Decoded`, over
the queue for `Contents`, over k for `TopKSelects` and over the positions for
`DescendingExists`. Folds over finite sets get the same treatment: the step of
a fold is a function, which exists (`FoldExists`), has an induction of its own
(`FoldInduction`) and, for sums, gives the same in any order. Functions that
step from 0 to a bound, running totals and joined sequences, exist by
`IterateExists` and are reasoned about with `UptoInduction`.

### Only model-checked

- Liveness (`EntriesReturn`, `EveryRequestAnswered`, `ForwardReturns`,
  `PrefetchSettles`): fairness is out of the prover's reach.
- `NothingLost` and `CallsAsMeant` of `ChatReply`: what the parsers of
  `ToolCalls` find in a text. A proof would have to follow the regular
  expressions' leftmost, non-greedy matches through every concatenation of
  prose, calls and malformed pieces, an analysis of that grammar and not of the
  server.

## Abstractions and what is left out

- Hot pins are off in every shipped profile (`hot_per_layer = 0`) and so absent
  from `IncrStack`; `ExpertCache` has them. Prefetching is left to it too: in
  `IncrStack` a bundle that a prefetch brought differs from one read on demand only in the
  order in which the exact path puts them into the LRU, which is arbitrary.
- `ExpertCache` is one layer: the shared LRU's evictions by other layers are
  its own evictions. `IncrStack` and the pipelines see a prefill forward over a
  resident stack only by the state it changes. How the hook of edge0-35b moves
  the hot window over several layers is left out.
- Weights, logits of heads and gates, and attention outputs are arbitrary or
  provenance only; quantisation, weight sanitising and kernels are left out.
- Power loss: the repackers' files survive an interruption as the operating
  system shows them. JSON encoding and the other endpoints of the server.
- Not modelled: `edge0d`, `edge0-pull` and the applications, see the plan; the
  r3 and LoRA converters and benchmarks, which keep no state.
- `AsyncStaging` models `reset` with its effect on a fill in flight (the fill
  is published afterwards), but states no property about it.

## Plan

1. `SharedExpertCache`, `StagedView`, `IncrStack` with proofs - done.
2. `PrerouterPipeline`, `AsyncStaging`, `ChatServer` - done.
3. `ExpertCache`, `Routing` and `LingPipeline`, `Sampling` and `Backbone`,
   `ToolCalls` and `ChatReply`, the repackers - done.
4. `WorkerPool`: `edge0d` workers as processes with sockets: one worker per
   tier, active counts and streams agree with the worker they belong to, every
   begun stream ends, a load returns.
5. `PullRunner`: resumable download with crashes between fetch, verify and
   commit; afterwards the iOS prefix cache.
6. Theorems on every component with a run of its own - done, but for the
   parsers' properties.
