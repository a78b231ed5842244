---------------------------- MODULE ExpertRepack ----------------------------
(***************************************************************************)
(* The expert repacker of the iOS engine (ios/tools/repack_experts.py).    *)
(* `pack` rewrites the stacked expert tensors of a checkpoint as one file  *)
(* per layer in which the parts of an expert are contiguous, `resident`    *)
(* copies all other tensors into one file, `verify` compares sampled       *)
(* blocks with the checkpoint.  The commands may be interrupted at any     *)
(* write and run again, with another checkpoint too, on an output          *)
(* directory that holds the remains of earlier runs.                       *)
(*                                                                         *)
(* A checkpoint has its own number of layers, of experts and of other      *)
(* tensors, and its own shards.  A byte is named after the place it comes  *)
(* from: <<checkpoint, tensor, index>>.  All offsets are computed as the   *)
(* code computes them.  A file is a sequence of bytes, Missing if there is *)
(* none; of a JSON file the state is kept, or the checkpoint it describes. *)
(* Files survive an interruption as the operating system shows them; a     *)
(* power loss, which could undo a rename without a sync, is outside the    *)
(* model.                                                                  *)
(***************************************************************************)
EXTENDS Integers, FiniteSets, SequencesExt, ByteLayout

CONSTANTS Models,       \* checkpoints
          Layers,       \* number of layers, by checkpoint
          NumExperts,   \* experts of a layer, by checkpoint
          Parts,        \* PARTS: the tensors of a layer, in block order
          PartSize,     \* bytes of one expert by checkpoint, layer and part
          Residents,    \* names of the other tensors, sorted, by checkpoint
          ResidentSize, \* bytes of one of them by checkpoint and name
          ShardOf,      \* shard file by checkpoint and layer
          Samples,      \* the samples argument of verify
          Commands      \* bound on the commands run

LayerIds(m) == 0..(Layers[m] - 1)
Experts(m) == 0..(NumExperts[m] - 1)
LayerFiles == UNION {LayerIds(m) : m \in Models}
Missing == <<"missing">>
NoModel == "none"

ASSUME NameAssumption ==
  /\ Models \cap {NoModel, "missing", "torn"} = {}
  /\ Parts \in Seq(STRING) /\ Parts # <<>>
  /\ \A m \in Models : /\ Residents[m] \in Seq(STRING)
                       /\ ShardOf[m] \in [LayerIds(m) -> STRING]
ASSUME SizeAssumption ==
  /\ Samples \in Nat
  /\ \A m \in Models :
       /\ Layers[m] \in Nat \ {0} /\ NumExperts[m] \in Nat \ {0}
       /\ \A l \in LayerIds(m), p \in ToSet(Parts) :
            PartSize[<<m, l, p>>] \in Nat \ {0}
       /\ \A r \in ToSet(Residents[m]) : ResidentSize[<<m, r>>] \in Nat

(* The default of 64 samples takes a block of every layer: 10240 blocks    *)
(* of 40 layers make a step of 170, below the 256 experts of a layer.      *)
ASSUME SampleAssumption ==
  Samples > 4 /\ \A m \in Models :
    (Layers[m] * NumExperts[m]) \div (Samples - 4) <= NumExperts[m]

-----------------------------------------------------------------------------
(* The checkpoint: a shard is a header and then its tensors one after      *)
(* another, a stacked tensor is its experts one after another.             *)

HeaderBytes == 2

Files(m) == {ShardOf[m][l] : l \in LayerIds(m)}

Size(m, name) == IF name[1] = "resident" THEN ResidentSize[<<m, name[2]>>]
                 ELSE NumExperts[m] * PartSize[<<m, name[2], name[3]>>]

(* The tensors of a shard in file order; the first shard ends with the     *)
(* resident ones.                                                           *)
Stored(m, file) ==
  FlattenSeq([i \in 1..Layers[m] |->
    IF ShardOf[m][i - 1] # file THEN <<>>
    ELSE [j \in 1..Len(Parts) |-> <<"switch_mlp", i - 1, Parts[j]>>]])
  \o IF file # ShardOf[m][0] THEN <<>>
     ELSE [j \in 1..Len(Residents[m]) |-> <<"resident", Residents[m][j]>>]

TensorBytes(m, name) == [i \in 1..Size(m, name) |-> <<m, name, i - 1>>]

(* Shards.maps. *)
Maps == [m \in Models |-> [f \in Files(m) |->
  [i \in 1..HeaderBytes |-> <<m, f, i - 1>>]
    \o FlattenSeq([i \in DOMAIN Stored(m, f) |->
                     TensorBytes(m, Stored(m, f)[i])])]]

FileOf(m, name) == ShardOf[m][IF name[1] = "resident" THEN 0 ELSE name[2]]

(* Shards.entry: the shard, the offset in it and the size of a tensor. *)
Entry(m, name) ==
  LET stored == Stored(m, FileOf(m, name))
      at == CHOOSE i \in DOMAIN stored : stored[i] = name
      ends == RunningTotals([i \in DOMAIN stored |-> Size(m, stored[i])])
  IN  [file |-> FileOf(m, name), offset |-> HeaderBytes + ends[at - 1],
       total |-> Size(m, name)]

(* bytes[start:start + n] *)
Slice(bytes, start, n) == SubSeq(bytes, start + 1, start + n)

(* Shards.slice_of: one expert out of a tensor taken to stack so many. *)
SliceOf(m, name, e, experts) ==
  LET entry == Entry(m, name)
      per == entry.total \div experts
  IN  Slice(Maps[m][entry.file], entry.offset + e * per, per)

Tensor(l, part) == <<"switch_mlp", l, part>>

(* describe: offset and size of every part in a block, from layer 0. *)
Describe(m) ==
  LET per == [j \in 1..Len(Parts) |->
                Entry(m, Tensor(0, Parts[j])).total \div NumExperts[m]]
      ends == RunningTotals(per)
  IN  [parts |-> [j \in 1..Len(Parts) |->
                    [part |-> Parts[j], offset |-> ends[j - 1],
                     bytes |-> per[j]]],
       block |-> ends[Len(Parts)]]

-----------------------------------------------------------------------------
VARIABLES
  pc,       \* "idle" or the step the running command is at
  model,    \* checkpoint of the running command
  layer, expert, \* the block being written
  partial,  \* the .partial file of the layer being written
  packed,   \* experts-L<l>.bin by layer
  meta,     \* experts.json: "missing", "torn" or the checkpoint it is of
  resident, \* resident.safetensors: the header's offsets, the payload
  index,    \* model.safetensors.index.json, likewise
  done,     \* commands started
  finished, \* history: checkpoint of the last pack, once it has run to its
            \* end
  verified  \* history: checkpoint of the last passing verify, while no
            \* later command has written

dir == <<partial, packed, meta, resident, index>>
repackVars == <<pc, model, layer, expert, dir, done, finished, verified>>

RepackInit ==
  /\ pc = "idle" /\ model = NoModel /\ layer = 0 /\ expert = 0
  /\ partial = Missing /\ packed = [l \in LayerFiles |-> Missing]
  /\ meta = "missing" /\ resident = Missing /\ index = "missing"
  /\ done = 0 /\ finished = NoModel /\ verified = NoModel

Finish == pc' = "idle" /\ model' = NoModel

(* A command starts; too little free space refuses before any write.       *)
Pack(m) ==
  /\ pc = "idle" /\ done < Commands /\ done' = done + 1
  /\ \/ /\ pc' = "pack" /\ model' = m
        /\ finished' = NoModel /\ verified' = NoModel
     \/ UNCHANGED <<pc, model, finished, verified>>
  /\ layer' = 0 /\ expert' = 0
  /\ UNCHANGED dir

Block(m, l, e) ==
  FlattenSeq([j \in 1..Len(Parts) |->
                SliceOf(m, Tensor(l, Parts[j]), e, NumExperts[m])])

(* One expert's parts are appended; opening the file truncates it.         *)
PackWrite ==
  /\ pc = "pack" /\ expert < NumExperts[model]
  /\ partial' = (IF expert = 0 THEN <<>> ELSE partial)
                  \o Block(model, layer, expert)
  /\ expert' = expert + 1
  /\ UNCHANGED <<pc, model, layer, packed, meta, resident, index, done,
                 finished, verified>>

(* The layer is complete: rename it, or remove it if its size is not the   *)
(* one layer 0 promised.                                                    *)
PackRename ==
  /\ pc = "pack" /\ expert = NumExperts[model]
  /\ partial' = Missing /\ expert' = 0
  /\ IF Len(partial) = NumExperts[model] * Describe(model).block
     THEN /\ packed' = [packed EXCEPT ![layer] = partial]
          /\ layer' = layer + 1
          /\ pc' = IF layer + 1 = Layers[model] THEN "openMeta" ELSE "pack"
          /\ UNCHANGED model
     ELSE Finish /\ UNCHANGED <<packed, layer>>
  /\ UNCHANGED <<meta, resident, index, done, finished, verified>>

(* json.dump into a file that open has truncated. *)
OpenMeta ==
  /\ pc = "openMeta" /\ pc' = "dumpMeta" /\ meta' = "torn"
  /\ UNCHANGED <<model, layer, expert, partial, packed, resident, index,
                 done, finished, verified>>

DumpMeta ==
  /\ pc = "dumpMeta" /\ Finish
  /\ meta' = model /\ finished' = model
  /\ UNCHANGED <<layer, expert, partial, packed, resident, index, done,
                 verified>>

(* Mutant: only the corners are compared. *)
PicksCornersOnly(layers, experts) ==
  {<<0, 0>>, <<0, experts - 1>>, <<layers - 1, 0>>,
   <<layers - 1, experts - 1>>}

(* verify's blocks: the corners, then every step-th block. *)
Picks(layers, experts) ==
  LET spread == IF Samples > 4 THEN Samples - 4 ELSE 1
      count == (layers * experts) \div spread
      step == IF count > 1 THEN count ELSE 1
  IN  {<<0, 0>>, <<0, experts - 1>>, <<layers - 1, 0>>,
       <<layers - 1, experts - 1>>}
      \cup {<<f \div experts, f % experts>> :
              f \in {g \in 0..(layers * experts - 1) : g % step = 0}}

(* Every file has the size experts.json gives, and every sampled part is   *)
(* the checkpoint's.  Layers, experts and layout are those of experts.json, *)
(* which may be of another checkpoint; a layer that m does not have stops   *)
(* the comparison with an error.                                            *)
VerifyPasses(m) ==
  /\ meta \in Models
  /\ LET layout == Describe(meta)
         experts == NumExperts[meta]
     IN  /\ \A l \in LayerIds(meta) :
              /\ packed[l] # Missing
              /\ Len(packed[l]) = experts * layout.block
         /\ \A pick \in Picks(Layers[meta], experts) :
              /\ pick[1] \in LayerIds(m)
              /\ \A x \in ToSet(layout.parts) :
                   Slice(packed[pick[1]], pick[2] * layout.block + x.offset,
                         x.bytes)
                     = SliceOf(m, Tensor(pick[1], x.part), pick[2], experts)

Verify(m) ==
  /\ pc = "idle" /\ done < Commands /\ done' = done + 1
  /\ verified' = IF VerifyPasses(m) THEN m ELSE verified
  /\ UNCHANGED <<pc, model, layer, expert, dir, finished>>

(* resident: the header, whose offsets a cursor adds up, and the tensors.  *)
ResidentOf(m) ==
  LET names == Residents[m]
      entry(i) == Entry(m, <<"resident", names[i]>>)
      cursor == RunningTotals([i \in 1..Len(names) |-> entry(i).total])
  IN  <<[i \in 1..Len(names) |-> [name |-> names[i], start |-> cursor[i - 1],
                                  end |-> cursor[i]]],
        FlattenSeq([i \in 1..Len(names) |->
          Slice(Maps[m][entry(i).file], entry(i).offset, entry(i).total)])>>

Resident(m) ==
  /\ pc = "idle" /\ done < Commands /\ done' = done + 1
  /\ pc' = "resident" /\ model' = m
  /\ UNCHANGED <<layer, expert, dir, finished, verified>>

(* The file is written under a temporary name, whole, and renamed. *)
ResidentRename ==
  /\ pc = "resident" /\ pc' = "openIndex"
  /\ resident' = ResidentOf(model)
  /\ UNCHANGED <<model, layer, expert, partial, packed, meta, index, done,
                 finished, verified>>

OpenIndex ==
  /\ pc = "openIndex" /\ index' = "torn" /\ pc' = "dumpIndex"
  /\ UNCHANGED <<model, layer, expert, partial, packed, meta, resident, done,
                 finished, verified>>

(* The index, then the comparison of every tensor, which writes nothing.   *)
DumpIndex ==
  /\ pc = "dumpIndex" /\ index' = model /\ Finish
  /\ UNCHANGED <<layer, expert, partial, packed, meta, resident, done,
                 finished, verified>>

(* The command is killed or a write raises; whatever is on disk stays.     *)
Interrupt ==
  /\ pc # "idle" /\ Finish
  /\ UNCHANGED <<layer, expert, dir, done, finished, verified>>

RepackNext ==
  \/ \E m \in Models : Pack(m) \/ Verify(m) \/ Resident(m)
  \/ PackWrite \/ PackRename \/ OpenMeta \/ DumpMeta
  \/ ResidentRename \/ OpenIndex \/ DumpIndex \/ Interrupt

-----------------------------------------------------------------------------
(* Correctness.                                                             *)

(* "expert e of layer L is at offset e * block_bytes in that layer's       *)
(* file": the file of layer l, said without offsets.                       *)
PartOf(m, l, e, part) ==
  LET n == PartSize[<<m, l, part>>]
  IN  [i \in 1..n |-> <<m, Tensor(l, part), e * n + i - 1>>]

ExactLayer(m, l) ==
  FlattenSeq([e \in 1..NumExperts[m] |->
    FlattenSeq([j \in 1..Len(Parts) |-> PartOf(m, l, e - 1, Parts[j])])])

IsLayerOf(m, l) == l \in LayerIds(m) /\ packed[l] = ExactLayer(m, l)

(* "an interrupted run cannot leave behind a file that looks complete":    *)
(* whatever was interrupted and run again, a file under a layer's name is  *)
(* that layer of one checkpoint, whole and in block order; once pack has   *)
(* run to its end, experts.json and every layer are its checkpoint's; and  *)
(* the resident file holds every tensor at its header's offset, and is     *)
(* there when an index names it.                                            *)
(*                                                                         *)
(* A passing verify means that every layer experts.json counts is the      *)
(* given checkpoint's, although it compares only some blocks, by a layout  *)
(* that may be another checkpoint's.  It says nothing of a layer that      *)
(* experts.json does not count: when pack is interrupted over the remains  *)
(* of a checkpoint with fewer layers, verify can pass with layers missing. *)
RepackSound ==
  /\ \A l \in LayerFiles : packed[l] # Missing =>
       \E m \in Models : IsLayerOf(m, l)
  /\ finished # NoModel =>
       meta = finished /\ \A l \in LayerIds(finished) : IsLayerOf(finished, l)
  /\ verified # NoModel =>
       meta \in Models /\ \A l \in LayerIds(meta) : IsLayerOf(verified, l)
  /\ index \in Models => resident # Missing
  /\ resident # Missing => \E m \in Models :
       /\ Len(resident[1]) = Len(Residents[m])
       /\ \A i \in 1..Len(Residents[m]) :
            LET h == resident[1][i]
            IN  /\ h.name = Residents[m][i]
                /\ Slice(resident[2], h.start, h.end - h.start)
                     = TensorBytes(m, <<"resident", h.name>>)

=============================================================================
