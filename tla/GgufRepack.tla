----------------------------- MODULE GgufRepack -----------------------------
(***************************************************************************)
(* The repacker of the Windows engine                                      *)
(* (windows/tools/repack_mlx_to_gguf.py): int4 tensors of a safetensors    *)
(* checkpoint become Q4_1 blocks of a GGUF file, bit for bit, int8 tensors *)
(* are dequantised and the others copied.  The file is written in two      *)
(* passes: the header records every tensor's offset before a byte of data  *)
(* is written, and nothing compares the two afterwards; a parity gate      *)
(* dequantises sampled chunks on both sides.                               *)
(*                                                                         *)
(* Block, word and chunk sizes are constants, small here.  A float is an   *)
(* integer, and fp16 holds the even ones: F16 rounds an odd one down, so   *)
(* that a rounded scale or bias shows in every element it takes part in.   *)
(* Names, shapes beyond rows and row length, and metadata are left out.    *)
(***************************************************************************)
EXTENDS Integers, FiniteSets, SequencesExt, ByteLayout

CONSTANTS QK41,        \* elements of a Q4_1 block (32)
          WordCodes,   \* 4-bit codes in a payload word (8)
          ALIGN,       \* GGUF alignment (32)
          CHUNK,       \* rows of a chunk (8192)
          Checkpoints, \* sequences of tensors, in the order of the plan
          HeaderSizes  \* lengths the header can have before its padding

ASSUME BlockAssumption ==
  /\ QK41 \in Nat \ {0} /\ QK41 % 2 = 0 /\ (2 * QK41) % WordCodes = 0
  /\ WordCodes \in Nat \ {0} /\ WordCodes % 2 = 0 /\ ALIGN \in Nat \ {0}
  /\ CHUNK \in Nat \ {0} /\ HeaderSizes \subseteq Nat

(* A tensor with its scales and biases, which only U32 ones have: rows of  *)
(* words, and rows of groups.                                              *)
Matrix(rows, columns, S) == [1..rows -> [1..columns -> S]]
Tensors ==
  {t \in [dtype : {"U32", "F16", "BF16", "F32"}, rows : Nat \ {0},
          words : Nat, groups : Nat, skip : BOOLEAN, data : Seq(Seq(Int)),
          scales : Seq(Seq(Int)), biases : Seq(Seq(Int))] :
     /\ t.data \in Matrix(t.rows, t.words, Int)
     /\ t.dtype = "U32" => /\ t.scales \in Matrix(t.rows, t.groups, Int)
                           /\ t.biases \in Matrix(t.rows, t.groups, Int)}

ASSUME TensorAssumption == Checkpoints \subseteq Seq(Tensors)

VARIABLES
  gpc,       \* step of the run
  tensors,   \* the checkpoint
  verify,    \* the --verify argument: chunks to check, by tensor
  recs,      \* GgufWriter.recs: offset and size of every tensor
  dataStart, \* where the data section starts
  file,      \* the GGUF file, one entry per byte
  cur, row,  \* tensor and first row of the next chunk
  errors,    \* audit errors
  exempt     \* audit_exempt

ggufVars == <<gpc, tensors, verify, recs, dataStart, file, cur, row, errors,
              exempt>>

F16(v) == v - (v % 2)
Padding(n) == (ALIGN - (n % ALIGN)) % ALIGN
Pad(n) == [i \in 1..Padding(n) |-> <<"pad">>]
Bytes(v, n) == [i \in 1..n |-> <<v, i>>]

-----------------------------------------------------------------------------
(* Classification and sizes.                                                *)

Group == 2 * QK41

(* classify: the kind of a tensor, from its dtype and the ratio of its     *)
(* words to its scale groups; the rest is refused.                          *)
Kind(t) ==
  IF t.dtype # "U32" THEN IF t.dtype = "F16" THEN "f16" ELSE "f32"
  ELSE IF t.groups * Group = t.words * WordCodes THEN "q41"
  ELSE IF t.groups * Group = t.words * (WordCodes \div 2) THEN "f32i8"
  ELSE "refused"

(* Adapter and prerouter tensors stay out of the GGUF. *)
Plan(ckpt) == FlattenSeq([i \in DOMAIN ckpt |-> IF ckpt[i].skip THEN <<>>
                                                ELSE <<ckpt[i]>>])

(* Elements of a row, tensor_shape's K. *)
RowLen(t) == CASE Kind(t) = "q41" -> t.words * WordCodes
               [] Kind(t) = "f32i8" -> t.words * (WordCodes \div 2)
               [] OTHER -> t.words

BlockBytes == 4 + QK41 \div 2

(* Mutant: 8-bit tensors are registered with the size of their codes. *)
TensorSizeCodes(t) ==
  CASE Kind(t) = "q41" -> t.rows * (RowLen(t) \div QK41) * BlockBytes
    [] Kind(t) = "f16" -> t.rows * RowLen(t) * 2
    [] Kind(t) = "f32i8" -> t.rows * RowLen(t)
    [] OTHER -> t.rows * RowLen(t) * 4

(* tensor_shape: the size a tensor is registered with. *)
TensorSize(t) ==
  CASE Kind(t) = "q41" -> t.rows * (RowLen(t) \div QK41) * BlockBytes
    [] Kind(t) = "f16" -> t.rows * RowLen(t) * 2
    [] OTHER -> t.rows * RowLen(t) * 4

-----------------------------------------------------------------------------
(* The repack of a row.  q, s and b are functions from 0.                   *)

(* word shifted right by k codes of that base, for every k. *)
Shifted(word, base) ==
  LET by[k \in 0..WordCodes] == IF k = 0 THEN word ELSE by[k - 1] \div base
  IN  by

(* mlx_q_bytes: the codes of a row, ascending in each word. *)
Codes(t, r) ==
  [i \in 0..(RowLen(t) - 1) |->
     Shifted(t.data[r][i \div WordCodes + 1], 16)[i % WordCodes] % 16]

(* The bytes of a row's words, ascending, for 8-bit tensors. *)
Codes8(t, r) ==
  LET perWord == WordCodes \div 2
  IN  [i \in 0..(RowLen(t) - 1) |->
         Shifted(t.data[r][i \div perWord + 1], 256)[i % perWord] % 256]

ScaleOf(t, r, i) == t.scales[r][i \div Group + 1]
BiasOf(t, r, i) == t.biases[r][i \div Group + 1]

(* pack_q41_rows, block k of row r: the group's scale and bias in fp16,    *)
(* then the codes, those of the second half in the high nibbles.           *)
PackBlock(t, r, k) ==
  LET q == Codes(t, r)
      first == k * QK41
      half == QK41 \div 2
  IN  Bytes(F16(ScaleOf(t, r, first)), 2) \o Bytes(F16(BiasOf(t, r, first)), 2)
        \o [j \in 1..half |->
              <<q[first + j - 1] + 16 * q[first + half + j - 1], 1>>]

(* The groups fp16 cannot hold: a rounded bias, or a rounded scale with a  *)
(* nonzero code; with zero codes only, the scale does not matter.          *)
Malignant(t, r) ==
  {g \in 0..(t.groups - 1) :
     \/ F16(t.biases[r][g + 1]) # t.biases[r][g + 1]
     \/ /\ F16(t.scales[r][g + 1]) # t.scales[r][g + 1]
        /\ \E i \in (g * Group)..(g * Group + Group - 1) :
             Codes(t, r)[i] # 0}

(* Row and block of everything exempt in a row. *)
Exempt(t, r) ==
  {<<r, 2 * g + h>> : g \in Malignant(t, r), h \in {0, 1}}

DeqMlxSide(t, r, i) == Codes(t, r)[i] * ScaleOf(t, r, i) + BiasOf(t, r, i)

(* deq_gguf_side: element i of the blocks of a row. *)
DeqGgufSide(bytes, i) ==
  LET at == (i \div QK41) * BlockBytes
      j == i % QK41
      half == QK41 \div 2
      code == IF j < half THEN bytes[at + 5 + j][1] % 16
              ELSE bytes[at + 5 + j - half][1] \div 16
  IN  code * bytes[at + 1][1] + bytes[at + 3][1]

PackedRow(t, r) ==
  FlattenSeq([k \in 1..(RowLen(t) \div QK41) |-> PackBlock(t, r, k - 1)])

(* A row as it is written. *)
RowBytes(t, r) ==
  CASE Kind(t) = "q41" -> PackedRow(t, r)
    [] Kind(t) = "f32i8" ->
         FlattenSeq([i \in 1..RowLen(t) |->
           Bytes(Codes8(t, r)[i - 1] * ScaleOf(t, r, i - 1)
                   + BiasOf(t, r, i - 1), 4)])
    [] OTHER ->
         FlattenSeq([i \in 1..RowLen(t) |->
           Bytes(t.data[r][i], IF Kind(t) = "f16" THEN 2 ELSE 4)])

-----------------------------------------------------------------------------
(* The run.                                                                 *)

GgufInit ==
  /\ gpc = "start" /\ tensors \in Checkpoints
  /\ verify \in [1..Len(Plan(tensors)) -> {{}, {0}, {0, 1}}]
  /\ \A i \in DOMAIN verify : Kind(Plan(tensors)[i]) # "q41" => verify[i] = {}
  /\ recs = <<>> /\ dataStart = 0 /\ file = <<>> /\ cur = 1 /\ row = 1
  /\ errors = 0 /\ exempt = {}

(* GgufWriter.register for every tensor of the plan. *)
Registered(plan) ==
  LET starts == RunningTotals([i \in DOMAIN plan |->
                  TensorSize(plan[i]) + Padding(TensorSize(plan[i]))])
  IN  [i \in DOMAIN plan |->
         [off |-> starts[i - 1], size |-> TensorSize(plan[i])]]

(* classify and pass A.  A tensor of no known kind stops the run. *)
Register ==
  /\ gpc = "start"
  /\ LET plan == Plan(tensors)
     IN  IF \E i \in DOMAIN plan : Kind(plan[i]) = "refused"
         THEN gpc' = "stopped" /\ UNCHANGED recs
         ELSE gpc' = "finalize" /\ recs' = Registered(plan)
  /\ UNCHANGED <<tensors, verify, dataStart, file, cur, row, errors, exempt>>

(* finalize: a header of any length, padded to the alignment. *)
Finalize ==
  /\ gpc = "finalize" /\ gpc' = "data"
  /\ \E header \in HeaderSizes :
       LET ds == ((header + ALIGN - 1) \div ALIGN) * ALIGN
       IN  /\ dataStart' = ds
           /\ file' = Bytes("header", header) \o
                        [i \in 1..(ds - header) |-> <<"pad">>]
  /\ UNCHANGED <<tensors, verify, recs, cur, row, errors, exempt>>

(* The parity gate of a chunk: both sides agree outside the exemptions.    *)
GateHolds(t, rows) ==
  \A r \in rows, i \in 0..(RowLen(t) - 1) :
    \/ <<r, i \div QK41>> \in Exempt(t, r)
    \/ DeqMlxSide(t, r, i) = DeqGgufSide(PackedRow(t, r), i)

(* One chunk: pack and write it, and check it if it is sampled; int8 and   *)
(* plain tensors have no gate.  The exemption entries of a sampled chunk   *)
(* are listed with its first row added a second time, as the code has it.  *)
WriteChunk ==
  /\ gpc = "data" /\ cur <= Len(recs)
  /\ LET t == Plan(tensors)[cur]
         last == IF row + CHUNK - 1 < t.rows THEN row + CHUNK - 1 ELSE t.rows
         rows == row..last
         checked == /\ Kind(t) = "q41"
                    /\ (row - 1) \div CHUNK \in verify[cur]
     IN  /\ row <= t.rows
         /\ file' = file \o FlattenSeq([i \in 1..Cardinality(rows) |->
                                          RowBytes(t, row + i - 1)])
         /\ row' = last + 1
         /\ errors' = IF checked /\ ~GateHolds(t, rows) THEN errors + 1
                      ELSE errors
         /\ exempt' = IF ~checked THEN exempt
                      ELSE exempt \cup
                        {<<cur, x[1] + row - 1, x[2]>> :
                           x \in UNION {Exempt(t, r) : r \in rows}}
  /\ UNCHANGED <<gpc, tensors, verify, recs, dataStart, cur>>

(* align_pad after the last chunk of a tensor. *)
AlignPad ==
  /\ gpc = "data" /\ cur <= Len(recs) /\ row > Plan(tensors)[cur].rows
  /\ file' = file \o Pad(Len(file))
  /\ cur' = cur + 1 /\ row' = 1
  /\ UNCHANGED <<gpc, tensors, verify, recs, dataStart, errors, exempt>>

(* The audit and its verdict. *)
Verdict ==
  /\ gpc = "data" /\ cur > Len(recs)
  /\ gpc' = IF errors = 0 THEN "GREEN" ELSE "RED"
  /\ UNCHANGED <<tensors, verify, recs, dataStart, file, cur, row, errors,
                 exempt>>

(* The run is killed: the file stays under its final name, without audit.  *)
Killed ==
  /\ gpc \in {"finalize", "data"} /\ gpc' = "stopped"
  /\ UNCHANGED <<tensors, verify, recs, dataStart, file, cur, row, errors,
                 exempt>>

GgufNext == \/ Register \/ Finalize \/ WriteChunk \/ AlignPad \/ Verdict
            \/ Killed

-----------------------------------------------------------------------------
(* Correctness.                                                             *)

(* What the header says is at tensor i. *)
Recorded(i) ==
  SubSeq(file, dataStart + recs[i].off + 1,
         dataStart + recs[i].off + recs[i].size)

(* "a bit-exact re-wrap, not a requant": a run that gets to its verdict is *)
(* green, and what the header points at is the tensor, aligned: a 4-bit    *)
(* tensor decodes to the checkpoint's values everywhere but in groups      *)
(* whose own scale or bias fp16 cannot hold, sampled or not; an 8-bit or   *)
(* plain tensor is exact.                                                   *)
GgufSound ==
  gpc \in {"GREEN", "RED"} =>
    /\ gpc = "GREEN"
    /\ \A i \in DOMAIN recs :
         LET t == Plan(tensors)[i]
             bytes == Recorded(i)
             rowSize == recs[i].size \div t.rows
             rowOf(r) == SubSeq(bytes, (r - 1) * rowSize + 1, r * rowSize)
         IN  /\ (dataStart + recs[i].off) % ALIGN = 0
             /\ IF Kind(t) = "q41"
                THEN \A r \in 1..t.rows, k \in 0..(RowLen(t) - 1) :
                       \/ /\ F16(ScaleOf(t, r, k)) # ScaleOf(t, r, k)
                          /\ \E j \in 0..(RowLen(t) - 1) :
                               /\ j \div Group = k \div Group
                               /\ Codes(t, r)[j] # 0
                       \/ F16(BiasOf(t, r, k)) # BiasOf(t, r, k)
                       \/ DeqGgufSide(rowOf(r), k) = DeqMlxSide(t, r, k)
                ELSE \A r \in 1..t.rows : rowOf(r) = RowBytes(t, r)

=============================================================================
