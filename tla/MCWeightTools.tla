--------------------------- MODULE MCWeightTools ----------------------------
(***************************************************************************)
(* Instances of the conversion tools.  Four checkpoints: two of three      *)
(* layers of two experts over two shards, one that differs only in having  *)
(* two layers, and one with a single expert of twice the size and a layer  *)
(* that is larger than the others.  A GGUF plan with a 4-bit tensor of two *)
(* chunks, an 8-bit one and plain ones of sizes that need padding.         *)
(***************************************************************************)
EXTENDS WeightTools

MCModels == {"a", "b", "short", "odd"}
MCLayers == [m \in MCModels |-> IF m = "short" THEN 2 ELSE 3]
MCNumExperts == [m \in MCModels |-> IF m = "odd" THEN 1 ELSE 2]
MCParts == <<"gate", "up", "down">>
MCPartSize == [x \in MCModels \X (0..2) \X {"gate", "up", "down"} |->
                 LET n == IF x[3] = "gate" THEN 2 ELSE 1
                 IN  IF x[1] # "odd" THEN n
                     ELSE IF x[2] = 1 THEN 3 * n ELSE 2 * n]
MCResidents == [m \in MCModels |-> IF m = "short" THEN <<"norm">>
                                   ELSE <<"embed", "norm", "router">>]
MCResidentSize == [x \in MCModels \X {"embed", "norm", "router"} |->
                     CASE x[2] = "embed" -> 3 [] x[2] = "norm" -> 1
                       [] OTHER -> 2]
MCShardOf == [m \in MCModels |-> [l \in 0..(MCLayers[m] - 1) |->
                IF l < 2 THEN "s1" ELSE "s2"]]

Plain(dtype, rows, words) ==
  [dtype |-> dtype, rows |-> rows, words |-> words, groups |-> 0,
   scales |-> <<>>, biases |-> <<>>, skip |-> FALSE,
   data |-> [r \in 1..rows |-> [i \in 1..words |-> 10 * r + i]]]

(* A row of four-bit codes as two words: all zero, all different, and one   *)
(* nonzero code in the second block.                                        *)
MCRows == {<<0, 0>>, <<16^3 * 4 + 16^2 * 3 + 16 * 2 + 1,
                       16^3 * 15 + 16^2 * 7 + 16 * 6 + 5>>, <<0, 9>>}

Int4(rows, s, b) ==
  [dtype |-> "U32", rows |-> Len(rows), words |-> 2, groups |-> 1,
   scales |-> s, biases |-> b, skip |-> FALSE, data |-> rows]

Int8 == [dtype |-> "U32", rows |-> 1, words |-> 4, groups |-> 1,
         scales |-> <<<<3>>>>, biases |-> <<<<5>>>>, skip |-> FALSE,
         data |-> <<<<258, 1, 513, 40000>>>>]

Lora == [Plain("BF16", 1, 1) EXCEPT !.skip = TRUE]
Unknown == [Int8 EXCEPT !.words = 3, !.data = <<<<258, 1, 513>>>>]

MCCheckpoints ==
  {<<Plain("F16", 1, 3), Int4(<<x, y>>, <<<<2>>, <<s>>>>, <<<<4>>, <<b>>>>),
     Lora, Int8, Plain("BF16", 1, 1), Int4(<<y>>, <<<<s>>>>, <<<<6>>>>)>> :
       x, y \in MCRows, s \in {2, 3}, b \in {4, 5}}
  \cup {<<Plain("F32", 2, 1), Unknown>>}

=============================================================================
