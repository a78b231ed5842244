--------------------------- MODULE MCLingPipeline ---------------------------
(* A small instance of LingPipeline: six experts in two groups, of which   *)
(* one stays, and two experts per token. *)
EXTENDS LingPipeline

(* The best expert sits in the group that is dropped. *)
Uneven == [e \in 0..5 |-> IF e = 0 THEN 5 ELSE IF e \in {3, 4} THEN 3 ELSE 0]
(* Every choice is a tie. *)
Flat == [e \in 0..5 |-> 1]
MCLogits == {Uneven, Flat}
(* The bias turns the gate's selection of Flat. *)
MCBias == [e \in 0..5 |-> IF e = 5 THEN 2 ELSE 0]

MCVectors == [0..5 -> 0..2]

=============================================================================
