----------------------------- MODULE StagedView -----------------------------
(***************************************************************************)
(* What a layer's staged stack promises to the decode forward that reads   *)
(* it: a resident set that fits the slots, each of its experts served by   *)
(* its own weights, every other expert served by the all-zero overflow     *)
(* row, and a restaging that changes all of this at once.                  *)
(***************************************************************************)
CONSTANTS Layers, Experts, Nil,
          Stageable   \* the sets of experts that fit the slots

VARIABLES resident,   \* [Layers -> SUBSET Experts]
          view        \* [Layers -> [Experts -> weights]], Nil the zero row

vars == <<resident, view>>

ViewOf(l, S) == [e \in Experts |-> IF e \in S THEN <<l, e>> ELSE Nil]

Init == /\ resident = [l \in Layers |-> {}]
        /\ view = [l \in Layers |-> ViewOf(l, {})]

Restage(l, S) ==
  /\ resident' = [resident EXCEPT ![l] = S]
  /\ view' = [view EXCEPT ![l] = ViewOf(l, S)]

Next == \E l \in Layers, S \in Stageable : Restage(l, S)

Spec == Init /\ [][Next]_vars

=============================================================================
