---------------------------- MODULE WeightTools -----------------------------
(***************************************************************************)
(* The two offline conversion tools that carry a checkpoint to the phone   *)
(* and to the Windows engine.  They share nothing but the checkpoint they  *)
(* read, so a behaviour is one of either tool.                             *)
(***************************************************************************)
EXTENDS ExpertRepack, GgufRepack

VARIABLE tool  \* "ios" or "windows"

vars == <<tool, repackVars, ggufVars>>

Init == /\ tool \in {"ios", "windows"} /\ RepackInit /\ GgufInit
        /\ tool = "ios" => /\ tensors = CHOOSE c \in Checkpoints : TRUE
                           /\ \A i \in DOMAIN verify : verify[i] = {}

Next == \/ tool = "ios" /\ RepackNext /\ UNCHANGED <<tool, ggufVars>>
        \/ tool = "windows" /\ GgufNext /\ UNCHANGED <<tool, repackVars>>

Spec == Init /\ [][Next]_vars

=============================================================================
