---------------------------- MODULE MCExpertCache ----------------------------
(* Three experts and hot lists of two lengths, one of which replaces the   *)
(* other; layers with pins and layers with a hot prefill stack.            *)
EXTENDS ExpertCache
MCOptions == {[pins |-> 1, hot |-> FALSE], [pins |-> 0, hot |-> TRUE]}
MCHotKeys == {<<0>>, <<1, 2>>}
=============================================================================
