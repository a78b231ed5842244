----------------------------- MODULE MCBackbone -----------------------------
(* A small instance of Backbone: three layers in groups of two, so that    *)
(* the ling schedule has a remainder layer, and a vocabulary of three. *)
EXTENDS Backbone

Vec(a, b, c) == [t \in 0..2 |-> IF t = 0 THEN a ELSE IF t = 1 THEN b ELSE c]
MCLogitSet == {Vec(4, 2, 0), Vec(2, 2, -2)}
MCPrompts == {<<>>, <<1>>, <<0, 1>>, <<0, 1, 1>>}
Gen(t, k, p, pen, first) ==
  [temperature |-> t, topK |-> k, topP |-> p, penalty |-> pen,
   firstGreedy |-> first]
MCGenConfigs == {Gen(1, 2, <<1, 1>>, 2, TRUE), Gen(0, 0, <<1, 1>>, 1, FALSE),
                 Gen(1, 0, <<1, 2>>, 1, FALSE),
                 Gen(1, 3, <<24, 25>>, 1, FALSE)}

=============================================================================
