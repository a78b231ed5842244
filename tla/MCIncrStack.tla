----------------------------- MODULE MCIncrStack -----------------------------
(* Small instances of IncrStack. *)
EXTENDS IncrStack

MCExperts == 0..2

=============================================================================
