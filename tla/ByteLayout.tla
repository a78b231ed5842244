----------------------------- MODULE ByteLayout -----------------------------
(***************************************************************************)
(* Where things that are written one after another begin.                  *)
(***************************************************************************)
EXTENDS Integers, Sequences

(* What the first i of the sizes add up to, for every i. *)
RunningTotals(sizes) ==
  LET upto[i \in 0..Len(sizes)] == IF i = 0 THEN 0
                                   ELSE upto[i - 1] + sizes[i]
  IN  upto

=============================================================================
