------------------------------- MODULE MCCart -------------------------------
(* CartIsolation on a small instance. *)
EXTENDS CartIsolation, TLC

CONSTANTS a1, a2, none

MCAsins == {a1, a2}

(* No line is told from another but by being the item of a purchase. *)
Symmetry == Permutations(MCAsins)
=============================================================================
