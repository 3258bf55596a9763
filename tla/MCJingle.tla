------------------------------ MODULE MCJingle -------------------------------
(* Two calls: one can wait, ring or talk while the other one comes and goes. *)
EXTENDS Jingle, TLC

CONSTANTS c1, c2

\* The calls are interchangeable: no action tells them apart.
CallSymmetry == Permutations(Calls)
==============================================================================
