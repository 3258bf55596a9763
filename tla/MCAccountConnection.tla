------------------------- MODULE MCAccountConnection --------------------------
(* Connection objects are interchangeable; two are enough to have one too many. *)
EXTENDS AccountConnection

CONSTANTS n1, n2, r1, r2, r3

AccountSymmetry == Permutations(Conns) \cup Permutations(Rooms)
==============================================================================
