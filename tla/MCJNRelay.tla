------------------------------ MODULE MCJNRelay -------------------------------
(* Relays are interchangeable, threads are not: they are numbered in order. *)
EXTENDS JNRelay

CONSTANTS r1, r2, r3, r4

RelaySymmetry == Permutations(Relays)
==============================================================================
