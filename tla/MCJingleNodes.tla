---------------------------- MODULE MCJingleNodes -----------------------------
(* Two calls, so that one takes the slot of the other, and relays to try. *)
EXTENDS JingleNodes

CONSTANTS c1, c2, r1, r2, t1
==============================================================================
