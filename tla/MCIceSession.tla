----------------------------- MODULE MCIceSession -----------------------------
(* Candidates of the peer are interchangeable. *)
EXTENDS IceSession

CONSTANTS c1, c2, c3, relay
==============================================================================
