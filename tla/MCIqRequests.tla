----------------------------- MODULE MCIqRequests ------------------------------
(* Three requests with a timeout, one of which wants late answers; one without. *)
EXTENDS IqRequests, TLC

CONSTANTS q1, q2, q3, q4
==============================================================================
