---------------------------- MODULE MCMediaSession ----------------------------
(* One call; there is nothing to bound. *)
EXTENDS MediaSession
==============================================================================
