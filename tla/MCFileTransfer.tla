---------------------------- MODULE MCFileTransfer ----------------------------
(* Two addresses of the sender, the first of which never works, and one proxy. *)
EXTENDS FileTransfer

MCAddresses == [direct |-> 2, proxy |-> 1]
==============================================================================
