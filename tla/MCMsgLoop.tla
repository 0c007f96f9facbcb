----------------------------- MODULE MCMsgLoop ------------------------------
(* A task, two senders, three messages or jobs. *)
EXTENDS MsgLoop, TLC

CONSTANTS srv, p1, p2, j1, j2, j3
=============================================================================
