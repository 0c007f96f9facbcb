------------------------------ MODULE MCDisplay ------------------------------
(* Display for TLC.                                                         *)
EXTENDS Display
CONSTANTS adam, t1, t2, t3
=============================================================================
