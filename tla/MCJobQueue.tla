----------------------------- MODULE MCJobQueue -----------------------------
(* Two threads post to a task, from a pool of three jobs. *)
EXTENDS JobQueue, TLC

CONSTANTS srv, p1, p2, j1, j2, j3

JobSymmetry == Permutations({j1, j2, j3} \cap Jobs)
=============================================================================
