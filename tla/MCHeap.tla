------------------------------- MODULE MCHeap -------------------------------
(* Two tasks, the code heap, and one region of three units: when it is     *)
(* gone, memory is exhausted.                                              *)
EXTENDS Heap, TLC

CONSTANTS t1, t2, r1, code, x1, x2

\* In the run of the whole module each thread has its kinds of request.
SmallAndOthers == t1 :> {"small"} @@ t2 :> {"medium", "large"}
MediumOnly == [t \in Threads |-> {"medium"}]
=============================================================================
