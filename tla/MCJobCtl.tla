------------------------------ MODULE MCJobCtl ------------------------------
(* Instances of JobCtl for TLC: a server task and one or two client tasks. *)
EXTENDS JobCtl, TLC

CONSTANTS s1, c1, c2, j1, j2, j3

NoPopUp == [t \in Tasks |-> None]

\* JobQue's default flags, a plain request, and what PopUp asks for.
PlainFlags == {{}, {"FREE_ON_COMPLETE"}}
MasterFlags == {{}, {"FREE_ON_COMPLETE"}, {"WAKE_MASTER", "FOCUS_MASTER"}}
ExitFlags == {{}, {"EXIT_ON_COMPLETE", "FREE_ON_COMPLETE"}}
AllFlags == MasterFlags \cup ExitFlags
JobSymmetry == Permutations({j1, j2, j3} \cap Jobs)
=============================================================================
