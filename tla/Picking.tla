------------------------------- MODULE Picking -------------------------------
(***************************************************************************)
(* The jobs of some kind in a list of jobs (CJobCtrl next_waiting): what a *)
(* reader of the list sees that looks for the jobs of some codes only.     *)
(***************************************************************************)
EXTENDS Naturals, Sequences

\* The jobs of s whose code is in C, in their order (c is the code of each job).
Picked(c, C, s) ==
  LET p[i \in 0..Len(s)] ==
        IF i = 0 THEN <<>> ELSE IF c[s[i]] \in C THEN Append(p[i - 1], s[i]) ELSE p[i - 1]
  IN  p[Len(s)]
=============================================================================
