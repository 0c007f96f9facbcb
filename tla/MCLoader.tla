------------------------------ MODULE MCLoader ------------------------------
(* A kernel of two functions: the first has a CLI that is patched, the second is   *)
(* replaced early; both may be replaced while TempleOS runs.                       *)
EXTENDS Loader
=============================================================================
