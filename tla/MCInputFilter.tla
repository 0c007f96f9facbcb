--------------------------- MODULE MCInputFilter ---------------------------
(* InputFilter for TLC.                                                    *)
EXTENDS InputFilter
CONSTANTS srv, c1, s1, f1, f2, j1, j2, j3
=============================================================================
