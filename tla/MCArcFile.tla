----------------------------- MODULE MCArcFile -----------------------------
(* Files of up to MaxSize bytes over two values. *)
EXTENDS ArcFile
=============================================================================
