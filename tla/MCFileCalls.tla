---------------------------- MODULE MCFileCalls ----------------------------
(* Two tasks, a directory, a file that both trees may have and a built-in one. *)
EXTENDS FileCalls
CONSTANTS a, b, top, d, f, g
HostDir == {<<"host", top, d>>}
BothFiles == {<<"host", d, f>>, <<"root", top, f>>}
=============================================================================
