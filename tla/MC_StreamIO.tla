------------------------------ MODULE MC_StreamIO ------------------------------
(* Model-checking instance of StreamIO: one peer, one goroutine calling   *)
(* OpenStream and CloseStream on it, two send goroutines with one send    *)
(* each, and two successful NewStreams, so that a stream is replaced or   *)
(* closed while sends on it are under way.                                *)
EXTENDS StreamIO, TLC

CONSTANTS p1, t1, u1, u2, nostream, zero

MC_Peer == {p1}
MC_Task == {t1}
MC_Sender == {u1, u2}
=============================================================================
