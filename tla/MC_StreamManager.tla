--------------------------- MODULE MC_StreamManager ---------------------------
(* Model-checking instance of StreamManager: two peers, two goroutines    *)
(* calling into the table, three successful NewStreams.                   *)
EXTENDS StreamManager, TLC

CONSTANTS p1, p2, t1, t2, nostream

MC_Peer == {p1, p2}
MC_Task == {t1, t2}

(* Peers are interchangeable, and so are the calling goroutines. *)
MC_Symmetry == Permutations(MC_Peer) \cup Permutations(MC_Task)
=============================================================================
