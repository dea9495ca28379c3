--------------------------- MODULE MC_OrderService ---------------------------
(* Model-checking instance of OrderService: two distinct create requests, *)
(* three clock readings and three Creates, so that two Creates can share a *)
(* timestamp while a third one does not.                                   *)
EXTENDS OrderService, TLC

CONSTANTS r1, r2

MC_Request == {r1, r2}
MC_MaxTime == 2
MC_MaxOps == 3
=============================================================================
