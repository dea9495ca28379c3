------------------------------ MODULE MC_P2pNet ------------------------------
(* Model-checking instance of P2pNet: n1 is the seed that every other     *)
(* node has as its bootstrap peer; m1 is an input that ends with '\n' and *)
(* m2 one that does not.                                                  *)
EXTENDS P2pNet, TLC

CONSTANTS n1, n2, n3, m1, m2, none

MC_Node3 == {n1, n2, n3}
MC_Node2 == {n1, n2}
MC_Boot3 == (n1 :> {}) @@ (n2 :> {n1}) @@ (n3 :> {n1})
MC_Boot2 == (n1 :> {}) @@ (n2 :> {n1})
MC_Seed == {n1}
MC_Msg == {m1, m2}
MC_Lines == {m1}

(* n2 and n3 play the same role: both bootstrap from n1. *)
MC_Symmetry == Permutations({n2, n3})
=============================================================================
