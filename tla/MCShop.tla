------------------------------- MODULE MCShop -------------------------------
EXTENDS Shop, TLC

CONSTANTS p1, p2, v1, v2, v3

(* One product with one variant, and one with a choice of two.             *)
MCVariantsOf == (p1 :> <<v1>>) @@ (p2 :> <<v2, v3>>)
=============================================================================
