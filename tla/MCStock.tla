------------------------------ MODULE MCStock ------------------------------
(***************************************************************************)
(* Small instances of Stock for TLC.                                       *)
(***************************************************************************)
EXTENDS Stock, TLC

CONSTANTS a, b

Piece(i) == [item |-> i, qty |-> 1]

(* Two orders that take the same items in another order, and one with the  *)
(* same item on two lines.                                                 *)
Baskets == {<<Piece(a), Piece(b)>>, <<Piece(b), Piece(a)>>,
            <<Piece(a), Piece(a)>>}

(* All that was bought, last line first, and more than was bought.         *)
Parcels == {<<[line |-> 2, qty |-> 1], [line |-> 1, qty |-> 1]>>,
            <<[line |-> 1, qty |-> 2]>>}

Levels == (a :> 2) @@ (b :> 1)

Deltas == {-1}

=============================================================================
