------------------------------- MODULE MCOrders -------------------------------
(* Instances of Orders for TLC.                                            *)
EXTENDS Orders, TLC

CONSTANTS o1, o2, i1, i2, h1, h2, a1

\* Two rows; neither holds enough for two orders of one basket.
StockOfTwo == (i1 :> 3) @@ (i2 :> 1)
\* One basket on both rows, one of two units of the first.
MixedBaskets == {(i1 :> 1) @@ (i2 :> 1), (i1 :> 2) @@ (i2 :> 0)}

StockOfOne == (i1 :> 2)
SmallBaskets == {(i1 :> 1)}

UpAndDown == {-1, 1}

Symmetric == Permutations({o1, o2}) \cup Permutations({h1, h2})
=============================================================================
