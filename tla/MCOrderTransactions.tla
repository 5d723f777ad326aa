------------------------- MODULE MCOrderTransactions -------------------------
(* Instances of OrderTransactions for TLC.                                 *)
EXTENDS OrderTransactions, TLC

CONSTANTS o1, o2, i1, i2, h1, h2, a1

TwoRows == (i1 :> 2) @@ (i2 :> 1)
BothRows == {(i1 :> 1) @@ (i2 :> 1)}
OneDown == {-1}
=============================================================================
