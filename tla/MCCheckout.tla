------------------------------ MODULE MCCheckout ------------------------------
(* Instances of Checkout for TLC.                                          *)
EXTENDS Checkout, TLC

CONSTANTS o1, o2, o3, i1, i2, h1, h2, u1, u2, c1

StockOfTwo == (i1 :> 2) @@ (i2 :> 1)
OneLine == {(i1 :> 1) @@ (i2 :> 0)}
EachLine == {(i1 :> 1) @@ (i2 :> 0), (i1 :> 1) @@ (i2 :> 1)}

ThreeUnits == (i1 :> 3)
TwoUnits == (i1 :> 2)
OneUnit == {(i1 :> 1)}

Once == (c1 :> 1)
Unlimited == (c1 :> Null)
Everywhere == (c1 :> "ALL")
PickupOnly == (c1 :> "PICKUP_ONLY")
NoCoupons == <<>>

HandlersAndOrders == Permutations({h1, h2}) \cup Permutations({o1, o2, o3})
HandlersAndTwoOrders == Permutations({h1, h2}) \cup Permutations({o1, o2})
=============================================================================
