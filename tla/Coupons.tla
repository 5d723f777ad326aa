------------------------------- MODULE Coupons -------------------------------
(***************************************************************************)
(* CouponsService: which codes may be used, and the CouponUsage rows that  *)
(* orders leave.  A limit is checked by counting usage rows, long before   *)
(* the transaction that adds one.                                          *)
(*                                                                         *)
(* Amounts are not modelled, so the conditions that depend on the subtotal *)
(* (a minimum, a discount of zero) may refuse a coupon at any time; the    *)
(* modules that use Validates allow for that.                              *)
(***************************************************************************)
EXTENDS Store, FiniteSets

CONSTANTS
  Coupons,        \* coupon codes
  Users,          \* customers
  UsageLimit,     \* Coupon.usageLimit, Null for none
  PerUserLimit,   \* Coupon.perUserLimit, Null for none
  Applicability   \* Coupon.applicability

CouponApplicability == {"ALL", "DELIVERY_ONLY", "PICKUP_ONLY"}

ASSUME CouponAssumption ==
  /\ UsageLimit \in [Coupons -> Nat \cup {Null}]
  /\ PerUserLimit \in [Coupons -> Nat \cup {Null}]
  /\ Applicability \in [Coupons -> CouponApplicability]
  /\ Null \notin Nat \cup Coupons \cup FulfilmentType

VARIABLES
  active,  \* codes that exist, are switched on and are between their dates
  usages   \* the CouponUsage rows of each code: the order and its customer

CouponUsage == [order : OrderIds, user : Users]

CouponsTypeOK ==
  /\ active \subseteq Coupons
  /\ usages \in [Coupons -> SUBSET CouponUsage]

CouponsInit ==
  /\ active = Coupons
  /\ usages = [c \in Coupons |-> {}]

UsagesBy(c, u) == {row \in usages[c] : row.user = u}

\* A coupon restricted to one fulfilment type wants the type to be known.
AssertApplicability(c, type) ==
  \/ Applicability[c] = "ALL"
  \/ Applicability[c] = "DELIVERY_ONLY" /\ type = "DELIVERY"
  \/ Applicability[c] = "PICKUP_ONLY" /\ type = "PICKUP"

\* Faulty: lets the last usage be taken once more.
ValidatesOnceMore(c, u, type) ==
  /\ c \in active
  /\ AssertApplicability(c, type)
  /\ UsageLimit[c] # Null => Cardinality(usages[c]) <= UsageLimit[c]
  /\ PerUserLimit[c] # Null => Cardinality(UsagesBy(c, u)) <= PerUserLimit[c]

\* validateCoupon, up to the conditions on amounts.
Validates(c, u, type) ==
  /\ c \in active
  /\ AssertApplicability(c, type)
  /\ UsageLimit[c] # Null => Cardinality(usages[c]) < UsageLimit[c]
  /\ PerUserLimit[c] # Null => Cardinality(UsagesBy(c, u)) < PerUserLimit[c]

\* The row written with an order that a coupon took something off.
RecordUsage(c, u, o) ==
  usages' = IF c = Null THEN usages
            ELSE [usages EXCEPT ![c] = @ \cup {[order |-> o, user |-> u]}]

\* Staff remove a code or switch it off, or its dates pass.
Deactivate(c) ==
  /\ c \in active
  /\ active' = active \ {c}
  /\ UNCHANGED usages

\* Staff switch a code on or create it again: the old row is revived with the
\* usages it had.
Activate(c) ==
  /\ c \notin active
  /\ active' = active \cup {c}
  /\ UNCHANGED usages
=============================================================================
