-------------------------- MODULE MCOrderLifecycle --------------------------
(* Instances of OrderLifecycle for TLC. *)
EXTENDS OrderLifecycle, TLC

CONSTANTS o1, e1, e2, i1, p1, r1

\* One order with a promo code and two checkouts.
BothOfO1    == e1 :> o1 @@ e2 :> o1
O1Item      == o1 :> {i1}
O1Code      == o1 :> p1
NoUse       == p1 :> 0
=============================================================================
