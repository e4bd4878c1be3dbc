--------------------------- MODULE MCPromoReclaim ---------------------------
(* Instances of PromoReclaim for TLC. *)
EXTENDS PromoReclaim, TLC

CONSTANTS o1, o2, o3, p1, r1, r2

\* Two orders share a code, the third has none.
ThreeOrders == {o1, o2, o3}
SharedCode  == o1 :> p1 @@ o2 :> p1 @@ o3 :> NoPromo
OneUse      == p1 :> 1
NoUse       == p1 :> 0
=============================================================================
