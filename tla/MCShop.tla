------------------------------- MODULE MCShop -------------------------------
(* An instance of Shop for TLC. *)
EXTENDS Shop, TLC

CONSTANTS r1, r2, ann, bob, lamp, desk, half

Home(u) == [user |-> u, type |-> "billing"]
Addresses == {Home(ann), Home(bob), [user |-> ann, type |-> "shipping"]}

StockOf == lamp :> 2 @@ desk :> 3
PriceOf == lamp :> 4 @@ desk :> 10
PromoOf == half :> [kind |-> "percent", value |-> 50, min |-> 4, max |-> 1, users |-> {}]

\* Ann shops; Bob has a cart of his own and asks for rows that may be Ann's.
Sends(u, forms) == {u} \X (forms \cap Forms)

SomeTraffic ==
  Sends(ann, {[handler |-> "getCurrentUserCart"]})
  \cup Sends(ann, [handler : {"addCardItem"}, product : {lamp}, quantity : {1}])
  \cup Sends(ann, [handler : {"addCardItem"}, product : {desk}, quantity : {1}])
  \cup Sends(ann, [handler : {"removeCartItem"}, row : {1}])
  \cup Sends(ann, [handler : {"setCartItemQuantity"}, row : {1}, quantity : 1..2])
  \cup Sends(ann, [handler : {"handleCheckout"}, ids : {<<1>>, <<1, 2>>},
                   code : {half}, address : {Home(ann)}])
  \cup Sends(ann, [handler : {"handleCheckout"}, ids : {<<1>>, <<1, 1>>},
                   code : {NoCode}, address : Addresses])
  \cup Sends(bob, {[handler |-> "getCurrentUserCart"]})
  \cup Sends(bob, [handler : {"setCartItemQuantity"}, row : {1}, quantity : {2}])
  \cup Sends(bob, [handler : {"handleCheckout"}, ids : {<<1>>},
                   code : {half}, address : {Home(bob)}])

Symmetry == Permutations({r1, r2})
=============================================================================
