----------------------------- MODULE MCListings -----------------------------
(* An instance of Listings for TLC. *)
EXTENDS Listings

\* Two vendors or administrators; one product with two primary images, one
\* with none.
SomeOwners == <<1, 2, 1, 2, 1>>
SomeImages == <<2, 1, 0, 1, 1>>

\* Products and wishlists in order, categories with a latecomer that is older;
\* ties among reviews, users and the rows of carts.
SomeTimes ==
  [products |-> <<1, 2, 3, 4, 5>>, categories |-> <<2, 1, 5, 4, 3>>, reviews |-> <<1, 1, 2, 3, 2>>,
   users |-> <<1, 2, 2, 3, 3>>, wishlists |-> <<1, 2, 3, 4, 5>>, cart_items |-> <<1, 2, 1, 2, 2>>]
=============================================================================
