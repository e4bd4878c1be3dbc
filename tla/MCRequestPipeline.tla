-------------------------- MODULE MCRequestPipeline --------------------------
(* Instances of RequestPipeline for TLC. *)
EXTENDS RequestPipeline, TLC

CONSTANTS r1, r2, home, cafe, visitor, customer, senior, junior, manager, support, novice

Request(method, path, handler) == [method |-> method, path |-> path, handler |-> handler]

VendorItems == Request("GET", <<"carts", "items", "vendor">>, "getVendorCartItem")
CartItem    == Request("GET", <<"carts", "items", "i1">>, "getCartItemByID")
Products    == Request("GET", <<"products">>, "getProducts")
Approve     == Request("PATCH", <<"products", "p1", "approve">>, "approveProduct")
Disable     == Request("PATCH", <<"admins", "members", "m1", "disable">>, "disableAdminAccount")
Enable      == Request("PATCH", <<"admins", "members", "m1", "enable">>, "enableAdminAccount")
ChangeRole  == Request("PATCH", <<"admins", "members", "m1", "role">>, "changeAdminRole")
Reset       == Request("POST", <<"auth", "forget-password">>, "forgetPassword")
AllRoutes   == {Reset, VendorItems, CartItem, Products, Approve, Disable, Enable, ChangeRole}

\* Paths with a parameter, one that two entries match, one with a rule per
\* user and one per address, one with a rule for whoever comes from an address,
\* and some that are not listed.
SomeTraffic ==
  {visitor} \X {Products} \X {home}
  \cup {visitor, customer} \X {Reset} \X {home}
  \cup {customer} \X {VendorItems, CartItem} \X {home}
  \cup {junior} \X {Disable} \X {home}
  \cup {manager} \X {Enable} \X {home}
  \cup {manager} \X {Approve, ChangeRole} \X {home}
  \cup {support} \X {Disable} \X {home}

\* The table's limits, counted in sixties: 30 becomes 1, 120 becomes 2.
Scaled(n) == (n + 59) \div 60
ScaledRules(rules) == [i \in DOMAIN rules |-> [rules[i] EXCEPT !.limit = Scaled(@)]]
ScaledLimits ==
  {[e EXCEPT !.rules = ScaledRules(@)] :
     e \in {f \in RateLimits : \E route \in AllRoutes :
              f.method = route.method /\ Match(f.path, route.path)}}

Roles == visitor :> Anonymous
         @@ customer :> [role |-> "user", level |-> NoLevel]
         @@ senior :> [role |-> "admin", level |-> "super"]
         @@ junior :> [role |-> "admin", level |-> "super"]
         @@ manager :> [role |-> "admin", level |-> "manager"]
         @@ support :> [role |-> "admin", level |-> "support"]
         @@ novice :> [role |-> "admin", level |-> "none"]
Symmetry == Permutations({r1, r2})

Ages == senior :> 1 @@ junior :> 2 @@ manager :> 3 @@ support :> 0 @@ novice :> 4
=============================================================================
