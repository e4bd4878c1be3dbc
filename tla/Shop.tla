-------------------------------- MODULE Shop --------------------------------
(***************************************************************************)
(* The cart and the checkout: overlapping requests of several customers    *)
(* over the tables carts, cart_items, orders and promos.  Every step is    *)
(* one statement of a handler (or one transaction); the rest of a handler  *)
(* works on what it has read before.                                       *)
(*                                                                         *)
(* A user has at most one cart (carts_user_id_unique), so a cart goes by   *)
(* its user.  Stock, prices and what is on sale are read by these handlers *)
(* and written by none of them: they are constants here.                   *)
(***************************************************************************)
EXTENDS Integers, Sequences, FiniteSetsExt

CONSTANTS
  Users, Products, Codes, Requests,
  Stock,       \* products.stock_quantity
  Price,       \* price - discount of a product
  OnSale,      \* products that GetProducts shows to a customer
  Promo,       \* Promo[c]: kind, value, min, max, users
  NoCode,
  ShipTo,      \* shipping addresses in use: records [user, type]
  MaxRows, MaxOrders, MaxQuantity,
  Traffic,     \* who sends what: pairs of a user and one of the Forms
  Repaired     \* statements that the database is taken to accept

NoRow == [cart |-> "none"]
RowIds == 1..MaxRows

ASSUME ShopAssumptions ==
  /\ NoRow.cart \notin Users /\ IsFiniteSet(Requests)
  /\ {MaxRows, MaxOrders, MaxQuantity} \subseteq Nat
  /\ Stock \in [Products -> Nat] /\ Price \in [Products -> Nat]
  /\ OnSale \subseteq Products
  /\ NoCode \notin Codes
  /\ \A c \in Codes : /\ Promo[c].kind \in {"percent", "fixed", "free_shipping"}
                      /\ {Promo[c].value, Promo[c].min, Promo[c].max} \subseteq Nat
                      /\ Promo[c].users \subseteq Users
  /\ Repaired \subseteq {"createOrder", "FindByCode"}

VARIABLES
  carts,      \* users who have a cart
  rows,       \* cart_items: row id -> row
  lastRow,    \* ids are generated and never used again
  orders,     \* orders with their order_items, in the order of their commits
  used,       \* promos.used_count
  expired,    \* codes past expired_at
  request,    \* request[r]: where a request is
  uncounted,  \* history: orders whose handler stopped before IncrementUsage
  carted      \* history: what was ever in whose cart

shopVars == <<carts, rows, lastRow, orders, used, expired, request, uncounted, carted>>

Idle == [at |-> "idle"]

ShopInit ==
  /\ carts = {} /\ rows = [i \in RowIds |-> NoRow] /\ lastRow = 0
  /\ orders = <<>>
  /\ used = [c \in Codes |-> 0] /\ expired = {}
  /\ request = [r \in Requests |-> Idle]
  /\ uncounted = [c \in Codes |-> 0] /\ carted = {}

Go(r, next)  == request' = [request EXCEPT ![r] = next]
Ends(r) == Go(r, Idle)   \* with whatever answer
Moves(r, at) == Go(r, [request[r] EXCEPT !.at = at])

-----------------------------------------------------------------------------
(* Arrivals.  Any id may be asked for, those of other carts too.           *)

Forms ==
  {[handler |-> "getCurrentUserCart"]}
  \cup {[handler |-> "addCardItem", product |-> p, quantity |-> q] :
          p \in Products, q \in 1..MaxQuantity}
  \cup {[handler |-> "removeCartItem", row |-> i] : i \in RowIds}
  \cup {[handler |-> "setCartItemQuantity", row |-> i, quantity |-> q] :
          i \in RowIds, q \in 1..MaxQuantity}
  \cup {[handler |-> "handleCheckout", ids |-> ids, code |-> c, address |-> a] :
          ids \in UNION {[1..n -> RowIds] : n \in 0..2}, c \in Codes \cup {NoCode}, a \in ShipTo}

ASSUME TrafficAssumption == Traffic \subseteq Users \X Forms

\* What a handler does once it has the cart.
FirstStep == [getCurrentUserCart |-> "create cart", addCardItem |-> "add",
              removeCartItem |-> "find row", setCartItemQuantity |-> "set quantity",
              handleCheckout |-> "read rows"]

\* GetCartByUserID: only getCurrentUserCart goes on without a cart, and only then.
Arrive(r, u, form) ==
  /\ request[r] = Idle
  /\ (u \in carts) = (form.handler # "getCurrentUserCart")
  /\ Go(r, [at |-> FirstStep[form.handler], user |-> u, form |-> form])
  /\ UNCHANGED <<carts, rows, lastRow, orders, used, expired, uncounted, carted>>

\* The second of two requests that found no cart violates the unique constraint.
CreateCart(r) ==
  /\ request[r].at = "create cart"
  /\ carts' = carts \cup {request[r].user}
  /\ Ends(r)
  /\ UNCHANGED <<rows, lastRow, orders, used, expired, uncounted, carted>>

-----------------------------------------------------------------------------
(* The cart.                                                               *)

InCart(i, u) == rows[i].cart = u

AlreadyCarted(u, p) == \E i \in RowIds : InCart(i, u) /\ rows[i].product = p

\* The stock is compared here and, more strictly, at the checkout.
AddItem(r) ==
  LET u == request[r].user   p == request[r].form.product   q == request[r].form.quantity
  IN /\ request[r].at = "add"
     /\ \/ \* out of stock, in the cart already, or another error of the INSERT
           UNCHANGED <<rows, lastRow, carted>>
        \/ /\ Stock[p] >= q /\ ~AlreadyCarted(u, p) /\ lastRow < MaxRows
           /\ lastRow' = lastRow + 1
           /\ rows' = [rows EXCEPT ![lastRow + 1] = [cart |-> u, product |-> p, quantity |-> q]]
           /\ carted' = carted \cup {<<u, lastRow + 1, p>>}
     /\ Ends(r)
     /\ UNCHANGED <<carts, orders, used, expired, uncounted>>

\* removeCartItem looks the row up in the user's cart and deletes it by its id.
FindRow(r) ==
  /\ request[r].at = "find row"
  /\ IF InCart(request[r].form.row, request[r].user) THEN Moves(r, "delete row") ELSE Ends(r)
  /\ UNCHANGED <<carts, rows, lastRow, orders, used, expired, uncounted, carted>>

DeleteItem(r) ==
  /\ request[r].at = "delete row"
  /\ rows' = [rows EXCEPT ![request[r].form.row] = NoRow]
  /\ Ends(r)
  /\ UNCHANGED <<carts, lastRow, orders, used, expired, uncounted, carted>>

\* Mutant: the row is found by its id alone.
MaySetAny(i, u) == rows[i] # NoRow

MaySet(i, u) == InCart(i, u)

\* The quantity is not compared with the stock.
SetItemQuantity(r) ==
  LET u == request[r].user   i == request[r].form.row   q == request[r].form.quantity
  IN /\ request[r].at = "set quantity"
     /\ IF MaySet(i, u)
          THEN rows' = [rows EXCEPT ![i].quantity = q]
          ELSE UNCHANGED rows
     /\ Ends(r)
     /\ UNCHANGED <<carts, lastRow, orders, used, expired, uncounted, carted>>

-----------------------------------------------------------------------------
(* The checkout.                                                           *)

Asked(r) == {request[r].form.ids[k] : k \in DOMAIN request[r].form.ids}

GetItemsByIDS(u, ids) == [i \in {j \in ids : InCart(j, u)} |-> rows[i]]

ProductsOf(items) == {items[i].product : i \in DOMAIN items}

\* An order leaves at least one unit in stock.
InStock(items) == \A i \in DOMAIN items : Stock[items[i].product] > items[i].quantity

Cost(item) == item.quantity * Price[item.product]
Total(items) == MapThenSumSet(LAMBDA i : Cost(items[i]), DOMAIN items)

\* The condition on the type of the address is the wrong way round.
AddressRefused(a, u) == a.user # u \/ a.type = "shipping"

\* What the handler reads before it looks at the code.  The rows are read at
\* this step and not again.
ReadRows(r) ==
  LET u     == request[r].user
      form  == request[r].form
      items == GetItemsByIDS(u, Asked(r))
  IN /\ request[r].at = "read rows"
     /\ IF /\ Cardinality(DOMAIN items) = Len(form.ids)
           /\ Cardinality(ProductsOf(items) \cap OnSale) = Len(form.ids)
           /\ ~AddressRefused(form.address, u)
           /\ InStock(items)
          THEN Go(r, [at |-> IF form.code = NoCode THEN "create order" ELSE "validate code",
                      user |-> u, items |-> items, code |-> form.code, total |-> Total(items)])
          ELSE Ends(r)
     /\ UNCHANGED <<carts, rows, lastRow, orders, used, expired, uncounted, carted>>

-----------------------------------------------------------------------------
(* The promo code and the order.                                           *)

UsedUp(c) == Promo[c].max > 0 /\ used[c] >= Promo[c].max

\* Amounts are in cents; nothing keeps a fixed discount below the total.
Discounted(c, total) ==
  CASE Promo[c].kind = "percent" -> total - (total * Promo[c].value) \div 100
    [] Promo[c].kind = "fixed" -> total - Promo[c].value
    [] OTHER -> total

\* FindByCode selects eleven columns and scans ten: unless that is repaired
\* every code ends in an error.
FindByCode(c) == "FindByCode" \in Repaired

\* No users: the code is not restricted to users.
IsUserAllowed(c, u) == Promo[c].users # {} => u \in Promo[c].users

ValidatePromoCode(r) ==
  LET c == request[r].code
  IN /\ request[r].at = "validate code"
     /\ IF /\ FindByCode(c)
           /\ c \notin expired /\ ~UsedUp(c)
           /\ request[r].total >= Promo[c].min
           /\ IsUserAllowed(c, request[r].user)
          THEN Go(r, [request[r] EXCEPT !.at = "create order", !.total = Discounted(c, @)])
          ELSE Ends(r)
     /\ UNCHANGED <<carts, rows, lastRow, orders, used, expired, uncounted, carted>>

\* Mutant: the quantities are read again.
StoredItemsRead(r) ==
  [i \in DOMAIN request[r].items |-> IF rows[i] = NoRow THEN request[r].items[i] ELSE rows[i]]

StoredItems(r) == request[r].items

\* The order and its items, in a transaction.  The shipping address is not
\* stored, and the rows stay in the cart until the order is paid.
CreateOrder(r) ==
  /\ request[r].at = "create order"
  /\ "createOrder" \in Repaired /\ Len(orders) < MaxOrders
  /\ orders' = Append(orders, [user |-> request[r].user, items |-> StoredItems(r),
                              total |-> request[r].total, code |-> request[r].code])
  /\ IF request[r].code = NoCode THEN Ends(r) ELSE Moves(r, "count use")
  /\ UNCHANGED <<carts, rows, lastRow, used, expired, uncounted, carted>>

\* Mutant: the error of the transaction is lost, like that of its INSERT.
RollbackUnseen(r) ==
  /\ request[r].at = "create order"
  /\ IF request[r].code = NoCode THEN Ends(r) ELSE Moves(r, "count use")
  /\ UNCHANGED <<carts, rows, lastRow, orders, used, expired, uncounted, carted>>

\* The INSERT names nine columns for eight values.  Its error is dropped and
\* that of the items, in the aborted transaction, is not.
Rollback(r) ==
  /\ request[r].at = "create order"
  /\ Ends(r)
  /\ UNCHANGED <<carts, rows, lastRow, orders, used, expired, uncounted, carted>>

\* Outside of the transaction.
IncrementUsage(r) ==
  /\ request[r].at = "count use"
  /\ used' = [used EXCEPT ![request[r].code] = @ + 1]
  /\ Ends(r)
  /\ UNCHANGED <<carts, rows, lastRow, orders, expired, uncounted, carted>>

\* The statement fails, or times out after it was carried out, or the server
\* stops: the order is stored and its customer sees an error.
IncrementFails(r) ==
  LET c == request[r].code
  IN /\ request[r].at = "count use"
     /\ used' \in {used, [used EXCEPT ![c] = @ + 1]}
     /\ uncounted' = [uncounted EXCEPT ![c] = @ + 1]
     /\ Ends(r)
     /\ UNCHANGED <<carts, rows, lastRow, orders, expired, carted>>

Expire(c) ==
  /\ c \notin expired
  /\ expired' = expired \cup {c}
  /\ UNCHANGED <<carts, rows, lastRow, orders, used, request, uncounted, carted>>

Serve(r) ==
  \/ CreateCart(r) \/ AddItem(r) \/ FindRow(r) \/ DeleteItem(r)
  \/ SetItemQuantity(r) \/ ReadRows(r) \/ ValidatePromoCode(r) \/ CreateOrder(r)
  \/ Rollback(r) \/ IncrementUsage(r) \/ IncrementFails(r)

ShopNext ==
  \/ \E r \in Requests : Serve(r) \/ \E t \in Traffic : Arrive(r, t[1], t[2])
  \/ \E c \in Codes : Expire(c)

ShopSpec == ShopInit /\ [][ShopNext]_shopVars

-----------------------------------------------------------------------------
Row == [cart : Users, product : Products, quantity : 1..MaxQuantity]

RequestOK(q) ==
  \/ q = Idle
  \/ q.at \in {"create cart", "add", "find row", "delete row", "set quantity",
              "read rows"} /\ <<q.user, q.form>> \in Traffic
  \/ /\ q.at \in {"validate code", "create order", "count use"}
     /\ q.user \in Users /\ q.code \in Codes \cup {NoCode}
     /\ DOMAIN q.items \subseteq RowIds /\ \A i \in DOMAIN q.items : q.items[i] \in Row

ShopTypeOK ==
  /\ carts \subseteq Users /\ rows \in [RowIds -> Row \cup {NoRow}] /\ lastRow \in 0..MaxRows
  /\ \A k \in DOMAIN orders : orders[k].user \in Users /\ orders[k].code \in Codes \cup {NoCode}
  /\ used \in [Codes -> Nat] /\ uncounted \in [Codes -> Nat] /\ expired \subseteq Codes
  /\ \A r \in Requests : RequestOK(request[r])

\* A cart has at most one row per product, however the requests that add it
\* overlap, and so no stored order names a product twice.
OneRowPerProduct ==
  /\ \A i, j \in RowIds : rows[i] # NoRow /\ i # j /\ rows[i].cart = rows[j].cart
                           => rows[i].product # rows[j].product
  /\ \A k \in DOMAIN orders :
       Cardinality(ProductsOf(orders[k].items)) = Cardinality(DOMAIN orders[k].items)

\* What is charged is what is ordered, and it was in stock, although customers
\* change quantities while the checkout runs and nothing compares a quantity
\* that is set with the stock.
PricedAsOrdered ==
  \A k \in DOMAIN orders :
    LET order == orders[k]
    IN /\ InStock(order.items)
       /\ order.total = IF order.code = NoCode THEN Total(order.items)
                        ELSE Discounted(order.code, Total(order.items))

\* An order holds only what was in the cart of its own customer.
OrderedFromOwnCart ==
  \A k \in DOMAIN orders : \A i \in DOMAIN orders[k].items :
    <<orders[k].user, i, orders[k].items[i].product>> \in carted

\* Every order that is stored is sound, whatever overlapped with its checkout.
OrdersSound == ShopTypeOK /\ OneRowPerProduct /\ PricedAsOrdered /\ OrderedFromOwnCart

Validated(c) == {r \in Requests : /\ request[r].at \in {"create order", "count use"}
                                  /\ request[r].code = c}

\* A code is used beyond its limit only by as many orders as were under way
\* when it was used up: each of the overlapping requests but one.
OvershootBounded ==
  \A c \in Codes : Promo[c].max > 0 =>
    used[c] + Cardinality(Validated(c)) <= Promo[c].max + Cardinality(Requests) - 1

CountingUse(c) == {r \in Requests : request[r].at = "count use" /\ request[r].code = c}
OrdersWith(c) == {k \in DOMAIN orders : orders[k].code = c}

\* used_count and the orders that carry the code differ by the orders that are
\* just being counted and those whose handler stopped there, and by no others:
\* no failed checkout uses up a code.
UsesAccounted ==
  \A c \in Codes :
    LET due == Cardinality(OrdersWith(c)) - Cardinality(CountingUse(c))
    IN used[c] <= due /\ due <= used[c] + uncounted[c]

\* A code's use is counted once per order that carries it, and its limit passed
\* by no more than what was under way.
UsesCounted == OvershootBounded /\ UsesAccounted

\* A row changes or disappears only at a step of a request of its own user.
RowsChangeByOwner ==
  [][\A i \in RowIds : rows[i] # NoRow /\ rows'[i] # rows[i] =>
       \E r \in Requests : /\ request'[r] # request[r]
                           /\ request[r].user = rows[i].cart]_shopVars
=============================================================================
