----------------------------- MODULE ShopProofs -----------------------------
(***************************************************************************)
(* The cart and the checkout are sound for any customers, products, codes, *)
(* rows and orders, and any number of requests that overlap.               *)
(***************************************************************************)
EXTENDS Shop, FiniteSetTheorems, TLAPS

-----------------------------------------------------------------------------
(* Requests.                                                               *)

\* A request that has read nothing yet but the cart, and its form.
Asking(q) ==
  /\ q.at \in {"create cart", "add", "find row", "delete row", "set quantity", "read rows"}
  /\ q = [at |-> q.at, user |-> q.user, form |-> q.form]
  /\ <<q.user, q.form>> \in Traffic
  /\ q.at = "add" => q.form.handler = "addCardItem"
  /\ q.at \in {"find row", "delete row"} => q.form.handler = "removeCartItem"
  /\ q.at = "set quantity" => q.form.handler = "setCartItemQuantity"
  /\ q.at = "read rows" => q.form.handler = "handleCheckout"

\* What may be ordered together: rows of different products, and enough of them.
Orderable(items) ==
  /\ DOMAIN items \subseteq RowIds /\ \A i \in DOMAIN items : items[i] \in Row
  /\ \A i, j \in DOMAIN items : i # j => items[i].product # items[j].product
  /\ InStock(items)

Charge(code, items) ==
  IF code = NoCode THEN Total(items) ELSE Discounted(code, Total(items))

\* A checkout that has read its rows: what it read is never read again.
Buying(q) ==
  /\ q.at \in {"validate code", "create order", "count use"}
  /\ q = [at |-> q.at, user |-> q.user, items |-> q.items, code |-> q.code,
          total |-> q.total]
  /\ q.user \in Users /\ q.code \in Codes \cup {NoCode}
  /\ Orderable(q.items)
  /\ q.total = IF q.at = "validate code" THEN Total(q.items) ELSE Charge(q.code, q.items)
  /\ q.at # "create order" => q.code \in Codes

RequestsOK ==
  /\ DOMAIN request = Requests
  /\ \A r \in Requests : request[r] = Idle \/ Asking(request[r]) \/ Buying(request[r])

-----------------------------------------------------------------------------
(* Rows and orders.                                                        *)

RowsOK ==
  /\ rows \in [RowIds -> Row \cup {NoRow}] /\ lastRow \in 0..MaxRows
  /\ \A i \in RowIds : i > lastRow => rows[i] = NoRow
  /\ \A i, j \in RowIds : rows[i] # NoRow /\ i # j /\ rows[i].cart = rows[j].cart
                           => rows[i].product # rows[j].product

\* The row that is about to be deleted by its id has had no other owner.
DeletesOwn ==
  \A r \in Requests : request[r].at = "delete row" =>
    LET i == request[r].form.row
    IN i <= lastRow /\ (rows[i] = NoRow \/ rows[i].cart = request[r].user)

Carted(u, items) == \A i \in DOMAIN items : <<u, i, items[i].product>> \in carted

\* Rows in a cart and rows that a checkout has read have been in that cart.
CartedOK ==
  /\ \A i \in RowIds : rows[i] # NoRow => <<rows[i].cart, i, rows[i].product>> \in carted
  /\ \A r \in Requests : Buying(request[r]) => Carted(request[r].user, request[r].items)
  /\ \A k \in DOMAIN orders : Carted(orders[k].user, orders[k].items)

OrderOK(order) ==
  /\ order.user \in Users /\ order.code \in Codes \cup {NoCode}
  /\ Orderable(order.items)
  /\ order.total = Charge(order.code, order.items)

OrdersOK ==
  /\ \E S : orders \in Seq(S)
  /\ \A k \in DOMAIN orders : OrderOK(orders[k])

-----------------------------------------------------------------------------
(* The uses of codes.                                                      *)

CountsOK ==
  /\ used \in [Codes -> Nat] /\ uncounted \in [Codes -> Nat]
  /\ UsesCounted

IInv == /\ carts \subseteq Users /\ expired \subseteq Codes
        /\ RequestsOK
        /\ RowsOK
        /\ DeletesOwn
        /\ OrdersOK
        /\ CartedOK
        /\ CountsOK

-----------------------------------------------------------------------------
(* What arrives.                                                           *)

LEMMA FormType ==
  ASSUME NEW form \in Forms
  PROVE  /\ form.handler \in {"getCurrentUserCart", "addCardItem", "removeCartItem",
                              "setCartItemQuantity", "handleCheckout"}
         /\ form.handler = "addCardItem" =>
              form.product \in Products /\ form.quantity \in 1..MaxQuantity
         /\ form.handler = "removeCartItem" => form.row \in RowIds
         /\ form.handler = "setCartItemQuantity" =>
              form.row \in RowIds /\ form.quantity \in 1..MaxQuantity
         /\ form.handler = "handleCheckout" =>
              /\ form.code \in Codes \cup {NoCode}
              /\ \A k \in DOMAIN form.ids : form.ids[k] \in RowIds
<1>1. CASE form = [handler |-> "getCurrentUserCart"]
  BY <1>1
<1>2. CASE form \in {[handler |-> "addCardItem", product |-> p, quantity |-> q] :
                       p \in Products, q \in 1..MaxQuantity}
  BY <1>2
<1>3. CASE form \in {[handler |-> "removeCartItem", row |-> i] : i \in RowIds}
  BY <1>3
<1>4. CASE form \in {[handler |-> "setCartItemQuantity", row |-> i, quantity |-> q] :
                       i \in RowIds, q \in 1..MaxQuantity}
  BY <1>4
<1>5. CASE form \in {[handler |-> "handleCheckout", ids |-> ids, code |-> c, address |-> a] :
                       ids \in UNION {[1..n -> RowIds] : n \in 0..2},
                       c \in Codes \cup {NoCode}, a \in ShipTo}
  <2>1. PICK ids \in UNION {[1..n -> RowIds] : n \in 0..2}, c \in Codes \cup {NoCode},
             a \in ShipTo :
               form = [handler |-> "handleCheckout", ids |-> ids, code |-> c, address |-> a]
    BY <1>5
  <2>2. form.handler = "handleCheckout" /\ form.ids = ids /\ form.code = c
    BY <2>1
  <2>3. PICK n \in 0..2 : ids \in [1..n -> RowIds]
    OBVIOUS
  <2>4. \A k \in DOMAIN ids : ids[k] \in RowIds
    BY <2>3
  <2> QED BY <2>2, <2>4
<1> QED BY <1>1, <1>2, <1>3, <1>4, <1>5 DEF Forms

LEMMA FirstSteps ==
  /\ FirstStep["getCurrentUserCart"] = "create cart" /\ FirstStep["addCardItem"] = "add"
  /\ FirstStep["removeCartItem"] = "find row"
  /\ FirstStep["setCartItemQuantity"] = "set quantity"
  /\ FirstStep["handleCheckout"] = "read rows"
BY DEF FirstStep

LEMMA Arrivals ==
  ASSUME NEW t \in Traffic
  PROVE  Asking([at |-> FirstStep[t[2].handler], user |-> t[1], form |-> t[2]])
<1>1. t[1] \in Users /\ t[2] \in Forms /\ t = <<t[1], t[2]>>
  BY TrafficAssumption
<1> DEFINE q == [at |-> FirstStep[t[2].handler], user |-> t[1], form |-> t[2]]
<1>2. q.user = t[1] /\ q.form = t[2] /\ q.at = FirstStep[t[2].handler]
  OBVIOUS
<1>4. q = [at |-> q.at, user |-> q.user, form |-> q.form]
  OBVIOUS
<1>5. t[2].handler \in {"getCurrentUserCart", "addCardItem", "removeCartItem",
                        "setCartItemQuantity", "handleCheckout"}
  BY <1>1, FormType
<1> HIDE DEF q
<1>6. Asking(q)
  BY <1>1, <1>2, <1>4, <1>5, FirstSteps DEF Asking
<1> QED BY <1>6 DEF q

LEMMA AskedFor ==
  ASSUME NEW q, Asking(q)
  PROVE  /\ q.user \in Users
         /\ q.at = "add" => q.form.product \in Products /\ q.form.quantity \in 1..MaxQuantity
         /\ q.at \in {"find row", "delete row", "set quantity"} => q.form.row \in RowIds
         /\ q.at = "set quantity" => q.form.quantity \in 1..MaxQuantity
         /\ q.at = "read rows" => /\ q.form.code \in Codes \cup {NoCode}
                                  /\ \A k \in DOMAIN q.form.ids : q.form.ids[k] \in RowIds
<1>1. q.user \in Users /\ q.form \in Forms
  BY TrafficAssumption DEF Asking
<1> QED BY <1>1, FormType DEF Asking

LEMMA IdleAt == Idle.at = "idle" /\ ~Asking(Idle) /\ ~Buying(Idle)
BY DEF Idle, Asking, Buying

\* The step of a handler tells what kind of request it is.
LEMMA KindOf ==
  ASSUME RequestsOK, NEW r \in Requests
  PROVE  /\ request[r].at \in {"create cart", "add", "find row", "delete row",
                               "set quantity", "read rows"} =>
              Asking(request[r]) /\ request[r] # Idle
         /\ request[r].at \in {"validate code", "create order", "count use"} =>
              Buying(request[r]) /\ request[r] # Idle
BY IdleAt DEF RequestsOK, Asking, Buying

LEMMA OnlyMoves ==
  ASSUME RequestsOK, NEW r \in Requests, NEW q, Go(r, q)
  PROVE  /\ DOMAIN request' = Requests /\ request'[r] = q
         /\ \A s \in Requests \ {r} : request'[s] = request[s]
BY DEF RequestsOK, Go

-----------------------------------------------------------------------------
(* RequestsOK.                                                             *)

LEMMA MovesOn ==
  ASSUME RequestsOK, NEW r \in Requests, NEW q, Go(r, q),
         q = Idle \/ Asking(q) \/ Buying(q)
  PROVE  RequestsOK'
BY OnlyMoves DEF RequestsOK

LEMMA UserOfRow ==
  ASSUME RowsOK, NEW i \in RowIds, NEW u \in Users, InCart(i, u)
  PROVE  rows[i] # NoRow /\ rows[i] \in Row /\ i <= lastRow
<1>1. rows[i] # NoRow
  BY ShopAssumptions DEF InCart
<1> QED BY <1>1, ShopAssumptions DEF RowsOK, RowIds

LEMMA WhatIsRead ==
  ASSUME RowsOK, NEW u \in Users, NEW ids, ids \subseteq RowIds
  PROVE  LET items == GetItemsByIDS(u, ids)
         IN /\ InStock(items) => Orderable(items)
            /\ \A i \in DOMAIN items : i \in RowIds /\ InCart(i, u) /\ items[i] = rows[i]
<1> DEFINE items == GetItemsByIDS(u, ids)
<1>1. DOMAIN items = {j \in ids : InCart(j, u)}
  BY DEF GetItemsByIDS
<1>2. \A i \in DOMAIN items : i \in RowIds /\ InCart(i, u) /\ items[i] = rows[i]
  BY DEF GetItemsByIDS
<1> HIDE DEF items
<1>3. \A i \in DOMAIN items : rows[i] # NoRow /\ rows[i] \in Row /\ rows[i].cart = u
  BY <1>2, UserOfRow DEF InCart
<1>4. \A i, j \in DOMAIN items : i # j => items[i].product # items[j].product
  BY <1>2, <1>3 DEF RowsOK
<1>5. InStock(items) => Orderable(items)
  BY <1>1, <1>2, <1>3, <1>4 DEF Orderable
<1> QED BY <1>2, <1>5 DEF items

LEMMA AtAnotherStep ==
  ASSUME NEW q, q = [at |-> q.at, user |-> q.user, form |-> q.form], NEW place
  PROVE  [q EXCEPT !.at = place] = [at |-> place, user |-> q.user, form |-> q.form]
<1>1. q \in [at : {q.at, place}, user : {q.user}, form : {q.form}]
  BY SMT
<1> QED BY <1>1, SMT

LEMMA MovesFromAsking ==
  ASSUME NEW q, Asking(q), q.at = "find row"
  PROVE  Asking([q EXCEPT !.at = "delete row"])
<1> DEFINE w == [q EXCEPT !.at = "delete row"]
<1>1. q = [at |-> q.at, user |-> q.user, form |-> q.form]
  BY DEF Asking
<1>2. w = [at |-> "delete row", user |-> q.user, form |-> q.form]
  BY <1>1, AtAnotherStep
<1>3. w.at = "delete row" /\ w.user = q.user /\ w.form = q.form
  BY <1>2
<1>4. w = [at |-> w.at, user |-> w.user, form |-> w.form]
  BY <1>2, <1>3
<1> HIDE DEF w
<1>5. Asking(w)
  BY <1>3, <1>4 DEF Asking
<1> QED BY <1>5 DEF w

LEMMA MovesFromBuying ==
  ASSUME NEW q, Buying(q), NEW place, NEW total
  PROVE  /\ [q EXCEPT !.at = place] =
              [at |-> place, user |-> q.user, items |-> q.items, code |-> q.code,
               total |-> q.total]
         /\ [q EXCEPT !.at = place, !.total = total] =
              [at |-> place, user |-> q.user, items |-> q.items, code |-> q.code,
               total |-> total]
<1> DEFINE x == [q EXCEPT !.at = place]
           y == [x EXCEPT !.total = total]
<1>1. q = [at |-> q.at, user |-> q.user, items |-> q.items, code |-> q.code,
           total |-> q.total]
  BY DEF Buying
<1>2. q \in [at : {q.at, place}, user : {q.user}, items : {q.items}, code : {q.code},
             total : {q.total}]
  BY <1>1, SMT
<1>3. x = [at |-> place, user |-> q.user, items |-> q.items, code |-> q.code,
           total |-> q.total]
  BY <1>2, SMT
<1>4. [q EXCEPT !.at = place, !.total = total] = y
  OBVIOUS
<1> HIDE DEF x
<1>5. x \in [at : {place}, user : {q.user}, items : {q.items}, code : {q.code},
             total : {q.total, total}]
  BY <1>3, SMT
<1>6. y = [at |-> place, user |-> q.user, items |-> q.items, code |-> q.code,
           total |-> total]
  BY <1>3, <1>5, SMT
<1> QED BY <1>3, <1>4, <1>6 DEF x

\* A checkout with rows that may be ordered, wherever it is.
LEMMA StartsBuying ==
  ASSUME NEW place \in {"validate code", "create order", "count use"},
         NEW u \in Users, NEW items, Orderable(items),
         NEW code \in Codes \cup {NoCode}, NEW total,
         total = IF place = "validate code" THEN Total(items) ELSE Charge(code, items),
         place # "create order" => code \in Codes
  PROVE  Buying([at |-> place, user |-> u, items |-> items, code |-> code, total |-> total])
<1> DEFINE w == [at |-> place, user |-> u, items |-> items, code |-> code, total |-> total]
<1>1. /\ w.at = place /\ w.user = u /\ w.items = items /\ w.code = code /\ w.total = total
      /\ w = [at |-> w.at, user |-> w.user, items |-> w.items, code |-> w.code,
              total |-> w.total]
  OBVIOUS
<1> HIDE DEF w
<1>2. Buying(w)
  BY <1>1 DEF Buying
<1> QED BY <1>2 DEF w

\* What the steps of a checkout make of its request.
LEMMA ReadsRows ==
  ASSUME RequestsOK, RowsOK, NEW r \in Requests, ReadRows(r)
  PROVE  \E q : /\ Go(r, q)
                /\ \/ q = Idle
                   \/ /\ Buying(q) /\ q.user = request[r].user
                      /\ q.at = "create order" => q.code = NoCode
                      /\ q.at # "count use"
                      /\ \A i \in DOMAIN q.items :
                           i \in RowIds /\ InCart(i, q.user) /\ q.items[i] = rows[i]
<1>1. PICK p : p = request[r]
  OBVIOUS
<1>2. Asking(p) /\ p.at = "read rows"
  BY <1>1, KindOf DEF ReadRows
<1>3. /\ p.user \in Users /\ p.form.code \in Codes \cup {NoCode}
      /\ \A k \in DOMAIN p.form.ids : p.form.ids[k] \in RowIds
  BY <1>2, AskedFor
<1>4. PICK items : items = GetItemsByIDS(p.user, Asked(r))
  OBVIOUS
<1>5. Asked(r) \subseteq RowIds
  BY <1>1, <1>3 DEF Asked
<1>6. /\ InStock(items) => Orderable(items)
      /\ \A i \in DOMAIN items : i \in RowIds /\ InCart(i, p.user) /\ items[i] = rows[i]
  BY <1>3, <1>4, <1>5, WhatIsRead
<1>7. CASE Go(r, Idle)
  BY <1>7
<1>8. ASSUME InStock(items),
             Go(r, [at |-> IF p.form.code = NoCode THEN "create order" ELSE "validate code",
                    user |-> p.user, items |-> items, code |-> p.form.code,
                    total |-> Total(items)])
      PROVE  \E q : /\ Go(r, q)
                    /\ Buying(q) /\ q.user = p.user
                    /\ q.at = "create order" => q.code = NoCode
                    /\ q.at # "count use"
                    /\ \A i \in DOMAIN q.items :
                         i \in RowIds /\ InCart(i, q.user) /\ q.items[i] = rows[i]
  <2>1. PICK place : /\ place = IF p.form.code = NoCode THEN "create order" ELSE "validate code"
    OBVIOUS
  <2>2. place \in {"validate code", "create order", "count use"}
    BY <2>1
  <2> DEFINE q == [at |-> place, user |-> p.user, items |-> items, code |-> p.form.code,
                   total |-> Total(items)]
  <2>3. Buying(q)
    BY <2>1, <2>2, <1>3, <1>6, <1>8, StartsBuying DEF Charge
  <2>4. /\ q.at = place /\ q.user = p.user /\ q.items = items /\ q.code = p.form.code
    OBVIOUS
  <2>5. Go(r, q)
    BY <1>8, <2>1
  <2> HIDE DEF q
  <2> QED BY <2>1, <2>3, <2>4, <2>5, <1>6
<1> QED BY <1>1, <1>4, <1>7, <1>8 DEF ReadRows, Ends

LEMMA ValidatesCode ==
  ASSUME RequestsOK, NEW r \in Requests, ValidatePromoCode(r)
  PROVE  \E q : /\ Go(r, q)
                /\ \/ q = Idle
                   \/ /\ Buying(q) /\ q.at = "create order"
                      /\ q.user = request[r].user /\ q.items = request[r].items
                      /\ q.code = request[r].code /\ q.code \in Codes /\ ~UsedUp(q.code)
<1>1. PICK p : p = request[r]
  OBVIOUS
<1>2. Buying(p) /\ p.at = "validate code"
  BY <1>1, KindOf DEF ValidatePromoCode
<1>3. CASE Go(r, Idle)
  BY <1>3
<1>4. ASSUME ~UsedUp(p.code),
             Go(r, [p EXCEPT !.at = "create order", !.total = Discounted(p.code, @)])
      PROVE  \E q : /\ Go(r, q)
                    /\ Buying(q) /\ q.at = "create order"
                    /\ q.user = p.user /\ q.items = p.items
                    /\ q.code = p.code /\ q.code \in Codes /\ ~UsedUp(q.code)
  <2>1. PICK total : total = Discounted(p.code, p.total)
    OBVIOUS
  <2> DEFINE q == [at |-> "create order", user |-> p.user, items |-> p.items, code |-> p.code,
                   total |-> total]
  <2>2. [p EXCEPT !.at = "create order", !.total = Discounted(p.code, @)] = q
    BY <1>2, <2>1, MovesFromBuying, Zenon
  <2>3. /\ p.user \in Users /\ p.code \in Codes /\ Orderable(p.items)
        /\ p.total = Total(p.items) /\ p.code # NoCode
    BY <1>2, ShopAssumptions DEF Buying
  <2>4. total = Charge(p.code, p.items)
    BY <2>1, <2>3 DEF Charge
  <2>5. Buying(q)
    BY <2>3, <2>4, StartsBuying
  <2>6. q.at = "create order" /\ q.user = p.user /\ q.items = p.items /\ q.code = p.code
    OBVIOUS
  <2> HIDE DEF q
  <2> QED BY <1>4, <2>2, <2>3, <2>5, <2>6
<1> QED BY <1>1, <1>3, <1>4 DEF ValidatePromoCode, Ends

LEMMA CreatesOrder ==
  ASSUME RequestsOK, NEW r \in Requests, CreateOrder(r)
  PROVE  \E q : /\ Go(r, q)
                /\ \/ q = Idle /\ request[r].code = NoCode
                   \/ /\ Buying(q) /\ q.at = "count use"
                      /\ q.user = request[r].user /\ q.items = request[r].items
                      /\ q.code = request[r].code /\ q.code \in Codes
<1>1. PICK p : p = request[r]
  OBVIOUS
<1>2. Buying(p) /\ p.at = "create order"
  BY <1>1, KindOf DEF CreateOrder
<1>3. CASE p.code = NoCode
  BY <1>1, <1>3 DEF CreateOrder, Ends
<1>4. CASE p.code # NoCode
  <2> DEFINE q == [at |-> "count use", user |-> p.user, items |-> p.items, code |-> p.code,
                   total |-> p.total]
  <2>2. [p EXCEPT !.at = "count use"] = q
    BY <1>2, MovesFromBuying, Zenon
  <2>3. /\ p.user \in Users /\ p.code \in Codes /\ Orderable(p.items)
        /\ p.total = Charge(p.code, p.items)
    BY <1>2, <1>4 DEF Buying
  <2>5. Buying(q)
    BY <2>3, StartsBuying
  <2>6. q.at = "count use" /\ q.user = p.user /\ q.items = p.items /\ q.code = p.code
    OBVIOUS
  <2>7. Go(r, q)
    BY <1>1, <1>4, <2>2 DEF CreateOrder, Moves
  <2> HIDE DEF q
  <2> QED BY <1>1, <2>3, <2>5, <2>6, <2>7
<1> QED BY <1>3, <1>4

LEMMA FindsRow ==
  ASSUME RequestsOK, NEW r \in Requests, FindRow(r)
  PROVE  \E q : /\ Go(r, q)
                /\ \/ q = Idle
                   \/ /\ Asking(q) /\ q.at = "delete row" /\ q.user = request[r].user
                      /\ InCart(q.form.row, q.user)
<1>1. PICK p : p = request[r]
  OBVIOUS
<1>2. Asking(p) /\ p.at = "find row"
  BY <1>1, KindOf DEF FindRow
<1>3. CASE Go(r, Idle)
  BY <1>3
<1>4. ASSUME InCart(p.form.row, p.user), Go(r, [p EXCEPT !.at = "delete row"])
      PROVE  \E q : /\ Go(r, q)
                    /\ Asking(q) /\ q.at = "delete row" /\ q.user = p.user
                    /\ InCart(q.form.row, q.user)
  <2>1. PICK q : q = [p EXCEPT !.at = "delete row"]
    OBVIOUS
  <2>2. Asking(q)
    BY <1>2, <2>1, MovesFromAsking
  <2>3. q.at = "delete row" /\ q.user = p.user /\ q.form = p.form
    BY <1>2, <2>1 DEF Asking
  <2> QED BY <1>4, <2>1, <2>2, <2>3
<1> QED BY <1>1, <1>3, <1>4 DEF FindRow, Ends, Moves

LEMMA RequestsNext ==
  ASSUME RequestsOK, RowsOK, [ShopNext]_shopVars
  PROVE  RequestsOK'
<1>1. ASSUME NEW r \in Requests, Go(r, Idle)
      PROVE  RequestsOK'
  BY <1>1, MovesOn
<1>2. ASSUME NEW r \in Requests, NEW t \in Traffic, Arrive(r, t[1], t[2])
      PROVE  RequestsOK'
  BY <1>2, Arrivals, MovesOn DEF Arrive
<1>3. ASSUME NEW r \in Requests, Serve(r)
      PROVE  RequestsOK'
  <2>1. CASE CreateCart(r) \/ AddItem(r) \/ DeleteItem(r) \/ SetItemQuantity(r)
             \/ Rollback(r) \/ IncrementUsage(r) \/ IncrementFails(r)
    BY <2>1, <1>1
       DEF CreateCart, AddItem, DeleteItem, SetItemQuantity, Rollback, IncrementUsage,
           IncrementFails, Ends
  <2>2. CASE FindRow(r)
    BY <2>2, FindsRow, MovesOn
  <2>3. CASE ReadRows(r)
    BY <2>3, ReadsRows, MovesOn
  <2>4. CASE ValidatePromoCode(r)
    BY <2>4, ValidatesCode, MovesOn
  <2>5. CASE CreateOrder(r)
    BY <2>5, CreatesOrder, MovesOn
  <2> QED BY <1>3, <2>1, <2>2, <2>3, <2>4, <2>5 DEF Serve
<1>4. ASSUME UNCHANGED request
      PROVE  RequestsOK'
  BY <1>4 DEF RequestsOK
<1> QED BY <1>2, <1>3, <1>4 DEF ShopNext, shopVars, Expire

-----------------------------------------------------------------------------
(* RowsOK.                                                                 *)

LEMMA NewRow ==
  ASSUME NEW u \in Users, NEW p \in Products, NEW q \in 1..MaxQuantity
  PROVE  LET w == [cart |-> u, product |-> p, quantity |-> q]
         IN w \in Row /\ w # NoRow /\ w.cart = u /\ w.product = p
<1> DEFINE w == [cart |-> u, product |-> p, quantity |-> q]
<1>1. w \in Row /\ w.cart = u /\ w.product = p
  BY DEF Row
<1>2. w # NoRow
  BY <1>1, ShopAssumptions
<1> QED BY <1>1, <1>2

LEMMA SetRow ==
  ASSUME NEW w \in Row, NEW q \in 1..MaxQuantity
  PROVE  LET z == [w EXCEPT !.quantity = q]
         IN z \in Row /\ z # NoRow /\ z.cart = w.cart /\ z.product = w.product
<1> DEFINE z == [w EXCEPT !.quantity = q]
<1>1. z \in Row /\ z.cart = w.cart /\ z.product = w.product
  BY DEF Row
<1>2. z # NoRow
  BY <1>1, ShopAssumptions DEF Row
<1> QED BY <1>1, <1>2

\* What a step does to the rows: it adds one, deletes one, sets a quantity, or
\* leaves them alone.
Adds(u, p) ==
  /\ u \in Users /\ p \in Products /\ ~AlreadyCarted(u, p) /\ lastRow + 1 \in RowIds
  /\ lastRow' = lastRow + 1 /\ carted' = carted \cup {<<u, lastRow + 1, p>>}
  /\ rows'[lastRow + 1] \in Row /\ rows'[lastRow + 1] # NoRow
  /\ rows'[lastRow + 1].cart = u /\ rows'[lastRow + 1].product = p
  /\ \A i \in RowIds \ {lastRow + 1} : rows'[i] = rows[i]

Deletes(r) ==
  /\ request[r].at = "delete row" /\ request'[r] = Idle
  /\ rows'[request[r].form.row] = NoRow
  /\ \A i \in RowIds \ {request[r].form.row} : rows'[i] = rows[i]
  /\ UNCHANGED <<lastRow, carted>>

Sets(r) ==
  LET i == request[r].form.row
  IN /\ request[r].at = "set quantity" /\ request'[r] = Idle
     /\ InCart(i, request[r].user)
     /\ rows[i] # NoRow /\ rows'[i] # NoRow /\ rows'[i] \in Row
     /\ rows'[i].cart = rows[i].cart /\ rows'[i].product = rows[i].product
     /\ \A j \in RowIds \ {i} : rows'[j] = rows[j]
     /\ UNCHANGED <<lastRow, carted>>

LEMMA RowsMove ==
  ASSUME RequestsOK, RowsOK, [ShopNext]_shopVars
  PROVE  /\ rows' \in [RowIds -> Row \cup {NoRow}]
         /\ \/ UNCHANGED <<rows, lastRow, carted>>
            \/ \E u, p : Adds(u, p)
            \/ \E r \in Requests : Deletes(r) \/ Sets(r)
<1>1. rows \in [RowIds -> Row \cup {NoRow}]
  BY DEF RowsOK
<1>2. ASSUME UNCHANGED <<rows, lastRow, carted>>
      PROVE  rows' \in [RowIds -> Row \cup {NoRow}] /\ UNCHANGED <<rows, lastRow, carted>>
  BY <1>1, <1>2
<1>3. ASSUME NEW r \in Requests, AddItem(r)
      PROVE  rows' \in [RowIds -> Row \cup {NoRow}] /\ (UNCHANGED <<rows, lastRow, carted>> \/ \E u, p : Adds(u, p))
  <2>1. PICK u, p, q : /\ u = request[r].user /\ p = request[r].form.product
                       /\ q = request[r].form.quantity
    OBVIOUS
  <2>2. u \in Users /\ p \in Products /\ q \in 1..MaxQuantity
    BY <1>3, <2>1, KindOf, AskedFor DEF AddItem
  <2>3. CASE UNCHANGED <<rows, lastRow, carted>>
    BY <2>3, <1>2
  <2>4. CASE /\ ~AlreadyCarted(u, p) /\ lastRow < MaxRows /\ lastRow' = lastRow + 1
             /\ rows' = [rows EXCEPT ![lastRow + 1] =
                           [cart |-> u, product |-> p, quantity |-> q]]
             /\ carted' = carted \cup {<<u, lastRow + 1, p>>}
    <3>1. lastRow + 1 \in RowIds
      BY <2>4, ShopAssumptions DEF RowsOK, RowIds
    <3>2. PICK w : w = [cart |-> u, product |-> p, quantity |-> q]
      OBVIOUS
    <3>3. w \in Row /\ w # NoRow /\ w.cart = u /\ w.product = p
      BY <2>2, <3>2, NewRow
    <3>4. rows' = [rows EXCEPT ![lastRow + 1] = w]
      BY <2>4, <3>2
    <3>5. Adds(u, p)
      BY <1>1, <2>2, <2>4, <3>1, <3>3, <3>4 DEF Adds
    <3>6. rows' \in [RowIds -> Row \cup {NoRow}]
      BY <1>1, <3>1, <3>3, <3>4
    <3> QED BY <3>5, <3>6
  <2> QED BY <1>3, <2>1, <2>3, <2>4 DEF AddItem
<1>4. ASSUME NEW r \in Requests, DeleteItem(r)
      PROVE  rows' \in [RowIds -> Row \cup {NoRow}] /\ Deletes(r)
  <2>1. PICK i : i = request[r].form.row
    OBVIOUS
  <2>2. i \in RowIds
    BY <1>4, <2>1, KindOf, AskedFor DEF DeleteItem
  <2>3. rows' = [rows EXCEPT ![i] = NoRow]
    BY <1>4, <2>1 DEF DeleteItem
  <2>4. request'[r] = Idle
    BY <1>4, OnlyMoves DEF DeleteItem, Ends
  <2> QED BY <1>1, <1>4, <2>1, <2>2, <2>3, <2>4 DEF DeleteItem, Deletes
<1>5. ASSUME NEW r \in Requests, SetItemQuantity(r)
      PROVE  rows' \in [RowIds -> Row \cup {NoRow}] /\ (UNCHANGED <<rows, lastRow, carted>> \/ Sets(r))
  <2>1. PICK u, i, q : /\ u = request[r].user /\ i = request[r].form.row
                       /\ q = request[r].form.quantity
    OBVIOUS
  <2>2. u \in Users /\ i \in RowIds /\ q \in 1..MaxQuantity
    BY <1>5, <2>1, KindOf, AskedFor DEF SetItemQuantity
  <2>3. request'[r] = Idle /\ UNCHANGED <<lastRow, carted>> /\ request[r].at = "set quantity"
    BY <1>5, OnlyMoves DEF SetItemQuantity, Ends
  <2>4. CASE ~InCart(i, u)
    BY <1>1, <1>5, <2>1, <2>3, <2>4 DEF SetItemQuantity, MaySet
  <2>5. CASE InCart(i, u)
    <3>1. rows[i] # NoRow /\ rows[i] \in Row
      BY <2>2, <2>5, UserOfRow
    <3>2. PICK w : w = [rows[i] EXCEPT !.quantity = q]
      OBVIOUS
    <3>3. w \in Row /\ w # NoRow /\ w.cart = rows[i].cart /\ w.product = rows[i].product
      BY <2>2, <3>1, <3>2, SetRow
    <3>4. rows' = [rows EXCEPT ![i] = w]
      BY <1>5, <2>1, <2>5, <3>2 DEF SetItemQuantity, MaySet
    <3>5. rows'[i] = w /\ \A j \in RowIds \ {i} : rows'[j] = rows[j]
      BY <1>1, <2>2, <3>4
    <3> QED BY <1>1, <2>1, <2>3, <2>5, <3>1, <3>3, <3>4, <3>5 DEF Sets
  <2> QED BY <2>4, <2>5
<1>6. ASSUME NEW r \in Requests, Serve(r)
      PROVE  \/ UNCHANGED <<rows, lastRow, carted>>
             \/ AddItem(r) \/ DeleteItem(r) \/ SetItemQuantity(r)
  BY <1>6 DEF Serve, CreateCart, FindRow, ReadRows, ValidatePromoCode, CreateOrder, Rollback,
              IncrementUsage, IncrementFails
<1>7. \/ UNCHANGED <<rows, lastRow, carted>>
      \/ \E r \in Requests : Serve(r)
  BY DEF ShopNext, shopVars, Expire, Arrive
<1> QED BY <1>2, <1>3, <1>4, <1>5, <1>6, <1>7

LEMMA RowsNext ==
  ASSUME RequestsOK, RowsOK, [ShopNext]_shopVars
  PROVE  RowsOK'
<1>1. rows' \in [RowIds -> Row \cup {NoRow}]
  BY RowsMove
<1>2. CASE UNCHANGED <<rows, lastRow, carted>>
  BY <1>2 DEF RowsOK
<1>3. ASSUME NEW u, NEW p, Adds(u, p)
      PROVE  RowsOK'
  <2>1. lastRow \in Nat /\ lastRow + 1 <= MaxRows /\ MaxRows \in Nat
    BY <1>3, ShopAssumptions DEF Adds, RowsOK, RowIds
  <2>3. lastRow' \in 0..MaxRows
    BY <1>3, <2>1 DEF Adds
  <2>4. \A i \in RowIds : i > lastRow' => rows'[i] = NoRow
    BY <1>3, <2>1 DEF Adds, RowsOK, RowIds
  <2>5. \A i \in RowIds : rows[i] # NoRow /\ rows[i].cart = u => rows[i].product # p
    BY <1>3 DEF Adds, AlreadyCarted, InCart
  <2>6. \A i, j \in RowIds : rows'[i] # NoRow /\ i # j /\ rows'[i].cart = rows'[j].cart
                              => rows'[i].product # rows'[j].product
    <3> SUFFICES ASSUME NEW i \in RowIds, NEW j \in RowIds, rows'[i] # NoRow, i # j,
                        rows'[i].cart = rows'[j].cart
                 PROVE  rows'[i].product # rows'[j].product
      OBVIOUS
    <3>1. rows'[j] # NoRow
      BY <1>3, ShopAssumptions DEF Adds, RowsOK, Row
    <3>2. CASE i # lastRow + 1 /\ j # lastRow + 1
      BY <1>3, <3>2 DEF Adds, RowsOK
    <3>3. CASE i = lastRow + 1
      BY <1>3, <3>1, <3>3, <2>5 DEF Adds
    <3>4. CASE j = lastRow + 1
      BY <1>3, <3>4, <2>5 DEF Adds
    <3> QED BY <3>2, <3>3, <3>4
  <2> QED BY <1>1, <2>3, <2>4, <2>6 DEF RowsOK
<1>4. ASSUME NEW r \in Requests, Deletes(r)
      PROVE  RowsOK'
  <2>1. \A i \in RowIds : rows'[i] = NoRow \/ rows'[i] = rows[i]
    BY <1>4 DEF Deletes
  <2>3. lastRow' = lastRow
    BY <1>4 DEF Deletes
  <2>4. \A i, j \in RowIds : rows'[i] # NoRow /\ i # j /\ rows'[i].cart = rows'[j].cart
                              => rows'[i].product # rows'[j].product
    <3> SUFFICES ASSUME NEW i \in RowIds, NEW j \in RowIds, rows'[i] # NoRow, i # j,
                        rows'[i].cart = rows'[j].cart
                 PROVE  rows'[i].product # rows'[j].product
      OBVIOUS
    <3>1. rows'[j] # NoRow
      BY <2>1, ShopAssumptions DEF RowsOK, Row
    <3> QED BY <2>1, <3>1 DEF RowsOK
  <2> QED BY <1>1, <2>1, <2>3, <2>4 DEF RowsOK
<1>5. ASSUME NEW r \in Requests, Sets(r)
      PROVE  RowsOK'
  <2>1. \A i \in RowIds : /\ (rows'[i] = NoRow) = (rows[i] = NoRow)
                          /\ rows'[i].cart = rows[i].cart /\ rows'[i].product = rows[i].product
    BY <1>5 DEF Sets, RowsOK
  <2>3. lastRow' = lastRow
    BY <1>5 DEF Sets
  <2> QED BY <1>1, <2>1, <2>3 DEF RowsOK
<1> QED BY <1>2, <1>3, <1>4, <1>5, RowsMove

-----------------------------------------------------------------------------
(* OrdersOK.                                                               *)

LEMMA OneMoreOrder ==
  ASSUME OrdersOK, NEW r \in Requests, CreateOrder(r)
  PROVE  \E o : /\ o.user = request[r].user /\ o.items = request[r].items
                /\ o.total = request[r].total /\ o.code = request[r].code
                /\ \E S : orders' \in Seq(S)
                /\ DOMAIN orders' = DOMAIN orders \cup {Len(orders) + 1}
                /\ Len(orders) + 1 \notin DOMAIN orders
                /\ orders'[Len(orders) + 1] = o
                /\ \A k \in DOMAIN orders : orders'[k] = orders[k]
<1>1. PICK p : p = request[r]
  OBVIOUS
<1>2. PICK o : o = [user |-> p.user, items |-> p.items, total |-> p.total, code |-> p.code]
  OBVIOUS
<1>3. orders' = Append(orders, o)
  BY <1>1, <1>2 DEF CreateOrder, StoredItems
<1>4. PICK S : orders \in Seq(S)
  BY DEF OrdersOK
<1>5. /\ DOMAIN orders' = DOMAIN orders \cup {Len(orders) + 1}
      /\ Len(orders) + 1 \notin DOMAIN orders
      /\ orders'[Len(orders) + 1] = o
      /\ \A k \in DOMAIN orders : orders'[k] = orders[k]
  BY <1>3, <1>4
<1>6. orders' \in Seq(S \cup {o})
  <2>1. orders \in Seq(S \cup {o})
    BY <1>4
  <2> QED BY <1>3, <2>1
<1> QED BY <1>1, <1>2, <1>5, <1>6

LEMMA OrdersMove ==
  ASSUME [ShopNext]_shopVars
  PROVE  orders' = orders \/ \E r \in Requests : CreateOrder(r)
<1>1. ASSUME NEW r \in Requests, Serve(r)
      PROVE  orders' = orders \/ CreateOrder(r)
  BY <1>1 DEF Serve, CreateCart, AddItem, FindRow, DeleteItem, SetItemQuantity, ReadRows,
              ValidatePromoCode, Rollback, IncrementUsage, IncrementFails
<1>2. orders' = orders \/ \E r \in Requests : Serve(r)
  BY DEF ShopNext, shopVars, Expire, Arrive
<1> QED BY <1>1, <1>2

LEMMA OrdersNext ==
  ASSUME RequestsOK, OrdersOK, [ShopNext]_shopVars
  PROVE  OrdersOK'
<1>1. CASE orders' = orders
  BY <1>1 DEF OrdersOK
<1>2. ASSUME NEW r \in Requests, CreateOrder(r)
      PROVE  OrdersOK'
  <2>1. PICK o : /\ o.user = request[r].user /\ o.items = request[r].items
                 /\ o.total = request[r].total /\ o.code = request[r].code
                 /\ \E S : orders' \in Seq(S)
                 /\ DOMAIN orders' = DOMAIN orders \cup {Len(orders) + 1}
                 /\ orders'[Len(orders) + 1] = o
                 /\ \A k \in DOMAIN orders : orders'[k] = orders[k]
    BY <1>2, OneMoreOrder
  <2>2. OrderOK(o)
    BY <1>2, <2>1, KindOf DEF CreateOrder, Buying, OrderOK
  <2> QED BY <2>1, <2>2 DEF OrdersOK
<1> QED BY <1>1, <1>2, OrdersMove

-----------------------------------------------------------------------------
(* DeletesOwn and CartedOK.                                                *)

\* Where a step takes a request: to the deletion of a row it has just seen in
\* its own cart, or to a purchase of rows that have been in its own cart.
LEMMA WhereTo ==
  ASSUME RequestsOK, RowsOK, CartedOK, NEW r \in Requests, NEW q, Go(r, q),
         Serve(r) \/ \E t \in Traffic : Arrive(r, t[1], t[2])
  PROVE  /\ q.at = "delete row" =>
              q.form.row \in RowIds /\ InCart(q.form.row, q.user) /\ rows' = rows
         /\ Buying(q) => Carted(q.user, q.items)
<1>1. request'[r] = q /\ \A p : Go(r, p) => p = q
  BY OnlyMoves
<1>2. CASE q = Idle
  BY <1>2, IdleAt
<1>3. ASSUME NEW t \in Traffic, Arrive(r, t[1], t[2])
      PROVE  q.at # "delete row" /\ ~Buying(q)
  <2>1. PICK w : w = [at |-> FirstStep[t[2].handler], user |-> t[1], form |-> t[2]]
    OBVIOUS
  <2>2. q = w
    BY <1>1, <1>3, <2>1 DEF Arrive
  <2>3. /\ w.at = FirstStep[t[2].handler] /\ w.form = t[2] /\ t[2] \in Forms
    BY <2>1, TrafficAssumption
  <2>4. w.at # "delete row"
    <3>1. t[2].handler \in {"getCurrentUserCart", "addCardItem", "removeCartItem",
                            "setCartItemQuantity", "handleCheckout"}
      BY <2>3, FormType
    <3> QED BY <2>3, <3>1, FirstSteps
  <2>5. Asking(w)
    BY <2>1, Arrivals
  <2> QED BY <2>2, <2>4, <2>5 DEF Asking, Buying
<1>4. CASE CreateCart(r) \/ AddItem(r) \/ DeleteItem(r) \/ SetItemQuantity(r)
           \/ Rollback(r) \/ IncrementUsage(r) \/ IncrementFails(r)
  BY <1>1, <1>2, <1>4
     DEF CreateCart, AddItem, DeleteItem, SetItemQuantity, Rollback, IncrementUsage,
         IncrementFails, Ends
<1>5. CASE FindRow(r)
  <2>1. q = Idle \/ (Asking(q) /\ q.at = "delete row" /\ InCart(q.form.row, q.user))
    BY <1>1, <1>5, FindsRow
  <2>2. rows' = rows
    BY <1>5 DEF FindRow
  <2>3. Asking(q) /\ q.at = "delete row" => q.form.row \in RowIds /\ ~Buying(q)
    BY AskedFor DEF Asking, Buying
  <2> QED BY <1>2, <2>1, <2>2, <2>3
<1>6. CASE ReadRows(r)
  <2>1. \/ q = Idle
        \/ /\ Buying(q) /\ q.user = request[r].user
           /\ \A i \in DOMAIN q.items :
                i \in RowIds /\ InCart(i, q.user) /\ q.items[i] = rows[i]
    BY <1>1, <1>6, ReadsRows
  <2>2. ASSUME Buying(q),
               \A i \in DOMAIN q.items :
                 i \in RowIds /\ InCart(i, q.user) /\ q.items[i] = rows[i]
        PROVE  Carted(q.user, q.items)
    <3> SUFFICES ASSUME NEW i \in DOMAIN q.items
                 PROVE  <<q.user, i, q.items[i].product>> \in carted
      BY DEF Carted
    <3>1. i \in RowIds /\ InCart(i, q.user) /\ q.items[i] = rows[i] /\ q.user \in Users
      BY <2>2 DEF Buying
    <3>2. rows[i] # NoRow /\ rows[i].cart = q.user
      BY <3>1, UserOfRow DEF InCart
    <3> QED BY <3>1, <3>2 DEF CartedOK
  <2>3. Buying(q) => q.at # "delete row"
    BY DEF Buying
  <2> QED BY <1>2, <2>1, <2>2, <2>3
<1>7. CASE ValidatePromoCode(r) \/ CreateOrder(r)
  <2>1. \/ q = Idle
        \/ Buying(q) /\ q.user = request[r].user /\ q.items = request[r].items
    BY <1>1, <1>7, ValidatesCode, CreatesOrder
  <2>2. Buying(request[r])
    BY <1>7, KindOf DEF ValidatePromoCode, CreateOrder
  <2>3. Buying(q) => q.at # "delete row"
    BY DEF Buying
  <2> QED BY <1>2, <2>1, <2>2, <2>3 DEF CartedOK
<1> QED BY <1>3, <1>4, <1>5, <1>6, <1>7 DEF Serve

\* Which request moves, if any.
LEMMA WhoMoves ==
  ASSUME RequestsOK, RowsOK, [ShopNext]_shopVars
  PROVE  \/ UNCHANGED request
         \/ \E r \in Requests : \E q :
              Go(r, q) /\ (Serve(r) \/ \E t \in Traffic : Arrive(r, t[1], t[2]))
<1>1. ASSUME NEW r \in Requests, \E t \in Traffic : Arrive(r, t[1], t[2])
      PROVE  \E q : Go(r, q)
  BY <1>1 DEF Arrive
<1>2. ASSUME NEW r \in Requests, Serve(r)
      PROVE  \E q : Go(r, q)
  BY <1>2 DEF Serve, CreateCart, AddItem, FindRow, DeleteItem, SetItemQuantity, ReadRows,
              ValidatePromoCode, CreateOrder, Rollback, IncrementUsage, IncrementFails,
              Ends, Moves
<1> QED BY <1>1, <1>2 DEF ShopNext, shopVars, Expire

LEMMA DeletesOwnNext ==
  ASSUME RequestsOK, RowsOK, CartedOK, DeletesOwn, [ShopNext]_shopVars
  PROVE  DeletesOwn'
<1>1. /\ lastRow <= lastRow'
      /\ \A i \in RowIds : i <= lastRow =>
           \/ rows'[i] = NoRow
           \/ rows'[i] = rows[i]
           \/ rows[i] # NoRow /\ rows'[i].cart = rows[i].cart
  <2>1. lastRow \in Int
    BY DEF RowsOK
  <2>2. ASSUME NEW u, NEW p, Adds(u, p)
        PROVE  <1>1!:
    BY <2>1, <2>2 DEF Adds, RowIds
  <2>3. ASSUME NEW r \in Requests, Deletes(r)
        PROVE  <1>1!:
    <3>1. lastRow' = lastRow
      BY <2>3 DEF Deletes
    <3>2. \A i \in RowIds : \/ rows'[i] = NoRow
                            \/ rows'[i] = rows[i]
                            \/ rows[i] # NoRow /\ rows'[i].cart = rows[i].cart
      BY <2>3 DEF Deletes
    <3> QED BY <2>1, <3>1, <3>2
  <2>4. ASSUME NEW r \in Requests, Sets(r)
        PROVE  <1>1!:
    <3>1. lastRow' = lastRow
      BY <2>4 DEF Sets
    <3>2. \A i \in RowIds : \/ rows'[i] = NoRow
                            \/ rows'[i] = rows[i]
                            \/ rows[i] # NoRow /\ rows'[i].cart = rows[i].cart
      BY <2>4 DEF Sets
    <3> QED BY <2>1, <3>1, <3>2
  <2> QED BY <2>1, <2>2, <2>3, <2>4, RowsMove
<1>2. ASSUME NEW r \in Requests, request'[r].at = "delete row"
      PROVE  LET i == request'[r].form.row
             IN i <= lastRow' /\ (rows'[i] = NoRow \/ rows'[i].cart = request'[r].user)
  <2>1. PICK p : p = request'[r]
    OBVIOUS
  <2>2. p = Idle \/ Asking(p) \/ Buying(p)
    BY <2>1, RequestsNext DEF RequestsOK
  <2>3. p.form.row \in RowIds
    BY <1>2, <2>1, <2>2, IdleAt, AskedFor DEF Buying
  <2>4. lastRow \in Int /\ lastRow' \in Int
    BY RowsNext DEF RowsOK
  <2>5. CASE request'[r] = request[r]
    <3>1. p.form.row <= lastRow /\ (rows[p.form.row] = NoRow \/ rows[p.form.row].cart = p.user)
      BY <1>2, <2>1, <2>5 DEF DeletesOwn
    <3>2. rows[p.form.row] = NoRow => rows'[p.form.row] = NoRow
      BY <1>1, <2>3, <3>1
    <3>3. p.form.row <= lastRow'
      BY <1>1, <2>3, <2>4, <3>1 DEF RowIds
    <3>4. rows'[p.form.row] = NoRow \/ rows'[p.form.row].cart = p.user
      BY <1>1, <2>3, <3>1, <3>2
    <3> QED BY <2>1, <3>3, <3>4
  <2>6. CASE request'[r] # request[r]
    <3>0. PICK s \in Requests :
           \E q : Go(s, q) /\ (Serve(s) \/ \E t \in Traffic : Arrive(s, t[1], t[2]))
      BY <2>6, WhoMoves
    <3>1. PICK q : Go(s, q) /\ (Serve(s) \/ \E t \in Traffic : Arrive(s, t[1], t[2]))
      BY <3>0
    <3>2. s = r /\ q = p
      BY <2>1, <2>6, <3>1, OnlyMoves
    <3>3. InCart(p.form.row, p.user) /\ rows' = rows
      BY <1>2, <2>1, <3>1, <3>2, WhereTo
    <3>4. p.user \in Users
      BY <1>2, <2>1, <2>2, IdleAt, AskedFor DEF Buying
    <3>5. p.form.row <= lastRow
      BY <2>3, <3>3, <3>4, UserOfRow
    <3> QED BY <1>1, <2>1, <2>3, <2>4, <3>3, <3>5 DEF InCart, RowIds
  <2> QED BY <2>5, <2>6
<1> QED BY <1>2 DEF DeletesOwn

LEMMA CartedNext ==
  ASSUME RequestsOK, RowsOK, CartedOK, OrdersOK, [ShopNext]_shopVars
  PROVE  CartedOK'
<1>1. carted \subseteq carted'
  BY RowsMove DEF Adds, Deletes, Sets
<1>2. \A i \in RowIds : rows'[i] # NoRow => <<rows'[i].cart, i, rows'[i].product>> \in carted'
  <2>1. ASSUME NEW u, NEW p, Adds(u, p)
        PROVE  <1>2!:
    BY <2>1 DEF Adds, CartedOK
  <2>2. ASSUME NEW r \in Requests, Deletes(r)
        PROVE  <1>2!:
    BY <2>2 DEF Deletes, CartedOK
  <2>3. ASSUME NEW r \in Requests, Sets(r)
        PROVE  <1>2!:
    BY <2>3 DEF Sets, CartedOK
  <2> QED BY <2>1, <2>2, <2>3, RowsMove DEF CartedOK
<1>3. \A u, items : Carted(u, items) => Carted(u, items)'
  BY <1>1 DEF Carted
<1>4. \A r \in Requests : Buying(request'[r]) => Carted(request[r].user, request[r].items)'
  <2> SUFFICES ASSUME NEW r \in Requests, Buying(request'[r])
               PROVE  Carted(request[r].user, request[r].items)'
    OBVIOUS
  <2>1. PICK p : p = request'[r]
    OBVIOUS
  <2>2. Carted(p.user, p.items)
    <3>1. CASE p = request[r]
      BY <2>1, <3>1 DEF CartedOK
    <3>2. CASE p # request[r]
      <4>0. PICK s \in Requests :
             \E q : Go(s, q) /\ (Serve(s) \/ \E t \in Traffic : Arrive(s, t[1], t[2]))
        BY <2>1, <3>2, WhoMoves
      <4>1. PICK q : Go(s, q) /\ (Serve(s) \/ \E t \in Traffic : Arrive(s, t[1], t[2]))
        BY <4>0
      <4>2. s = r /\ q = p
        BY <2>1, <3>2, <4>1, OnlyMoves
      <4> QED BY <2>1, <4>1, <4>2, WhereTo
    <3> QED BY <3>1, <3>2
  <2> QED BY <1>1, <2>1, <2>2 DEF Carted
<1>5. \A k \in DOMAIN orders' : Carted(orders[k].user, orders[k].items)'
  <2>1. CASE orders' = orders
    BY <1>1, <2>1 DEF Carted, CartedOK
  <2>2. ASSUME NEW r \in Requests, CreateOrder(r)
        PROVE  <1>5!:
    <3>1. PICK o : /\ o.user = request[r].user /\ o.items = request[r].items
                   /\ DOMAIN orders' = DOMAIN orders \cup {Len(orders) + 1}
                   /\ orders'[Len(orders) + 1] = o
                   /\ \A k \in DOMAIN orders : orders'[k] = orders[k]
      BY <2>2, OneMoreOrder
    <3>2. Carted(o.user, o.items)
      BY <2>2, <3>1, KindOf DEF CreateOrder, CartedOK
    <3> QED BY <1>1, <3>1, <3>2 DEF Carted, CartedOK
  <2> QED BY <2>1, <2>2, OrdersMove
<1>6. (\A r \in Requests : Buying(request[r]) => Carted(request[r].user, request[r].items))'
  BY <1>4
<1> QED BY <1>2, <1>5, <1>6 DEF CartedOK

-----------------------------------------------------------------------------
(* CountsOK.                                                               *)

ValidatedAt(q, c) == q.at \in {"create order", "count use"} /\ q.code = c
CountingAt(q, c)  == q.at = "count use" /\ q.code = c

LEMMA OneMoreOrLess ==
  ASSUME NEW S, IsFiniteSet(S), NEW r
  PROVE  /\ Cardinality(S) \in Nat
         /\ r \notin S => Cardinality(S \cup {r}) = Cardinality(S) + 1
         /\ r \in S => Cardinality(S \ {r}) = Cardinality(S) - 1
         /\ r \in S => S \cup {r} = S
         /\ r \notin S => S \ {r} = S
BY FS_CardinalityType, FS_AddElement, FS_RemoveElement

LEMMA SomeRequests ==
  ASSUME NEW S, S \subseteq Requests
  PROVE  IsFiniteSet(S) /\ Cardinality(S) \in Nat /\ Cardinality(S) <= Cardinality(Requests)
         /\ Cardinality(Requests) \in Nat
BY ShopAssumptions, FS_Subset, FS_CardinalityType

\* How a step of one request changes what counts for a code.
LEMMA HowMany ==
  ASSUME RequestsOK, NEW r \in Requests, NEW q, Go(r, q), NEW c
  PROVE  /\ Cardinality(Validated(c)') = Cardinality(Validated(c))
               + (IF ValidatedAt(q, c) THEN 1 ELSE 0)
               - (IF ValidatedAt(request[r], c) THEN 1 ELSE 0)
         /\ Cardinality(CountingUse(c)') = Cardinality(CountingUse(c))
               + (IF CountingAt(q, c) THEN 1 ELSE 0)
               - (IF CountingAt(request[r], c) THEN 1 ELSE 0)
<1>1. request'[r] = q /\ \A s \in Requests \ {r} : request'[s] = request[s]
  BY OnlyMoves
<1>2. Validated(c) = {s \in Requests : ValidatedAt(request[s], c)}
  BY DEF Validated, ValidatedAt
<1>3. CountingUse(c) = {s \in Requests : CountingAt(request[s], c)}
  BY DEF CountingUse, CountingAt
<1>4. Validated(c)' = {s \in Requests : ValidatedAt(request'[s], c)}
  BY DEF Validated, ValidatedAt
<1>5. CountingUse(c)' = {s \in Requests : CountingAt(request'[s], c)}
  BY DEF CountingUse, CountingAt
<1>6. Validated(c)' = IF ValidatedAt(q, c) THEN Validated(c) \cup {r} ELSE Validated(c) \ {r}
  BY <1>1, <1>2, <1>4
<1>7. CountingUse(c)' = IF CountingAt(q, c) THEN CountingUse(c) \cup {r}
                                            ELSE CountingUse(c) \ {r}
  BY <1>1, <1>3, <1>5
<1>8. IsFiniteSet(Validated(c)) /\ IsFiniteSet(CountingUse(c))
  BY <1>2, <1>3, SomeRequests
<1>9. /\ r \in Validated(c) <=> ValidatedAt(request[r], c)
      /\ r \in CountingUse(c) <=> CountingAt(request[r], c)
  BY <1>2, <1>3
<1>10. ASSUME NEW S, IsFiniteSet(S), NEW T, NEW b \in BOOLEAN,
              T = IF b THEN S \cup {r} ELSE S \ {r}
       PROVE  Cardinality(T) = Cardinality(S) + (IF b THEN 1 ELSE 0) - (IF r \in S THEN 1 ELSE 0)
  <2>1. /\ Cardinality(S) \in Nat
        /\ r \notin S => Cardinality(S \cup {r}) = Cardinality(S) + 1
        /\ r \in S => Cardinality(S \ {r}) = Cardinality(S) - 1
        /\ r \in S => S \cup {r} = S
        /\ r \notin S => S \ {r} = S
    BY <1>10, OneMoreOrLess
  <2>2. CASE b /\ r \in S
    BY <1>10, <2>1, <2>2
  <2>3. CASE b /\ r \notin S
    BY <1>10, <2>1, <2>3
  <2>4. CASE ~b /\ r \in S
    BY <1>10, <2>1, <2>4
  <2>5. CASE ~b /\ r \notin S
    <3>1. T = S
      BY <1>10, <2>1, <2>5
    <3> QED BY <2>1, <2>5, <3>1
  <2> QED BY <2>2, <2>3, <2>4, <2>5
<1>11. ValidatedAt(q, c) \in BOOLEAN /\ CountingAt(q, c) \in BOOLEAN
  BY DEF ValidatedAt, CountingAt
<1>12. Cardinality(Validated(c)') = Cardinality(Validated(c))
               + (IF ValidatedAt(q, c) THEN 1 ELSE 0) - (IF r \in Validated(c) THEN 1 ELSE 0)
  BY <1>6, <1>8, <1>10, <1>11, Zenon
<1>13. Cardinality(CountingUse(c)') = Cardinality(CountingUse(c))
               + (IF CountingAt(q, c) THEN 1 ELSE 0) - (IF r \in CountingUse(c) THEN 1 ELSE 0)
  BY <1>7, <1>8, <1>10, <1>11, Zenon
<1> QED BY <1>9, <1>12, <1>13

CountedFor(c) ==
  /\ Promo[c].max > 0 =>
       used[c] + Cardinality(Validated(c)) <= Promo[c].max + Cardinality(Requests) - 1
  /\ used[c] <= Cardinality(OrdersWith(c)) - Cardinality(CountingUse(c))
  /\ Cardinality(OrdersWith(c)) - Cardinality(CountingUse(c)) <= used[c] + uncounted[c]

LEMMA CountedForEach == UsesCounted <=> \A c \in Codes : CountedFor(c)
BY DEF UsesCounted, OvershootBounded, UsesAccounted, CountedFor

LEMMA SomeOrders ==
  ASSUME OrdersOK, NEW c
  PROVE  IsFiniteSet(OrdersWith(c)) /\ Cardinality(OrdersWith(c)) \in Nat
<1>1. PICK S : orders \in Seq(S)
  BY DEF OrdersOK
<1>2. DOMAIN orders = 1..Len(orders) /\ Len(orders) \in Nat
  BY <1>1
<1>3. IsFiniteSet(1..Len(orders))
  BY <1>2, FS_Interval
<1> QED BY <1>2, <1>3, FS_Subset, FS_CardinalityType DEF OrdersWith

\* The numbers that a step relates.
LEMMA Numbers ==
  ASSUME RequestsOK, OrdersOK, CountsOK, NEW c \in Codes
  PROVE  /\ Cardinality(Requests) \in Nat
         /\ Cardinality(Validated(c)) \in Nat
         /\ Cardinality(Validated(c)) <= Cardinality(Requests)
         /\ Cardinality(CountingUse(c)) \in Nat
         /\ Cardinality(OrdersWith(c)) \in Nat
         /\ used[c] \in Nat /\ uncounted[c] \in Nat /\ Promo[c].max \in Nat
<1>1. Validated(c) \subseteq Requests /\ CountingUse(c) \subseteq Requests
  BY DEF Validated, CountingUse
<1>2. Promo[c].max \in Nat
  BY ShopAssumptions
<1>3. used[c] \in Nat /\ uncounted[c] \in Nat
  BY DEF CountsOK
<1> QED BY <1>1, <1>2, <1>3, SomeRequests, SomeOrders

\* A step of a request that counts for a code as it did before.
LEMMA CountsAsBefore ==
  ASSUME RequestsOK, OrdersOK, CountsOK, NEW c \in Codes,
         NEW r \in Requests, NEW q, Go(r, q),
         ValidatedAt(q, c) => ValidatedAt(request[r], c),
         CountingAt(q, c) <=> CountingAt(request[r], c),
         used'[c] = used[c], uncounted'[c] = uncounted[c], OrdersWith(c)' = OrdersWith(c)
  PROVE  CountedFor(c)'
<1>1. CountedFor(c)
  BY CountedForEach DEF CountsOK
<1>2. Cardinality(CountingUse(c)') = Cardinality(CountingUse(c))
  BY HowMany, Numbers
<1>3. Cardinality(Validated(c)') \in Int /\ Cardinality(Validated(c)') <= Cardinality(Validated(c))
  BY HowMany, Numbers
<1>4. Cardinality(OrdersWith(c)') = Cardinality(OrdersWith(c))
  OBVIOUS
<1>5. Promo[c].max > 0 =>
        used'[c] + Cardinality(Validated(c)') <= Promo[c].max + Cardinality(Requests) - 1
  BY <1>1, <1>3, Numbers DEF CountedFor
<1>6. /\ used'[c] <= Cardinality(OrdersWith(c)') - Cardinality(CountingUse(c)')
      /\ Cardinality(OrdersWith(c)') - Cardinality(CountingUse(c)') <= used'[c] + uncounted'[c]
  BY <1>1, <1>2, <1>4 DEF CountedFor
<1> QED BY <1>5, <1>6 DEF CountedFor

\* A code that was not used up has room for one more request.
LEMMA CountsValidated ==
  ASSUME RequestsOK, OrdersOK, CountsOK, NEW c \in Codes, ~UsedUp(c),
         NEW r \in Requests, NEW q, Go(r, q), UNCHANGED <<orders, used, uncounted>>,
         CountingAt(q, c) <=> CountingAt(request[r], c), RequestsOK'
  PROVE  CountedFor(c)'
<1>1. CountedFor(c)
  BY CountedForEach DEF CountsOK
<1>2. Cardinality(CountingUse(c)') = Cardinality(CountingUse(c))
  BY HowMany, Numbers
<1>3. Cardinality(Validated(c)') \in Nat /\ Cardinality(Validated(c)') <= Cardinality(Requests)
  <2>1. Validated(c)' \subseteq Requests
    BY DEF Validated
  <2> QED BY <2>1, SomeRequests
<1>4. Cardinality(OrdersWith(c)') = Cardinality(OrdersWith(c))
  BY DEF OrdersWith
<1>5. Promo[c].max > 0 => used[c] <= Promo[c].max - 1
  BY Numbers DEF UsedUp
<1>6. Promo[c].max > 0 =>
        used'[c] + Cardinality(Validated(c)') <= Promo[c].max + Cardinality(Requests) - 1
  BY <1>3, <1>5, Numbers
<1>7. /\ used'[c] <= Cardinality(OrdersWith(c)') - Cardinality(CountingUse(c)')
      /\ Cardinality(OrdersWith(c)') - Cardinality(CountingUse(c)') <= used'[c] + uncounted'[c]
  BY <1>1, <1>2, <1>4 DEF CountedFor
<1> QED BY <1>6, <1>7 DEF CountedFor

LEMMA CountsOrder ==
  ASSUME RequestsOK, OrdersOK, CountsOK, NEW c \in Codes, NEW r \in Requests, CreateOrder(r)
  PROVE  CountedFor(c)'
<1>1. CountedFor(c)
  BY CountedForEach DEF CountsOK
<1>2. PICK q : /\ Go(r, q)
               /\ \/ q = Idle /\ request[r].code = NoCode
                  \/ /\ q.at = "count use" /\ q.code = request[r].code /\ q.code \in Codes
  BY CreatesOrder
<1>3. PICK o : /\ o.code = request[r].code
               /\ DOMAIN orders' = DOMAIN orders \cup {Len(orders) + 1}
               /\ Len(orders) + 1 \notin DOMAIN orders
               /\ orders'[Len(orders) + 1] = o
               /\ \A k \in DOMAIN orders : orders'[k] = orders[k]
  BY OneMoreOrder
<1>4. request[r].at = "create order" /\ used' = used /\ uncounted' = uncounted
  BY DEF CreateOrder
<1>5. CASE request[r].code # c
  <2>1. OrdersWith(c)' = OrdersWith(c)
    BY <1>3, <1>5 DEF OrdersWith
  <2>2. ~ValidatedAt(q, c) /\ ~CountingAt(q, c) /\ ~CountingAt(request[r], c)
    BY <1>2, <1>4, <1>5, IdleAt DEF ValidatedAt, CountingAt
  <2> QED BY <1>2, <1>4, <2>1, <2>2, CountsAsBefore
<1>6. CASE request[r].code = c
  <2>1. q.at = "count use" /\ q.code = c
    BY <1>2, <1>6, ShopAssumptions
  <2>2. /\ ValidatedAt(q, c) /\ ValidatedAt(request[r], c)
        /\ CountingAt(q, c) /\ ~CountingAt(request[r], c)
    BY <1>4, <1>6, <2>1 DEF ValidatedAt, CountingAt
  <2>3. /\ Cardinality(Validated(c)') = Cardinality(Validated(c))
        /\ Cardinality(CountingUse(c)') = Cardinality(CountingUse(c)) + 1
    <3>1. Cardinality(Validated(c)') = Cardinality(Validated(c))
               + (IF ValidatedAt(q, c) THEN 1 ELSE 0)
               - (IF ValidatedAt(request[r], c) THEN 1 ELSE 0)
      BY <1>2, HowMany
    <3>2. Cardinality(CountingUse(c)') = Cardinality(CountingUse(c))
               + (IF CountingAt(q, c) THEN 1 ELSE 0)
               - (IF CountingAt(request[r], c) THEN 1 ELSE 0)
      BY <1>2, HowMany
    <3> QED BY <2>2, <3>1, <3>2, Numbers
  <2>4. OrdersWith(c)' = OrdersWith(c) \cup {Len(orders) + 1}
    BY <1>3, <1>6 DEF OrdersWith
  <2>5. Len(orders) + 1 \notin OrdersWith(c)
    BY <1>3 DEF OrdersWith
  <2>6. Cardinality(OrdersWith(c)') = Cardinality(OrdersWith(c)) + 1
    BY <2>4, <2>5, SomeOrders, OneMoreOrLess
  <2>7. Promo[c].max > 0 =>
          used'[c] + Cardinality(Validated(c)') <= Promo[c].max + Cardinality(Requests) - 1
    BY <1>1, <1>4, <2>3 DEF CountedFor
  <2>8. /\ used'[c] <= Cardinality(OrdersWith(c)') - Cardinality(CountingUse(c)')
        /\ Cardinality(OrdersWith(c)') - Cardinality(CountingUse(c)') <= used'[c] + uncounted'[c]
    <3>1. /\ used[c] <= Cardinality(OrdersWith(c)) - Cardinality(CountingUse(c))
          /\ Cardinality(OrdersWith(c)) - Cardinality(CountingUse(c)) <= used[c] + uncounted[c]
      BY <1>1 DEF CountedFor
    <3>2. Cardinality(OrdersWith(c)') - Cardinality(CountingUse(c)')
            = Cardinality(OrdersWith(c)) - Cardinality(CountingUse(c))
      BY <2>3, <2>6, Numbers
    <3> QED BY <1>4, <3>1, <3>2
  <2> QED BY <2>7, <2>8 DEF CountedFor
<1> QED BY <1>5, <1>6

\* The use is counted, or it is not and the history says so.
LEMMA CountsUse ==
  ASSUME RequestsOK, OrdersOK, CountsOK, NEW c \in Codes,
         NEW r \in Requests, IncrementUsage(r) \/ IncrementFails(r)
  PROVE  CountedFor(c)'
<1>1. CountedFor(c)
  BY CountedForEach DEF CountsOK
<1>2. Go(r, Idle) /\ request[r].at = "count use" /\ orders' = orders
  BY DEF IncrementUsage, IncrementFails, Ends
<1>3. DOMAIN used = Codes /\ DOMAIN uncounted = Codes
  BY DEF CountsOK
<1>4. ~ValidatedAt(Idle, c) /\ ~CountingAt(Idle, c)
  BY IdleAt DEF ValidatedAt, CountingAt
<1>5. OrdersWith(c)' = OrdersWith(c)
  BY <1>2 DEF OrdersWith
<1>6. CASE request[r].code # c
  <2>1. used'[c] = used[c] /\ uncounted'[c] = uncounted[c]
    BY <1>3, <1>6 DEF IncrementUsage, IncrementFails
  <2>2. ~CountingAt(request[r], c)
    BY <1>6 DEF CountingAt
  <2> QED BY <1>2, <1>4, <1>5, <2>1, <2>2, CountsAsBefore
<1>7. CASE request[r].code = c
  <2>1. ValidatedAt(request[r], c) /\ CountingAt(request[r], c)
    BY <1>2, <1>7 DEF ValidatedAt, CountingAt
  <2>2. /\ Cardinality(Validated(c)') = Cardinality(Validated(c)) - 1
        /\ Cardinality(CountingUse(c)') = Cardinality(CountingUse(c)) - 1
    <3>1. Cardinality(Validated(c)') = Cardinality(Validated(c))
               + (IF ValidatedAt(Idle, c) THEN 1 ELSE 0)
               - (IF ValidatedAt(request[r], c) THEN 1 ELSE 0)
      BY <1>2, HowMany
    <3>2. Cardinality(CountingUse(c)') = Cardinality(CountingUse(c))
               + (IF CountingAt(Idle, c) THEN 1 ELSE 0)
               - (IF CountingAt(request[r], c) THEN 1 ELSE 0)
      BY <1>2, HowMany
    <3> QED BY <1>4, <2>1, <3>1, <3>2, Numbers
  <2>3. \/ used'[c] = used[c] + 1 /\ uncounted'[c] = uncounted[c]
        \/ /\ used'[c] \in {used[c], used[c] + 1}
           /\ uncounted'[c] = uncounted[c] + 1
    <3>1. CASE IncrementUsage(r)
      BY <1>3, <1>7, <3>1 DEF IncrementUsage
    <3>2. CASE IncrementFails(r)
      BY <1>3, <1>7, <3>2 DEF IncrementFails
    <3> QED BY <3>1, <3>2
  <2>4. Cardinality(OrdersWith(c)') = Cardinality(OrdersWith(c))
    BY <1>5
  <2>5. Promo[c].max > 0 =>
          used'[c] + Cardinality(Validated(c)') <= Promo[c].max + Cardinality(Requests) - 1
    BY <1>1, <2>2, <2>3, Numbers DEF CountedFor
  <2>6. /\ used'[c] <= Cardinality(OrdersWith(c)') - Cardinality(CountingUse(c)')
        /\ Cardinality(OrdersWith(c)') - Cardinality(CountingUse(c)') <= used'[c] + uncounted'[c]
    BY <1>1, <2>2, <2>3, <2>4, Numbers DEF CountedFor
  <2> QED BY <2>5, <2>6 DEF CountedFor
<1> QED BY <1>6, <1>7

LEMMA CountsServe ==
  ASSUME RequestsOK, RowsOK, OrdersOK, CountsOK, RequestsOK', NEW c \in Codes,
         NEW r \in Requests, Serve(r)
  PROVE  CountedFor(c)'
<1>1. ~ValidatedAt(Idle, c) /\ ~CountingAt(Idle, c)
  BY IdleAt DEF ValidatedAt, CountingAt
<1>2. \A q : Asking(q) \/ q = Idle => ~ValidatedAt(q, c) /\ ~CountingAt(q, c)
  BY <1>1 DEF ValidatedAt, CountingAt, Asking
<1>3. ASSUME NEW q, Go(r, q), Asking(request[r]), ~ValidatedAt(q, c), ~CountingAt(q, c),
             UNCHANGED <<orders, used, uncounted>>
      PROVE  CountedFor(c)'
  <2>1. /\ used'[c] = used[c] /\ uncounted'[c] = uncounted[c]
        /\ OrdersWith(c)' = OrdersWith(c)
    BY <1>3 DEF OrdersWith
  <2> QED BY <1>2, <1>3, <2>1, CountsAsBefore
<1>4. CASE CreateCart(r) \/ AddItem(r) \/ DeleteItem(r) \/ SetItemQuantity(r)
  <2>1. Asking(request[r])
    BY <1>4, KindOf DEF CreateCart, AddItem, DeleteItem, SetItemQuantity
  <2>2. Go(r, Idle) /\ UNCHANGED <<orders, used, uncounted>>
    BY <1>4 DEF CreateCart, AddItem, DeleteItem, SetItemQuantity, Ends
  <2> QED BY <1>1, <1>3, <2>1, <2>2
<1>5. CASE FindRow(r)
  <2>1. Asking(request[r]) /\ UNCHANGED <<orders, used, uncounted>>
    BY <1>5, KindOf DEF FindRow
  <2> QED BY <1>2, <1>3, <1>5, <2>1, FindsRow
<1>6. CASE ReadRows(r)
  <2>1. Asking(request[r]) /\ UNCHANGED <<orders, used, uncounted>>
    BY <1>6, KindOf DEF ReadRows
  <2>2. PICK q : /\ Go(r, q)
                 /\ \/ q = Idle
                    \/ (q.at = "create order" => q.code = NoCode) /\ q.at # "count use"
    BY <1>6, ReadsRows
  <2>3. ~ValidatedAt(q, c) /\ ~CountingAt(q, c)
    BY <1>1, <2>2, ShopAssumptions DEF ValidatedAt, CountingAt
  <2> QED BY <1>3, <2>1, <2>2, <2>3
<1>7. CASE ValidatePromoCode(r)
  <2>1. request[r].at = "validate code" /\ UNCHANGED <<orders, used, uncounted>>
    BY <1>7 DEF ValidatePromoCode
  <2>2. PICK q : /\ Go(r, q)
                 /\ \/ q = Idle
                    \/ q.at = "create order" /\ ~UsedUp(q.code)
    BY <1>7, ValidatesCode
  <2>3. ~CountingAt(q, c) /\ ~CountingAt(request[r], c)
    BY <1>1, <2>1, <2>2 DEF CountingAt
  <2>4. CASE ~UsedUp(c)
    BY <2>1, <2>2, <2>3, <2>4, CountsValidated
  <2>5. CASE UsedUp(c)
    <3>1. ~ValidatedAt(q, c)
      BY <1>1, <2>2, <2>5 DEF ValidatedAt
    <3>2. OrdersWith(c)' = OrdersWith(c) /\ used'[c] = used[c] /\ uncounted'[c] = uncounted[c]
      BY <2>1 DEF OrdersWith
    <3> QED BY <2>2, <2>3, <3>1, <3>2, CountsAsBefore
  <2> QED BY <2>4, <2>5
<1>8. CASE Rollback(r)
  <2>1. request[r].at = "create order" /\ Go(r, Idle) /\ UNCHANGED <<orders, used, uncounted>>
    BY <1>8 DEF Rollback, Ends
  <2>2. ~CountingAt(request[r], c)
    BY <2>1 DEF CountingAt
  <2>3. OrdersWith(c)' = OrdersWith(c) /\ used'[c] = used[c] /\ uncounted'[c] = uncounted[c]
    BY <2>1 DEF OrdersWith
  <2> QED BY <1>1, <2>1, <2>2, <2>3, CountsAsBefore
<1> QED BY <1>4, <1>5, <1>6, <1>7, <1>8, CountsOrder, CountsUse DEF Serve

LEMMA CountsNext ==
  ASSUME RequestsOK, RowsOK, OrdersOK, CountsOK, [ShopNext]_shopVars
  PROVE  CountsOK'
<1>1. RequestsOK'
  BY RequestsNext
<1>2. \A c \in Codes : CountedFor(c)'
  <2> SUFFICES ASSUME NEW c \in Codes
               PROVE  CountedFor(c)'
    OBVIOUS
  <2>1. ASSUME NEW r \in Requests, NEW t \in Traffic, Arrive(r, t[1], t[2])
        PROVE  CountedFor(c)'
    <3>1. PICK w : w = [at |-> FirstStep[t[2].handler], user |-> t[1], form |-> t[2]]
      OBVIOUS
    <3>2. Asking(w)
      BY <3>1, Arrivals
    <3>3. Go(r, w) /\ request[r] = Idle /\ UNCHANGED <<orders, used, uncounted>>
      BY <2>1, <3>1 DEF Arrive
    <3>4. /\ ~ValidatedAt(w, c) /\ ~CountingAt(w, c)
          /\ ~ValidatedAt(request[r], c) /\ ~CountingAt(request[r], c)
      BY <3>2, <3>3, IdleAt DEF ValidatedAt, CountingAt, Asking
    <3>5. OrdersWith(c)' = OrdersWith(c) /\ used'[c] = used[c] /\ uncounted'[c] = uncounted[c]
      BY <3>3 DEF OrdersWith
    <3> QED BY <3>3, <3>4, <3>5, CountsAsBefore
  <2>2. ASSUME UNCHANGED <<request, orders, used, uncounted>>
        PROVE  CountedFor(c)'
    <3>1. CountedFor(c)
      BY CountedForEach DEF CountsOK
    <3> QED BY <2>2, <3>1 DEF CountedFor, Validated, CountingUse, OrdersWith
  <2> QED BY <1>1, <2>1, <2>2, CountsServe DEF ShopNext, shopVars, Expire
<1>3. UsesCounted'
  BY <1>2 DEF UsesCounted, OvershootBounded, UsesAccounted, CountedFor
<1>4. used' \in [Codes -> Nat] /\ uncounted' \in [Codes -> Nat]
  <2>1. ASSUME NEW r \in Requests, IncrementUsage(r) \/ IncrementFails(r)
        PROVE  <1>4!:
    <3>1. request[r].code \in Codes
      BY <2>1, KindOf DEF IncrementUsage, IncrementFails, Buying
    <3>2. \A f \in [Codes -> Nat] : [f EXCEPT ![request[r].code] = @ + 1] \in [Codes -> Nat]
      BY <3>1
    <3> QED BY <2>1, <3>2 DEF CountsOK, IncrementUsage, IncrementFails
  <2>2. ASSUME NEW r \in Requests, Serve(r), ~(IncrementUsage(r) \/ IncrementFails(r))
        PROVE  UNCHANGED <<used, uncounted>>
    BY <2>2 DEF Serve, CreateCart, AddItem, FindRow, DeleteItem, SetItemQuantity, ReadRows,
                ValidatePromoCode, CreateOrder, Rollback
  <2>3. UNCHANGED <<used, uncounted>> \/ \E r \in Requests : Serve(r)
    BY DEF ShopNext, shopVars, Expire, Arrive
  <2> QED BY <2>1, <2>2, <2>3 DEF CountsOK
<1> QED BY <1>3, <1>4 DEF CountsOK

-----------------------------------------------------------------------------
(* The invariant, and what it implies.                                     *)

LEMMA InitIInv == ShopInit => IInv
<1> SUFFICES ASSUME ShopInit PROVE IInv
  OBVIOUS
<1>1. /\ carts = {} /\ expired = {} /\ orders = <<>> /\ lastRow = 0 /\ carted = {}
      /\ rows = [i \in RowIds |-> NoRow] /\ request = [r \in Requests |-> Idle]
      /\ used = [c \in Codes |-> 0] /\ uncounted = [c \in Codes |-> 0]
  BY DEF ShopInit
<1>2. RequestsOK
  BY <1>1 DEF RequestsOK
<1>3. RowsOK
  BY <1>1, ShopAssumptions DEF RowsOK
<1>4. DeletesOwn
  BY <1>1, IdleAt DEF DeletesOwn
<1>5. OrdersOK
  <2>1. orders \in Seq({}) /\ DOMAIN orders = {}
    BY <1>1
  <2> QED BY <2>1 DEF OrdersOK
<1>6. CartedOK
  <2>1. DOMAIN orders = {}
    BY <1>1
  <2> QED BY <1>1, <2>1, IdleAt DEF CartedOK
<1>7. CountsOK
  <2>1. \A c \in Codes : CountedFor(c)
    <3> SUFFICES ASSUME NEW c \in Codes
                 PROVE  CountedFor(c)
      OBVIOUS
    <3>1. Validated(c) = {} /\ CountingUse(c) = {} /\ OrdersWith(c) = {}
      <4>1. DOMAIN orders = {} /\ \A r \in Requests : request[r].at = "idle"
        BY <1>1, IdleAt
      <4> QED BY <4>1 DEF Validated, CountingUse, OrdersWith
    <3>2. Cardinality({}) = 0
      BY FS_EmptySet
    <3>3. Cardinality(Requests) \in Nat /\ Promo[c].max \in Nat
      BY ShopAssumptions, FS_CardinalityType
    <3>4. used[c] = 0 /\ uncounted[c] = 0
      BY <1>1
    <3> QED BY <3>1, <3>2, <3>3, <3>4 DEF CountedFor
  <2>2. UsesCounted
    BY <2>1, CountedForEach
  <2> QED BY <1>1, <2>2 DEF CountsOK
<1> QED BY <1>1, <1>2, <1>3, <1>4, <1>5, <1>6, <1>7 DEF IInv

LEMMA NextIInv == IInv /\ [ShopNext]_shopVars => IInv'
<1> SUFFICES ASSUME IInv, [ShopNext]_shopVars PROVE IInv'
  OBVIOUS
<1>1. (carts \subseteq Users)'
  <2>1. ASSUME NEW r \in Requests, CreateCart(r)
        PROVE  carts' \subseteq Users
    <3>1. request[r].at = "create cart" /\ carts' = carts \cup {request[r].user}
      BY <2>1 DEF CreateCart
    <3>2. request[r].user \in Users
      BY <3>1, KindOf, AskedFor DEF IInv
    <3> QED BY <3>1, <3>2 DEF IInv
  <2>2. ASSUME NEW r \in Requests, Serve(r)
        PROVE  carts' = carts \/ CreateCart(r)
    BY <2>2 DEF Serve, AddItem, FindRow, DeleteItem, SetItemQuantity, ReadRows,
                ValidatePromoCode, CreateOrder, Rollback, IncrementUsage, IncrementFails
  <2>3. carts' = carts \/ \E r \in Requests : CreateCart(r)
    BY <2>2 DEF ShopNext, shopVars, Expire, Arrive
  <2> QED BY <2>1, <2>3 DEF IInv
<1>2. (expired \subseteq Codes)'
  <2>1. expired' = expired \/ \E c \in Codes : expired' = expired \cup {c}
    BY DEF ShopNext, shopVars, Serve, Arrive, CreateCart, AddItem, FindRow, DeleteItem,
           SetItemQuantity, ReadRows, ValidatePromoCode, CreateOrder, Rollback,
           IncrementUsage, IncrementFails, Expire
  <2> QED BY <2>1 DEF IInv
<1> QED
  BY <1>1, <1>2, RequestsNext, RowsNext, DeletesOwnNext, OrdersNext, CartedNext, CountsNext
     DEF IInv

\* The invariant holds for any shop, any traffic and any number of requests.
THEOREM Invariance == ShopSpec => []IInv
<1> QED
  BY InitIInv, NextIInv, PTL DEF ShopSpec

\* Rows of different products are as many as their products.
LEMMA AsManyProducts ==
  ASSUME NEW items, Orderable(items)
  PROVE  Cardinality(ProductsOf(items)) = Cardinality(DOMAIN items)
<1> DEFINE f == [i \in DOMAIN items |-> items[i].product]
<1>1. IsFiniteSet(DOMAIN items)
  <2>1. IsFiniteSet(RowIds)
    BY ShopAssumptions, FS_Interval DEF RowIds
  <2> QED BY <2>1, FS_Subset DEF Orderable
<1>2. f \in Surjection(DOMAIN items, ProductsOf(items))
  BY DEF Surjection, ProductsOf
<1>3. f \in Injection(DOMAIN items, ProductsOf(items))
  BY DEF Injection, IsInjective, ProductsOf, Orderable
<1> HIDE DEF f
<1> QED BY <1>1, <1>2, <1>3, FS_Surjection

\* Every order that is stored is sound, whatever overlapped with its checkout:
\* one row per product, charged what was ordered, in stock, from its own cart.
THEOREM OrdersAreSound == ShopSpec => []OrdersSound
<1>1. IInv => OrdersSound
  <2> SUFFICES ASSUME IInv PROVE OrdersSound
    OBVIOUS
  <2>1. ShopTypeOK
    <3>1. \A r \in Requests : RequestOK(request[r])
      BY DEF IInv, RequestsOK, RequestOK, Asking, Buying, Orderable
    <3> QED BY <3>1 DEF IInv, ShopTypeOK, RowsOK, OrdersOK, OrderOK, CountsOK
  <2>2. OneRowPerProduct
    BY AsManyProducts DEF IInv, RowsOK, OrdersOK, OrderOK, OneRowPerProduct
  <2>3. PricedAsOrdered
    BY DEF IInv, OrdersOK, OrderOK, Orderable, Charge, PricedAsOrdered
  <2>4. OrderedFromOwnCart
    BY DEF IInv, CartedOK, Carted, OrderedFromOwnCart
  <2> QED BY <2>1, <2>2, <2>3, <2>4 DEF OrdersSound
<1> QED BY <1>1, Invariance, PTL

\* used_count agrees with the orders that carry the code, but for the orders
\* whose handler is at or stopped before the increment, and passes the limit
\* by fewer than the requests under way.
THEOREM UsesAreCounted == ShopSpec => []UsesCounted
<1>1. IInv => UsesCounted
  BY DEF IInv, CountsOK
<1> QED BY <1>1, Invariance, PTL

\* removeCartItem deletes by the id alone, and still deletes only a row that
\* was its own: an id is never given to another cart.
THEOREM OwnersChangeRows == ShopSpec => RowsChangeByOwner
<1> DEFINE ByOwner(i) == rows[i] # NoRow /\ rows'[i] # rows[i] =>
                           \E r \in Requests : /\ request'[r] # request[r]
                                               /\ request[r].user = rows[i].cart
<1>1. IInv /\ [ShopNext]_shopVars => [\A i \in RowIds : ByOwner(i)]_shopVars
  <2> SUFFICES ASSUME IInv, [ShopNext]_shopVars, NEW i \in RowIds,
                      rows[i] # NoRow, rows'[i] # rows[i]
               PROVE  \E r \in Requests : /\ request'[r] # request[r]
                                          /\ request[r].user = rows[i].cart
    OBVIOUS
  <2>1. i <= lastRow /\ lastRow \in Int
    BY DEF IInv, RowsOK, RowIds
  <2>2. \A u, p : ~Adds(u, p)
    BY <2>1 DEF Adds
  <2>3. PICK r \in Requests : Deletes(r) \/ Sets(r)
    BY <2>2, RowsMove DEF IInv
  <2>4. request[r].form.row = i /\ request'[r] = Idle
    BY <2>3 DEF Deletes, Sets
  <2>5. request[r] # Idle
    BY <2>3, IdleAt DEF Deletes, Sets
  <2>6. request[r].user = rows[i].cart
    BY <2>3, <2>4 DEF Deletes, Sets, InCart, IInv, DeletesOwn
  <2> QED BY <2>4, <2>5, <2>6
<1>2. RowsChangeByOwner <=> [][\A i \in RowIds : ByOwner(i)]_shopVars
  BY DEF RowsChangeByOwner
<1> HIDE DEF ByOwner
<1> QED
  BY <1>1, <1>2, Invariance, PTL DEF ShopSpec
=============================================================================
