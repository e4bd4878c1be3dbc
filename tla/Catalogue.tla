------------------------------ MODULE Catalogue ------------------------------
(***************************************************************************)
(* Products and option types behind one pool of connections: the requests  *)
(* of vendors, customers and administrators, any of which may end early.   *)
(***************************************************************************)
EXTENDS OptionTypes, Products, Naturals, FiniteSets

Handlers ==
  {"createOptionType", "addOptionValues", "updateOptionType", "updateOptionValue",
   "deleteOptionValue", "createCategory", "setCategoryVisibility", "removeCategory",
   "createProduct", "publishProduct", "unPublishProduct", "approveProduct", "rejectProduct",
   "createReview", "removeReview", "addProductToWhitelist", "removeProductFromWhitelist"}

CONSTANT Scenarios   \* what callers send: sets of pairs of a caller and a form

\* What a route lets through, by the roles of its callers, and what the handler
\* finds in the body and the path.
Permitted(u, form) ==
  /\ form.handler \in Handlers
  /\ form.handler = "createOptionType" => form.name \in Names /\ form.texts \subseteq Names
  /\ form.handler = "updateOptionType" => form.name \in Names
  /\ form.handler = "updateOptionValue" => form.text \in Names
  /\ form.handler = "createProduct" =>
       u \in Vendors /\ form.category \in Categories /\ form.parts \subseteq Parts
  /\ form.handler \in {"createReview", "addProductToWhitelist"} => u \in Customers

ASSUME ScenariosAssumption == \A sent \in Scenarios : \A t \in sent : Permitted(t[1], t[2])

ASSUME PoolAssumption == IsFiniteSet(Requests)

VARIABLE traffic     \* the scenario of a behaviour

vars == <<request, traffic, optionVars, productVars>>

Init ==
  /\ request = [r \in Requests |-> Idle]
  /\ traffic \in Scenarios
  /\ OptionInit /\ ProductInit

\* A handler goes by its name until its first statement.
Arrive(r, u, form) ==
  /\ request[r] = Idle
  /\ Go(r, [at |-> form.handler, held |-> {}, user |-> u, form |-> form, tx |-> <<>>])
  /\ UNCHANGED <<optionVars, productVars, traffic>>

Serve(r) ==
  \/ ServeOptions(r) /\ UNCHANGED <<productVars, traffic>>
  \/ ServeProducts(r) /\ UNCHANGED <<optionVars, traffic>>

Stop(r) == TimeOut(r) /\ UNCHANGED <<optionVars, productVars, traffic>>

Next == \E r \in Requests :
  \/ Serve(r) \/ Stop(r)
  \/ \E t \in traffic : Arrive(r, t[1], t[2])

Spec == Init /\ [][Next]_vars

-----------------------------------------------------------------------------
RequestOK(q) ==
  \/ q = Idle
  \/ q.held \subseteq Connections /\ \E t \in traffic : q.user = t[1] /\ q.form = t[2]

TypeOK ==
  /\ OptionTypesTypeOK /\ ProductsTypeOK
  /\ \A r \in Requests : RequestOK(request[r])

\* What is stored was asked for, as a whole, and where it may be: products with
\* their parts and category, and option types with their values.
StoredAsAsked == TypeOK /\ ProductsWhole /\ ValuesAsAsked /\ InKnownCategory

\* A pool larger than the number of requests only runs dry while somebody adds
\* option values: that handler alone takes connection after connection and then
\* waits for itself.  Every other one, with however many goroutines, gets by
\* with the one connection of its transaction.
DrainedByOptionsOnly ==
  Cardinality(Requests) < Cardinality(Connections) /\ Free = {} =>
    \E r \in Requests : request[r].at = "add values"
=============================================================================
