------------------------------ MODULE Listings ------------------------------
(***************************************************************************)
(* A client walks through a listing, from page 1 to the last page that the *)
(* metadata of its answers name, while the rows behind it change.          *)
(*                                                                         *)
(* Rows are numbered as they arrive in their table.  What a query tells of *)
(* a row is its created_at, which may tie with another's and, set before   *)
(* the transaction commits, may be earlier than that of a row which was    *)
(* there before; whether it is shown (a visible category; a product that   *)
(* is published, approved and in a visible category); whose it is (a       *)
(* vendor's or an administrator's, numbered in the order of their          *)
(* creation); and how many primary images its product has.                 *)
(***************************************************************************)
EXTENDS Paging, Functions

CONSTANTS
  MaxRows, AtStart,    \* rows there may ever be, rows there are before a walk
  CreatedAt,           \* of each row of a table
  Owner, Images,       \* of each row
  Vendor,              \* whose rows are listed where one vendor's are
  Sizes,               \* page sizes a client asks for
  MaxChanges           \* bound: rows that appear or disappear during a walk

Ids == 1..MaxRows
Tables == {"products", "categories", "reviews", "users", "wishlists", "cart_items"}

ASSUME ListingAssumptions ==
  /\ MaxRows \in Nat /\ MaxPageSize \in Nat \ {0} /\ AtStart \in 0..MaxRows
  /\ CreatedAt \in [Tables -> [Ids -> Nat]]
  /\ Owner \in [Ids -> Nat] /\ Images \in [Ids -> Nat]
  /\ Sizes \subseteq Nat /\ MaxChanges \in Nat

VARIABLES
  created,   \* number of the row that was created last
  present,   \* rows in the table
  shown,     \* those of them that are shown
  walk       \* the client's walk, with the rows that were there all along

listingVars == <<created, present, shown, walk>>

-----------------------------------------------------------------------------
(* The queries.  Each gives the pages the database may return: rows that   *)
(* the ORDER BY leaves tied come in any order, each time anew.             *)

AnyOrder(S) == Injection(1..Cardinality(S), S)

\* ORDER BY a column with these values.
OrderedBy(S, value, descending) ==
  {s \in AnyOrder(S) : \A m, n \in DOMAIN s :
     m < n => IF descending THEN value[s[m]] >= value[s[n]] ELSE value[s[m]] <= value[s[n]]}

InOrder(table, ids, q) == OrderedBy(ids, CreatedAt[table], Descending(q))
Pages(listings, q)     == {Counted(rows, q) : rows \in listings}

GetProducts(q)           == Pages(InOrder("products", shown, q), q)
GetPublicCategories(q)   == Pages(InOrder("categories", shown, q), q)
GetAdminCategoryView(q)  == Pages(InOrder("categories", present, q), q)
GetByProductID(q)        == Pages(InOrder("reviews", present, q), q)
GetNormalUsers(q)        == Pages(InOrder("users", present, q), q)
GetVendorUsers(q)        == Pages(InOrder("users", present, q), q)
GetAdminUsers(q)         == Pages(InOrder("users", present, q), q)

\* No ORDER BY.
GetAll(q) == Pages(AnyOrder(present), q)

\* Ordered by the creation of the administrators who performed the events.
GetAuditLogs(q) == Pages(OrderedBy(present, Owner, Descending(q)), q)

\* Neither LIMIT nor OFFSET.
GetOrdersForUser(q) ==
  {[rows |-> rows, metadata |-> calculateMetadata(Len(rows), q)] : rows \in AnyOrder(present)}

\* LEFT JOIN product_images: a row comes once per primary image of its product.
Copies(ids) == UNION {{i} \X (1..Max({1, Images[i]})) : i \in ids}
Joined(table, ids) ==
  LET createdAt == [c \in Copies(ids) |-> CreatedAt[table][c[1]]]
  IN {[k \in DOMAIN s |-> s[k][1]] : s \in OrderedBy(Copies(ids), createdAt, TRUE)}

\* One vendor's rows, newest first whatever the request asks for.
GetWishlistItems(q, v) == Pages(Joined("wishlists", {i \in present : Owner[i] = v}), q)
GetCartItems(q, v)     == Pages(Joined("cart_items", {i \in present : Owner[i] = v}), q)

Increasing(S) == {p \in S \X S : p[1] < p[2]}
Owners(ids)  == {Owner[i] : i \in ids}
ByOwner(ids) == Enumeration(Owners(ids), Increasing(Owners(Ids)))

\* Vendors by id, each with some of its rows; only those of the page are counted.
Grouped(q) ==
  LET page == PageOf(ByOwner(present), q)
  IN {[rows |-> page, metadata |-> calculateMetadata(Len(page), q)]}

GetGroupWishlistItems(q) == Grouped(q)
GetGroupCartItems(q)     == Grouped(q)

-----------------------------------------------------------------------------
(* The handlers.                                                           *)

Answers(asked, pages) == IF Accepts(asked) THEN pages ELSE {}

getProducts(a)            == Answers(a, GetProducts(Parsed(a)))
getPublicCategories(a)    == Answers(a, GetPublicCategories(Parsed(a)))
getAdminCategoriesView(a) == Answers(a, GetAdminCategoryView(Parsed(a)))
getProductReviews(a)      == Answers(a, GetByProductID(Parsed(a)))
getNormalUsers(a)         == Answers(a, GetNormalUsers(Parsed(a)))
getVendorUsers(a)         == Answers(a, GetVendorUsers(Parsed(a)))
getAdminUsers(a)          == Answers(a, GetAdminUsers(Parsed(a)))
getAuditLogs(a)           == Answers(a, GetAuditLogs(Parsed(a)))
getUserViewOrderLists(a)  == Answers(a, GetOrdersForUser(Parsed(a)))
getOptionTypes(a)         == Answers(a, GetAll(Parsed(a)))
getGroupVendorWishlisttem(a) == Answers(a, GetGroupWishlistItems(Parsed(a)))
getGroupVendorCartItem(a)    == Answers(a, GetGroupCartItems(Parsed(a)))
getVendorWishlistItem(a)  == Answers(a, GetWishlistItems(Parsed(a), Vendor))
getVendorCartItem(a)      == Answers(a, GetCartItems(Parsed(a), Vendor))

Served(handler, a) ==
  CASE handler = "getProducts"            -> getProducts(a)
    [] handler = "getPublicCategories"    -> getPublicCategories(a)
    [] handler = "getAdminCategoriesView" -> getAdminCategoriesView(a)
    [] handler = "getProductReviews"      -> getProductReviews(a)
    [] handler = "getNormalUsers"         -> getNormalUsers(a)
    [] handler = "getVendorUsers"         -> getVendorUsers(a)
    [] handler = "getAdminUsers"          -> getAdminUsers(a)
    [] handler = "getAuditLogs"           -> getAuditLogs(a)
    [] handler = "getUserViewOrderLists"  -> getUserViewOrderLists(a)
    [] handler = "getOptionTypes"         -> getOptionTypes(a)
    [] handler = "getGroupVendorWishlisttem" -> getGroupVendorWishlisttem(a)
    [] handler = "getGroupVendorCartItem"    -> getGroupVendorCartItem(a)
    [] handler = "getVendorWishlistItem"  -> getVendorWishlistItem(a)
    [] handler = "getVendorCartItem"      -> getVendorCartItem(a)

Public      == {"getProducts", "getPublicCategories"}
OfOneVendor == {"getVendorWishlistItem", "getVendorCartItem"}
Sorted      == Public \cup OfOneVendor \cup
  {"getAdminCategoriesView", "getProductReviews", "getNormalUsers", "getVendorUsers", "getAdminUsers"}
Unordered   == {"getOptionTypes", "getAuditLogs"}
Whole       == {"getUserViewOrderLists"}
Grouping    == {"getGroupVendorWishlisttem", "getGroupVendorCartItem"}
ListHandlers    == Sorted \cup Unordered \cup Whole \cup Grouping

\* No code deletes users, option types, orders or audit events, and the INSERT
\* of an audit event is always refused: what events there are, are old.
Growing   == ListHandlers \ {"getAuditLogs"}
Shrinking == {"getPublicCategories", "getAdminCategoriesView", "getProductReviews"} \cup OfOneVendor \cup Grouping

-----------------------------------------------------------------------------
(* The walk.                                                               *)

Visible(h, rows, shownRows) ==
  CASE h \in Public -> shownRows
    [] h \in OfOneVendor -> {i \in rows : Owner[i] = Vendor}
    [] OTHER -> rows

\* A client asks for a page size, one that is refused included, and a sort, one
\* that is not in the safelist included.
Asks == [page : {1}, size : Sizes, sort : Sorts \cup {"", "price"}]

ListingsInit ==
  /\ created = AtStart /\ present = 1..AtStart
  /\ shown \in SUBSET present
  /\ \E h \in ListHandlers, a \in Asks :
       /\ h \notin Public => shown = {}
       /\ walk = [handler |-> h, asked |-> a, seen |-> <<>>, pages |-> 0, over |-> FALSE,
                  stayed |-> Visible(h, present, shown),
                  lost |-> 0, gained |-> 0]

\* Of a page that comes in no order only the rows are kept.
Noted(rows) == IF walk.handler \in Unordered \cup Whole THEN Enumeration(Range(rows), Increasing(Ids)) ELSE rows

\* The next page, until the metadata of an answer say that it was the last.
Read ==
  LET answers == Served(walk.handler, walk.asked)
      Seen(a) == [walk EXCEPT !.seen = @ \o Noted(a.rows), !.pages = @ + 1]
  IN /\ ~walk.over
     /\ \/ answers = {} /\ walk' = [walk EXCEPT !.over = TRUE]
        \/ \E a \in answers :
             walk' = IF a.metadata.page < a.metadata.last
                       THEN [Seen(a) EXCEPT !.asked.page = @ + 1] ELSE [Seen(a) EXCEPT !.over = TRUE]
     /\ UNCHANGED <<created, present, shown>>

\* What other requests do to the rows meanwhile.
Change(rows, shownRows) ==
  LET before == Visible(walk.handler, present, shown)
      after  == Visible(walk.handler, rows, shownRows)
  IN /\ ~walk.over /\ walk.lost + walk.gained < MaxChanges
     /\ present' = rows /\ shown' = shownRows
     /\ walk' = [walk EXCEPT !.stayed = @ \cap after,
                             !.lost = @ + Cardinality(before \ after),
                             !.gained = @ + Cardinality(after \ before)]

Add ==
  /\ walk.handler \in Growing /\ created < MaxRows
  /\ created' = created + 1
  /\ Change(present \cup {created + 1}, shown)

Show(i) == walk.handler \in Public /\ Change(present, shown \cup {i}) /\ UNCHANGED created
Hide(i) == walk.handler \in Public /\ Change(present, shown \ {i}) /\ UNCHANGED created

Erase(i) ==
  /\ walk.handler \in Shrinking
  /\ Change(present \ {i}, shown \ {i})
  /\ UNCHANGED created

ListingsNext == Read \/ Add \/ \E i \in present : Show(i) \/ Hide(i) \/ Erase(i)

ListingsSpec == ListingsInit /\ [][ListingsNext]_listingVars

-----------------------------------------------------------------------------
\* Types; and no query is ever built with a sort outside the safelist, which
\* would make SortColumn panic.
ListingsTypeOK ==
  /\ created \in 0..MaxRows /\ shown \subseteq present /\ present \subseteq 1..created
  /\ walk.handler \in ListHandlers /\ walk.seen \in Seq(Nat) /\ walk.stayed \subseteq present
  /\ walk.lost \in Nat /\ walk.gained \in Nat /\ walk.over \in BOOLEAN
  /\ PermittedValue(Parsed(walk.asked).sort)

Finished(handlers) == walk.over /\ walk.pages > 0 /\ walk.handler \in handlers
Undisturbed        == walk.lost + walk.gained = 0

Table(h) ==
  CASE h = "getProducts" -> "products"
    [] h \in {"getPublicCategories", "getAdminCategoriesView"} -> "categories"
    [] h = "getProductReviews" -> "reviews"
    [] h \in {"getNormalUsers", "getVendorUsers", "getAdminUsers"} -> "users"
    [] h = "getVendorWishlistItem" -> "wishlists"
    [] h = "getVendorCartItem" -> "cart_items"

CreationTimes(h, rows) == [k \in DOMAIN rows |-> CreatedAt[Table(h)][rows[k]]]

\* The orders in which the database may list these rows for h.
Listing(h, ids, q) == IF h \in OfOneVendor THEN Joined(Table(h), ids) ELSE InOrder(Table(h), ids, q)

\* Nothing decides the order of rows created at the same time, and each query
\* may choose another: without ties a walk can be held to the rows it shows.
Definite(h) == h \in Sorted \ OfOneVendor /\ IsInjective(CreatedAt[Table(h)])

\* A walk through rows that do not change shows, position by position, rows as
\* old as those of the whole listing in the order that was asked for (of one
\* vendor's rows, a row once per primary image); without ties, each row once.
WalkExact ==
  Finished(Sorted) /\ Undisturbed =>
    \A rows \in Listing(walk.handler, walk.stayed, Parsed(walk.asked)) :
      /\ CreationTimes(walk.handler, walk.seen) = CreationTimes(walk.handler, rows)
      /\ Definite(walk.handler) => walk.seen = rows

\* Rows that come and go shift the pages: a walk misses at most as many of the
\* rows that were there all the time as others have gone meanwhile, ...
MissedAtMostLost ==
  Finished(Sorted) /\ Definite(walk.handler) =>
    Cardinality(walk.stayed \ Range(walk.seen)) <= walk.lost

\* ... and shows at most as many rows again as others have come.
RepeatedAtMostGained ==
  Finished(Sorted) /\ Definite(walk.handler) =>
    Len(walk.seen) - Cardinality(Range(walk.seen)) <= walk.gained

\* A walk through a listing in order of creation goes through all of it, and
\* where no two rows tie it loses and repeats rows only for changes made
\* meanwhile.
SortedWalks == ListingsTypeOK /\ WalkExact /\ MissedAtMostLost /\ RepeatedAtMostGained

\* Without an ORDER BY that tells all rows apart, a walk through rows that do
\* not change still shows as many rows as there are, which need not be all of
\* them; and without LIMIT and OFFSET it shows all of them on every page.
UnsortedWalkCounts ==
  Undisturbed =>
    /\ Finished(Unordered) => Len(walk.seen) = Cardinality(walk.stayed)
    /\ Finished(Whole) => Len(walk.seen) = walk.pages * Cardinality(walk.stayed)
=============================================================================
