------------------------------- MODULE Products -------------------------------
(***************************************************************************)
(* Categories, products and what customers write about products: reviews   *)
(* and wishlists.  A product is shown to the public when its vendor has    *)
(* published it, a manager has approved it and its category is visible.    *)
(***************************************************************************)
EXTENDS ConnectionPool

CONSTANTS
  Vendors, Managers, Customers,   \* callers
  Categories, ProductIds,
  Parts,                          \* images and features of products
  Notes,                          \* ids of reviews and of wishlist rows
  Seeded,                         \* Seeded[p]: rows older than the status column
  Repaired                        \* statements that the database is taken to accept

VARIABLES
  category,   \* "none", "hidden", "visible" or "removed"
  product,    \* products with their images and features: id -> row
  note,       \* reviews and wishlists: id -> row
  wasVisible  \* history: categories that have been visible

productVars == <<category, product, note, wasVisible>>

NoCategory == "null"
NoVendor   == "null"
NoProduct  == [vendor |-> "none"]
NoNote     == [kind |-> "none"]

Row == [vendor : Vendors, category : Categories \cup {NoCategory},
        status : {"", "pending", "approved", "rejected"}, published : BOOLEAN,
        parts : SUBSET Parts, asked : SUBSET Parts]
NoteRows == [kind : {"review", "wish"}, user : Customers, product : ProductIds]

\* A caller has one role; NULL is nobody's id.
ASSUME ProductAssumptions ==
  /\ Customers \cap (Vendors \cup Managers) = {}
  /\ NoVendor \notin Vendors /\ NoCategory \notin Categories
  /\ \A part \in Parts : part[1] \in {"image", "feature"}
  /\ DOMAIN Seeded \subseteq ProductIds
  /\ \A p \in DOMAIN Seeded : Seeded[p] \in Row /\ Seeded[p].parts = Seeded[p].asked
  /\ Repaired \subseteq {"Approve", "Reject"}

ProductInit ==
  /\ category = [c \in Categories |->
                   IF \E p \in DOMAIN Seeded : Seeded[p].category = c THEN "hidden" ELSE "none"]
  /\ product = [p \in ProductIds |-> IF p \in DOMAIN Seeded THEN Seeded[p] ELSE NoProduct]
  /\ note = [i \in Notes |-> NoNote]
  /\ wasVisible = {}

Stored == {p \in ProductIds : product[p] # NoProduct}
Of(c)  == {p \in Stored : product[p].category = c}
Orphans == Of(NoCategory)

-----------------------------------------------------------------------------
(* Categories.                                                             *)

Exists(c) == category[c] \in {"hidden", "visible"}

UpdateCategories(r, at, tables) ==
  /\ Statement(r, at)
  /\ category' \in tables
  /\ wasVisible' = wasVisible \cup {c \in Categories : category'[c] = "visible"}
  /\ Ends(r)
  /\ UNCHANGED note

NewCategory == {[category EXCEPT ![c] = "hidden"] : c \in {x \in Categories : category[x] = "none"}}
CreateCategory(r) ==
  /\ UpdateCategories(r, "createCategory", NewCategory)
  /\ UNCHANGED product

SetVisibility(c, visible) ==
  [category EXCEPT ![c] = IF ~Exists(c) THEN @ ELSE IF visible THEN "visible" ELSE "hidden"]
SetCategoryVisibility(r) ==
  /\ UpdateCategories(r, "setCategoryVisibility",
                      {SetVisibility(request[r].form.category, request[r].form.visible)})
  /\ UNCHANGED product

\* Transactions that have inserted a product keep its category from being deleted.
Inserting == InTx("insert images") \cup InTx("insert features") \cup InTx("commit product")

RemoveByID(c) == [category EXCEPT ![c] = IF Exists(c) THEN "removed" ELSE @]
RemoveCategory(r) ==
  LET c == request[r].form.category
  IN /\ UpdateCategories(r, "removeCategory", {RemoveByID(c)})
     /\ \A s \in Inserting : request[s].form.category # c
     /\ product' = [p \in ProductIds |-> IF p \in Of(c) THEN [product[p] EXCEPT !.category = NoCategory]
                                         ELSE product[p]]   \* ON DELETE SET NULL

-----------------------------------------------------------------------------
(* Products.                                                               *)

MayHold(c) == category[c] = "visible"

CreateProduct(r) ==
  /\ Statement(r, "createProduct")
  /\ IF MayHold(request[r].form.category) THEN Moves(r, "begin product") ELSE Ends(r)
  /\ UNCHANGED productVars

BeginProduct(r) ==
  /\ request[r].at = "begin product"
  /\ BeginTx(r, "insert product")
  /\ UNCHANGED productVars

\* The category is read again by the foreign key, its visibility is not.  The
\* status is the empty string of the struct, not the default of the column.
InsertProduct(r) ==
  LET form == request[r].form
  IN /\ request[r].at = "insert product"
     /\ IF Exists(form.category)
          THEN Inserts(r, "insert images",
                 [vendor |-> request[r].user, category |-> form.category, status |-> "",
                  published |-> FALSE, parts |-> {}, asked |-> form.parts])
          ELSE Ends(r)
     /\ UNCHANGED productVars

\* Mutant: the goroutines insert in a transaction of their own.
AddPartsApart(r, kind, next) ==
  /\ Free # {}
  /\ Go(r, [request[r] EXCEPT !.at = next, !.held = @ \cup {CHOOSE c \in Free : TRUE},
              !.tx.parts = @ \cup {part \in request[r].form.parts : part[1] = kind}])

\* Parts are pairs of a kind, "image" or "feature", and a number.
AddParts(r, kind, next) ==
  \E parts \in Inserted({part \in request[r].form.parts : part[1] = kind}) :
    Go(r, [request[r] EXCEPT !.at = next, !.tx.parts = @ \cup parts])

CreateProductImages(r) ==
  /\ request[r].at = "insert images"
  /\ AddParts(r, "image", "insert features")
  /\ UNCHANGED productVars

CreateProductFeatures(r) ==
  /\ request[r].at = "insert features"
  /\ AddParts(r, "feature", "commit product")
  /\ UNCHANGED productVars

CommitProduct(r) ==
  /\ request[r].at = "commit product"
  /\ \E p \in ProductIds \ Stored : product' = [product EXCEPT ![p] = request[r].tx]
  /\ Ends(r)
  /\ UNCHANGED <<category, note, wasVisible>>

UpdateProducts(r, at, rows) ==
  /\ Statement(r, at)
  /\ product' = rows
  /\ Ends(r)
  /\ UNCHANGED <<category, note, wasVisible>>

Owns(u, p) == p \in Stored /\ product[p].vendor = u

Publish(p, u) == IF Owns(u, p) THEN [product EXCEPT ![p].published = TRUE] ELSE product
PublishProduct(r) ==
  UpdateProducts(r, "publishProduct", Publish(request[r].form.product, request[r].user))

Unpublish(p, u) == IF Owns(u, p) THEN [product EXCEPT ![p].published = FALSE] ELSE product
UnpublishProduct(r) ==
  UpdateProducts(r, "unPublishProduct", Unpublish(request[r].form.product, request[r].user))

\* Mutant: without AND status = 'pending'.
UndecidedOrNot(p) == p \in Stored

Undecided(p) == p \in Stored /\ product[p].status = "pending"

\* Both statements number their parameters so that one of them has no type:
\* unless that is repaired they end in an error.
Approve(p) ==
  IF "Approve" \in Repaired /\ Undecided(p)
    THEN [product EXCEPT ![p].status = "approved"] ELSE product
ApproveProduct(r) == UpdateProducts(r, "approveProduct", Approve(request[r].form.product))

Reject(p) ==
  IF "Reject" \in Repaired /\ Undecided(p)
    THEN [product EXCEPT ![p].status = "rejected", ![p].published = FALSE] ELSE product
RejectProduct(r) == UpdateProducts(r, "rejectProduct", Reject(request[r].form.product))

-----------------------------------------------------------------------------
(* Reviews and wishlists.                                                  *)

\* Mutant: a category that is not there is no error.
GetProductByIDAnyway(p) == p \in Stored

\* The category of an orphan is NULL, which is no string: an error.
GetProductByID(p) == p \in Stored /\ product[p].category # NoCategory

\* createReview, removeReview and addProductToWhitelist find the product first.
FindProduct(r, at, next) ==
  /\ Statement(r, at)
  /\ IF GetProductByID(request[r].form.product) THEN Moves(r, next) ELSE Ends(r)
  /\ UNCHANGED productVars

Write(r, at, tables) ==
  /\ Statement(r, at)
  /\ note' \in tables
  /\ Ends(r)
  /\ UNCHANGED <<category, product, wasVisible>>

NoteRow(kind, u, p) == [kind |-> kind, user |-> u, product |-> p]
With(row) == {[note EXCEPT ![i] = row] : i \in {j \in Notes : note[j] = NoNote}}

\* A customer may review a product any number of times, bought or not.
Create(u, p) == With(NoteRow("review", u, p))
CreateReview(r) ==
  Write(r, "write review", Create(request[r].user, request[r].form.product))

Delete(i, p) ==
  IF note[i].kind = "review" /\ note[i].product = p THEN {[note EXCEPT ![i] = NoNote]} ELSE {note}
RemoveReview(r) ==
  Write(r, "erase review", Delete(request[r].form.note, request[r].form.product))

\* wishlists_user_id_product_id_uniq
AddItem(u, p) ==
  IF \E i \in Notes : note[i] = NoteRow("wish", u, p) THEN {note} ELSE With(NoteRow("wish", u, p))
AddProductToWishlist(r) ==
  Write(r, "write wish", AddItem(request[r].user, request[r].form.product))

RemoveItem(i, u) ==
  IF note[i].kind = "wish" /\ note[i].user = u THEN {[note EXCEPT ![i] = NoNote]} ELSE {note}
RemoveFromWishlist(r) ==
  Write(r, "removeProductFromWhitelist", RemoveItem(request[r].form.note, request[r].user))

ServeProducts(r) ==
  \/ CreateCategory(r) \/ SetCategoryVisibility(r) \/ RemoveCategory(r)
  \/ CreateProduct(r) \/ BeginProduct(r) \/ InsertProduct(r) \/ CreateProductImages(r)
  \/ CreateProductFeatures(r) \/ CommitProduct(r)
  \/ PublishProduct(r) \/ UnpublishProduct(r) \/ ApproveProduct(r) \/ RejectProduct(r)
  \/ FindProduct(r, "createReview", "write review") \/ CreateReview(r)
  \/ FindProduct(r, "removeReview", "erase review") \/ RemoveReview(r)
  \/ FindProduct(r, "addProductToWhitelist", "write wish") \/ AddProductToWishlist(r)
  \/ RemoveFromWishlist(r)

-----------------------------------------------------------------------------
(* What is shown.                                                          *)

\* A vendor gets his own products; any other caller may name a vendor.
VendorFilter(u, named) == IF u \in Vendors THEN u ELSE named

\* Mutant: with GetWithDetails' rule for products without a category.
InVisibleCategoryOrNone(p) ==
  product[p].category = NoCategory \/ category[product[p].category] = "visible"

InVisibleCategory(p) ==
  product[p].category # NoCategory /\ category[product[p].category] = "visible"

\* GetProducts: the filter passes for the vendor.
Listed(u, named) ==
  LET vendor   == VendorFilter(u, named)
      admin    == u \in Managers
      ofVendor == {p \in Stored : product[p].vendor = vendor}
  IN {p \in Stored :
        /\ InVisibleCategory(p) \/ p \in ofVendor \/ admin
        /\ product[p].published \/ p \in ofVendor
        /\ product[p].status = "approved" \/ admin \/ p \in ofVendor
        /\ vendor # NoVendor => p \in ofVendor}

\* One row without a category, and the whole page is an error.
ListingFails(u, named) == Listed(u, named) \cap Orphans # {}

\* c.id IS NULL would let orphans pass, but their NULL does not scan.
GetWithDetails(p) == p \in Stored /\ InVisibleCategory(p)

\* getProduct's second look at the category is spared its vendor and managers.
Opens(u, p) ==
  /\ GetWithDetails(p)
  /\ Owns(u, p) \/ u \in Managers \/ category[product[p].category] = "visible"

-----------------------------------------------------------------------------
ProductsTypeOK ==
  /\ category \in [Categories -> {"none", "hidden", "visible", "removed"}]
  /\ DOMAIN product = ProductIds /\ \A p \in Stored : product[p] \in Row
  /\ note \in [Notes -> NoteRows \cup {NoNote}]
  /\ wasVisible \subseteq Categories

\* A product is stored with all of its images and features or not at all,
\* although goroutines insert them on one connection and any of them may fail.
ProductsWhole == \A p \in Stored : product[p].parts = product[p].asked

\* A product's category exists or the product has none, and a vendor's product
\* is only in a category that has been visible, whatever managers did to it
\* between createProduct's look at it and the commit.
InKnownCategory ==
  \A p \in Stored \ Orphans :
    Exists(product[p].category) /\ (p \notin DOMAIN Seeded => product[p].category \in wasVisible)

\* The unfiltered listing never fails, and each product in it can be opened,
\* reviewed and put on a wishlist: the queries agree about removed and hidden
\* categories.
PublicListingServed ==
  \A u \in Customers :
    /\ ~ListingFails(u, NoVendor)
    /\ \A p \in Listed(u, NoVendor) : Opens(u, p) /\ GetProductByID(p)

\* Of managers who decide about a product at the same time only one does.
OneDecision ==
  [][\A p \in Stored : product[p].status \in {"approved", "rejected"} =>
       product'[p].status = product[p].status]_productVars

\* A product goes on sale only by a request of its vendor.
PublishedByVendor ==
  [][\A p \in Stored : product'[p].published /\ ~product[p].published =>
       \E r \in Requests : request'[r] # request[r] /\ request[r].user = product[p].vendor]_productVars

\* The first decision about a product is not overwritten by a second one, and
\* nobody else puts a vendor's product on sale, however the requests overlap.
DecisionsStand == OneDecision /\ PublishedByVendor

NotesOn(p) == {i \in Notes : note[i] # NoNote /\ note[i].product = p}

\* Once its category is removed, what customers have written about a product
\* stays as it is: after the requests that had read the product before, nobody
\* gets to review it, to remove a review or to put it on a wishlist.
OrphansFreeze ==
  \A p \in ProductIds : <>(p \in Orphans) => <>[][NotesOn(p)' = NotesOn(p)]_note
=============================================================================
