----------------------------- MODULE MCCatalogue -----------------------------
(* An instance of Catalogue for TLC. *)
EXTENDS Catalogue, TLC

CONSTANTS r1, r2, vera, dan, mia, ann, furniture, toys, lamp, doll, ot1, ot2, n1, n2, v1, v2, v3, c1, c2, c3

SomeParts == {<<"image", 1>>, <<"image", 2>>, <<"feature", 1>>}
OldProduct == lamp :> [vendor |-> vera, category |-> furniture, status |-> "pending",
                    published |-> FALSE, parts |-> {}, asked |-> {}]

Send(u, handlers, rest) == {<<u, [handler |-> h] @@ rest>> : h \in handlers}

\* A vendor offers a product in the category of an older one, while a manager
\* shows, hides and removes that category.
Offering ==
  UNION {Send(vera, {"createProduct"}, [category |-> x, parts |-> SomeParts]) : x \in {furniture, toys}}
  \cup Send(mia, {"createCategory"}, <<>>)
  \cup Send(mia, {"removeCategory"}, [category |-> furniture])
  \cup UNION {Send(mia, {"setCategoryVisibility"}, [category |-> x, visible |-> b]) : x \in {furniture, toys}, b \in BOOLEAN}
  \cup Send(vera, {"publishProduct"}, [product |-> lamp])
  \cup Send(mia, {"approveProduct"}, [product |-> lamp])

\* Managers and vendors decide about the same product.
Deciding ==
  Send(mia, {"approveProduct", "rejectProduct"}, [product |-> lamp])
  \cup Send(vera, {"publishProduct", "unPublishProduct"}, [product |-> lamp])
  \cup Send(dan, {"publishProduct"}, [product |-> lamp])
  \cup Send(mia, {"setCategoryVisibility"}, [category |-> furniture, visible |-> TRUE])

\* Customers write about a product whose category goes.
Writing ==
  Send(ann, {"createReview", "addProductToWhitelist"}, [product |-> lamp])
  \cup Send(mia, {"removeReview"}, [product |-> lamp, note |-> n1])
  \cup Send(ann, {"removeProductFromWhitelist"}, [note |-> n1])
  \cup Send(mia, {"removeCategory"}, [category |-> furniture])

\* Administrators and the option types.
Options ==
  Send(mia, {"createOptionType"}, [name |-> "colour", texts |-> {"red", "blue"}])
  \cup Send(mia, {"createOptionType"}, [name |-> "size", texts |-> {"blue"}])
  \cup Send(mia, {"addOptionValues"}, [type |-> ot1, texts |-> {"blue"}])
  \cup Send(mia, {"updateOptionType"}, [type |-> ot1, name |-> "size"])
  \cup Send(mia, {"updateOptionValue"}, [value |-> v1, text |-> "green"])
  \cup Send(mia, {"deleteOptionValue"}, [value |-> v1])

SomeScenarios == {Offering, Deciding, Writing, Options}
=============================================================================
