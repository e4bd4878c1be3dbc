--------------------------- MODULE CatalogueProofs ---------------------------
(***************************************************************************)
(* Proofs about the catalogue, and about walks through its listings.       *)
(*                                                                         *)
(* First part: for any number of requests, connections, products and       *)
(* option types.  IInv says what a request knows at its step: the caller   *)
(* and form it came with, what its transaction has inserted, and what it   *)
(* has looked up; AllThrifty, how many connections it holds.               *)
(*                                                                         *)
(* Second part: for any number of rows, creation times, owners and changes *)
(* and any page size.  Orders that differ in how they break ties show, at  *)
(* each position, rows of the same age.  A row is missed when it is moved  *)
(* behind the boundary between the pages read and the pages to come, and   *)
(* repeated when it is moved ahead of it; each row that appears or         *)
(* disappears moves one row at most.                                       *)
(***************************************************************************)
EXTENDS Catalogue, Listings, FiniteSetTheorems, SequenceTheorems, TLAPS

-----------------------------------------------------------------------------
(* What a request knows at its step.                                       *)

Fields == {"at", "held", "user", "form", "tx"}

\* A request is at a step of the handler that its form is for.
OnCourse(q) == q # Idle =>
  /\ DOMAIN q = Fields
  /\ q.at \in Handlers => q.form.handler = q.at
  /\ q.at \in {"insert type", "insert values", "commit option"} => q.form.handler = "createOptionType"
  /\ q.at = "update type" => q.form.handler = "updateOptionType"
  /\ q.at \in {"begin product", "insert product", "insert images", "insert features", "commit product"} =>
       q.form.handler = "createProduct"
  /\ q.at = "write review" => q.form.handler = "createReview"
  /\ q.at = "write wish" => q.form.handler = "addProductToWhitelist"

\* The rows of an option type that is about to be committed are new, one for
\* each text, and nobody has stored such a text.
OptionTx(q) ==
  /\ q.at \in {"insert values", "commit option"} => q.tx.type \in Types
  /\ q.at = "commit option" =>
       /\ q.tx.rows \in [q.form.texts -> Values \ StoredValues]
       /\ \A m, n \in q.form.texts : m # n => q.tx.rows[m] # q.tx.rows[n]
       /\ \A v \in StoredValues : optionValue[v].text \notin q.form.texts

PartsSoFar(q) ==
  IF q.at = "insert images" THEN {}
  ELSE IF q.at = "insert features" THEN {part \in q.form.parts : part[1] = "image"}
  ELSE q.form.parts

ProductTx(q) ==
  /\ q.at \in {"begin product", "insert product"} => q.form.category \in wasVisible
  /\ q.at \in {"insert images", "insert features", "commit product"} =>
       /\ Exists(q.form.category) /\ q.form.category \in wasVisible
       /\ q.tx \in Row /\ q.tx.category = q.form.category
       /\ q.tx.parts = PartsSoFar(q) /\ q.tx.asked = q.form.parts

Found(q) == q.at \in {"write review", "write wish"} => q.form.product \in ProductIds

Informed(q) == RequestOK(q) /\ OnCourse(q) /\ OptionTx(q) /\ ProductTx(q) /\ Found(q)

\* Open transactions have not inserted the same text, or under the same id.
Apart(p, q) ==
  p.at = "commit option" /\ q.at = "commit option" =>
    /\ DOMAIN p.tx.rows \cap DOMAIN q.tx.rows = {}
    /\ \A m \in DOMAIN p.tx.rows, n \in DOMAIN q.tx.rows : p.tx.rows[m] # q.tx.rows[n]

TextsUnique ==
  \A v, w \in StoredValues : optionValue[v].text = optionValue[w].text => v = w

VisibleWas == \A c \in Categories : category[c] = "visible" => c \in wasVisible

RequestsInv ==
  /\ traffic \in Scenarios /\ DOMAIN request = Requests
  /\ \A r \in Requests : Informed(request[r])
  /\ \A r, s \in Requests : r # s => Apart(request[r], request[s])
OptionsInv  == OptionTypesTypeOK /\ ValuesAsAsked /\ TextsUnique
ProductsInv == ProductsTypeOK /\ ProductsWhole /\ InKnownCategory /\ VisibleWas

IInv == RequestsInv /\ OptionsInv /\ ProductsInv

-----------------------------------------------------------------------------
(* Requests.                                                               *)

\* One request goes to its next step, the others stay at theirs.
LEMMA GoFacts ==
  ASSUME DOMAIN request = Requests, NEW r \in Requests, NEW q, Go(r, q)
  PROVE  /\ DOMAIN request' = Requests /\ request'[r] = q
         /\ \A s \in Requests \ {r} : request'[s] = request[s]
  BY DEF Go

LEMMA ApartSymmetric == ASSUME NEW p, NEW q, Apart(p, q) PROVE Apart(q, p)
  BY DEF Apart

\* A request that knows nothing and holds nothing.
LEMMA IdleInformed == Informed(Idle) /\ Idle.at # "commit option"
  BY DEF Informed, RequestOK, OnCourse, OptionTx, ProductTx, Found, Idle

\* What is known at a step stays true when no table changes.
LEMMA QuietStep ==
  ASSUME IInv, NEW r \in Requests, NEW q, Go(r, q), UNCHANGED <<optionVars, productVars, traffic>>,
         Informed(q), \A s \in Requests \ {r} : Apart(q, request[s])
  PROVE  IInv'
<1>1. DOMAIN request' = Requests /\ request'[r] = q
      /\ \A s \in Requests \ {r} : request'[s] = request[s]
  BY GoFacts DEF IInv, RequestsInv
<1>2. ASSUME NEW p, Informed(p) PROVE Informed(p)'
  BY <1>2 DEF Informed, RequestOK, OnCourse, OptionTx, ProductTx, PartsSoFar, Found, Exists, StoredValues,
    optionVars, productVars
<1>3. \A s \in Requests : Informed(request[s])'
  <2> TAKE s \in Requests
  <2>1. PICK p : p = request'[s]
    OBVIOUS
  <2>2. Informed(p)
    BY <1>1, <2>1 DEF IInv, RequestsInv
  <2>3. Informed(p)'
    BY <1>2, <2>2
  <2> QED BY <2>1, <2>3 DEF Informed, RequestOK, OnCourse, OptionTx, ProductTx, PartsSoFar, Found
<1>4. \A s, t \in Requests : s # t => Apart(request[s], request[t])'
  <2> TAKE s, t \in Requests
  <2>1. PICK p, o : p = request'[s] /\ o = request'[t]
    OBVIOUS
  <2>2. ASSUME s # t PROVE Apart(p, o)
    <3>1. CASE s # r /\ t # r
      BY <1>1, <2>1, <2>2, <3>1 DEF IInv, RequestsInv
    <3>2. CASE s = r /\ t # r
      BY <1>1, <2>1, <3>2
    <3>3. CASE s # r /\ t = r
      BY <1>1, <2>1, <3>3, ApartSymmetric
    <3> QED BY <2>2, <3>1, <3>2, <3>3
  <2> QED BY <2>1, <2>2 DEF Apart
<1>5. RequestsInv'
  BY <1>1, <1>3, <1>4 DEF IInv, RequestsInv
<1>6. OptionsInv'
  BY DEF IInv, OptionsInv, OptionTypesTypeOK, ValuesAsAsked, TextsUnique, StoredValues, StoredTypes, Pair,
    optionVars
<1>7. ProductsInv'
  BY DEF IInv, ProductsInv, ProductsTypeOK, ProductsWhole, InKnownCategory, VisibleWas, Stored, Orphans,
    Of, Exists, productVars
<1> QED BY <1>5, <1>6, <1>7 DEF IInv

LEMMA OptionTxStays == ASSUME NEW q, OptionTx(q), UNCHANGED optionVars PROVE OptionTx(q)'
  BY DEF OptionTx, StoredValues, optionVars

LEMMA ProductTxStays == ASSUME NEW q, ProductTx(q), UNCHANGED productVars PROVE ProductTx(q)'
  BY DEF ProductTx, PartsSoFar, Exists, productVars

LEMMA OptionsStay == ASSUME OptionsInv, UNCHANGED optionVars PROVE OptionsInv'
  BY DEF OptionsInv, OptionTypesTypeOK, ValuesAsAsked, TextsUnique, StoredValues, StoredTypes, Pair, optionVars

LEMMA ProductsStay == ASSUME ProductsInv, UNCHANGED productVars PROVE ProductsInv'
  BY DEF ProductsInv, ProductsTypeOK, ProductsWhole, InKnownCategory, VisibleWas, Stored, Orphans, Of,
    Exists, productVars

\* The last step of a request changes tables; it has to leave to the others what
\* their transactions rely on.
LEMMA LastStep ==
  ASSUME IInv, NEW r \in Requests, Ends(r), UNCHANGED traffic, OptionsInv', ProductsInv',
         \A s \in Requests \ {r} : \A q : q = request[s] => OptionTx(q)' /\ ProductTx(q)'
  PROVE  IInv'
<1>1. DOMAIN request' = Requests /\ request'[r] = Idle
      /\ \A s \in Requests \ {r} : request'[s] = request[s]
  BY GoFacts DEF IInv, RequestsInv, Ends
<1>2. ASSUME NEW q, RequestOK(q) PROVE RequestOK(q)'
  BY <1>2 DEF RequestOK
<1>3. \A s \in Requests : Informed(request[s])'
  <2> TAKE s \in Requests
  <2>1. PICK q : q = request'[s]
    OBVIOUS
  <2>2. OptionTx(q)' /\ ProductTx(q)'
    <3>1. CASE s = r
      <4>1. q.at = "idle"
        BY <1>1, <2>1, <3>1 DEF Idle
      <4> QED BY <4>1 DEF OptionTx, ProductTx
    <3>2. CASE s # r
      BY <1>1, <2>1, <3>2
    <3> QED BY <3>1, <3>2
  <2>3. Informed(q)
    BY <1>1, <2>1, IdleInformed DEF IInv, RequestsInv
  <2>4. RequestOK(q)'
    BY <1>2, <2>3 DEF Informed
  <2>5. OnCourse(q)' /\ Found(q)'
    BY <2>3 DEF Informed, OnCourse, Found
  <2> QED BY <2>1, <2>2, <2>4, <2>5 DEF Informed, RequestOK, OnCourse, OptionTx, ProductTx, PartsSoFar, Found
<1>4. \A s, t \in Requests : s # t => Apart(request[s], request[t])'
  <2> TAKE s, t \in Requests
  <2>1. PICK p, o : p = request'[s] /\ o = request'[t]
    OBVIOUS
  <2>2. ASSUME s # t PROVE Apart(p, o)
    <3>1. CASE s # r /\ t # r
      BY <1>1, <2>1, <2>2, <3>1 DEF IInv, RequestsInv
    <3>2. CASE s = r \/ t = r
      BY <1>1, <2>1, <3>2, IdleInformed DEF Apart
    <3> QED BY <3>1, <3>2
  <2> QED BY <2>1, <2>2 DEF Apart
<1>5. RequestsInv'
  BY <1>1, <1>3, <1>4 DEF IInv, RequestsInv
<1> QED BY <1>5 DEF IInv

\* A step that leads a request on, with what it holds and has inserted.
LEMMA StepOn ==
  ASSUME IInv, NEW r \in Requests, request[r] # Idle, UNCHANGED <<optionVars, productVars, traffic>>,
         NEW at, NEW held \in SUBSET Connections, NEW tx,
         Go(r, [request[r] EXCEPT !.at = at, !.held = held, !.tx = tx]),
         \A q : /\ q.at = at /\ q.tx = tx /\ q.user = request[r].user /\ q.form = request[r].form
                => /\ OptionTx(q) /\ ProductTx(q) /\ Found(q)
                   /\ DOMAIN q = Fields => OnCourse(q)
                   /\ \A s \in Requests \ {r} : Apart(q, request[s])
  PROVE  IInv'
<1> DEFINE p == request[r]
<1> DEFINE q == [p EXCEPT !.at = at, !.held = held, !.tx = tx]
<1>1. Informed(p) /\ DOMAIN p = Fields
  BY DEF IInv, RequestsInv, Informed, OnCourse
<1>2. DOMAIN q = Fields /\ q.at = at /\ q.held = held /\ q.tx = tx /\ q.user = p.user /\ q.form = p.form
  BY <1>1 DEF Fields
<1>3. Informed(q)
  BY <1>1, <1>2 DEF Informed, RequestOK
<1>4. \A s \in Requests \ {r} : Apart(q, request[s])
  BY <1>2
<1> HIDE DEF q
<1> QED BY <1>3, <1>4, QuietStep DEF q

-----------------------------------------------------------------------------
(* Option types.                                                           *)

\* A connection that is free is one of the pool.
LEMMA FreeConnection == Free # {} => (CHOOSE c \in Free : TRUE) \in Connections
  BY DEF Free

\* What a request that is not idle has got.
LEMMA Underway ==
  ASSUME IInv, NEW r \in Requests, request[r] # Idle
  PROVE  /\ DOMAIN request[r] = Fields /\ request[r].held \subseteq Connections
         /\ Permitted(request[r].user, request[r].form) /\ request[r].form.handler \in Handlers
         /\ Informed(request[r])
<1>1. Informed(request[r]) /\ traffic \in Scenarios
  BY DEF IInv, RequestsInv
<1>2. DOMAIN request[r] = Fields /\ request[r].held \subseteq Connections
  BY <1>1 DEF Informed, RequestOK, OnCourse
<1>3. PICK t \in traffic : request[r].user = t[1] /\ request[r].form = t[2]
  BY <1>1 DEF Informed, RequestOK
<1>4. Permitted(t[1], t[2])
  BY <1>1, <1>3, ScenariosAssumption
<1>5. Permitted(request[r].user, request[r].form)
  BY <1>3, <1>4
<1>6. request[r].form.handler \in Handlers
  BY <1>5 DEF Permitted
<1> QED BY <1>1, <1>2, <1>5, <1>6

\* A statement before a transaction, or BEGIN: only the step and the
\* connections change.
LEMMA TurnsTo ==
  ASSUME IInv, NEW r \in Requests, request[r] # Idle, UNCHANGED <<optionVars, productVars, traffic>>,
         NEW at \in {"insert type", "add values", "update type", "begin product", "insert product",
                     "write review", "erase review", "write wish"},
         Moves(r, at) \/ BeginTx(r, at),
         at = "insert type" => request[r].form.handler = "createOptionType",
         at = "update type" => request[r].form.handler = "updateOptionType",
         at \in {"begin product", "insert product"} =>
           request[r].form.handler = "createProduct" /\ request[r].form.category \in wasVisible,
         at = "write review" => request[r].form.handler = "createReview",
         at = "write wish" => request[r].form.handler = "addProductToWhitelist",
         at \in {"write review", "write wish"} => request[r].form.product \in ProductIds
  PROVE  IInv'
<1> DEFINE p == request[r]
<1>1. DOMAIN p = Fields /\ p.held \subseteq Connections
  BY Underway
<1>2. PICK held \in SUBSET Connections : Go(r, [p EXCEPT !.at = at, !.held = held, !.tx = p.tx])
  <2>1. CASE Moves(r, at)
    <3>1. [p EXCEPT !.at = at] = [p EXCEPT !.at = at, !.held = p.held, !.tx = p.tx]
      BY <1>1 DEF Fields
    <3> QED BY <1>1, <2>1, <3>1 DEF Moves
  <2>2. CASE BeginTx(r, at)
    <3> DEFINE held == p.held \cup {CHOOSE c \in Free : TRUE}
    <3>1. [p EXCEPT !.at = at, !.held = @ \cup {CHOOSE c \in Free : TRUE}]
          = [p EXCEPT !.at = at, !.held = held, !.tx = p.tx]
      BY <1>1 DEF Fields
    <3>2. held \in SUBSET Connections
      BY <1>1, <2>2, FreeConnection DEF BeginTx
    <3>3. Go(r, [p EXCEPT !.at = at, !.held = held, !.tx = p.tx])
      BY <2>2, <3>1 DEF BeginTx
    <3> QED BY <3>2, <3>3
  <2> QED BY <2>1, <2>2
<1>3. at # "commit option" /\ at \notin Handlers /\ at # "idle"
  BY DEF Handlers
<1>4. ASSUME NEW q, q.at = at, q.tx = p.tx, q.user = p.user, q.form = p.form
      PROVE  /\ OptionTx(q) /\ ProductTx(q) /\ Found(q) /\ (DOMAIN q = Fields => OnCourse(q))
             /\ \A s \in Requests \ {r} : Apart(q, request[s])
  <2>1. OptionTx(q)
    BY <1>4 DEF OptionTx
  <2>2. ProductTx(q)
    BY <1>4 DEF ProductTx
  <2>3. Found(q)
    BY <1>4 DEF Found
  <2>4. DOMAIN q = Fields => OnCourse(q)
    BY <1>3, <1>4 DEF OnCourse
  <2>5. \A s \in Requests \ {r} : Apart(q, request[s])
    BY <1>3, <1>4 DEF Apart
  <2> QED BY <2>1, <2>2, <2>3, <2>4, <2>5
<1> HIDE DEF p
<1>5. Go(r, [request[r] EXCEPT !.at = at, !.held = held, !.tx = p.tx])
  BY <1>2 DEF p
<1>6. \A q : /\ q.at = at /\ q.tx = p.tx /\ q.user = request[r].user /\ q.form = request[r].form
             => /\ OptionTx(q) /\ ProductTx(q) /\ Found(q)
                /\ DOMAIN q = Fields => OnCourse(q)
                /\ \A s \in Requests \ {r} : Apart(q, request[s])
  BY <1>4 DEF p
<1> QED BY <1>2, <1>5, <1>6, StepOn

\* A request ends and nothing else changes.
LEMMA QuietEnd ==
  ASSUME IInv, NEW r \in Requests, Ends(r), UNCHANGED <<optionVars, productVars, traffic>>
  PROVE  IInv'
  BY QuietStep, IdleInformed DEF Ends, Apart

\* An INSERT in a transaction.
LEMMA InsertsOn ==
  ASSUME IInv, NEW r \in Requests, request[r] # Idle, UNCHANGED <<optionVars, productVars, traffic>>,
         NEW at, NEW tx, Inserts(r, at, tx),
         \A q : /\ q.at = at /\ q.tx = tx /\ q.user = request[r].user /\ q.form = request[r].form
                => /\ OptionTx(q) /\ ProductTx(q) /\ Found(q)
                   /\ DOMAIN q = Fields => OnCourse(q)
                   /\ \A s \in Requests \ {r} : Apart(q, request[s])
  PROVE  IInv'
<1>1. DOMAIN request[r] = Fields /\ request[r].held \in SUBSET Connections
  BY Underway
<1>2. [request[r] EXCEPT !.at = at, !.tx = tx]
      = [request[r] EXCEPT !.at = at, !.held = request[r].held, !.tx = tx]
  BY <1>1 DEF Fields
<1>3. Go(r, [request[r] EXCEPT !.at = at, !.held = request[r].held, !.tx = tx])
  BY <1>2 DEF Inserts
<1> QED BY <1>1, <1>3, StepOn

LEMMA NotIdle == ASSUME NEW r \in Requests, request[r].at # "idle" PROVE request[r] # Idle
  BY DEF Idle

LEMMA CreateOptionTypeKeeps ==
  ASSUME IInv, NEW r \in Requests, CreateOptionType(r), UNCHANGED <<productVars, traffic>>
  PROVE  IInv'
<1>1. request[r].at = "createOptionType" /\ request[r] # Idle
  BY NotIdle DEF CreateOptionType
<1>2. request[r].form.handler = "createOptionType"
  BY <1>1, Underway DEF Informed, OnCourse, Handlers
<1> QED BY <1>1, <1>2, TurnsTo DEF CreateOptionType

LEMMA InsertTypeKeeps ==
  ASSUME IInv, NEW r \in Requests, InsertType(r), UNCHANGED <<productVars, traffic>>
  PROVE  IInv'
<1>1. request[r].at = "insert type" /\ request[r] # Idle
  BY NotIdle DEF InsertType
<1>2. request[r].form.handler = "createOptionType"
  BY <1>1, Underway DEF Informed, OnCourse
<1>3. PICK t \in Types : Inserts(r, "insert values", [type |-> t])
  BY DEF InsertType
<1>4. ASSUME NEW q, q.at = "insert values", q.tx = [type |-> t], q.form = request[r].form
      PROVE  /\ OptionTx(q) /\ ProductTx(q) /\ Found(q) /\ (DOMAIN q = Fields => OnCourse(q))
             /\ \A s \in Requests \ {r} : Apart(q, request[s])
  <2>0. [type |-> t].type = t
    OBVIOUS
  <2>1. q.tx.type \in Types
    BY <1>3, <1>4, <2>0, Zenon
  <2>2. OptionTx(q)
    BY <1>4, <2>1 DEF OptionTx
  <2>3. ProductTx(q) /\ Found(q) /\ (DOMAIN q = Fields => OnCourse(q))
    BY <1>2, <1>4 DEF ProductTx, Found, OnCourse, Handlers
  <2>4. \A s \in Requests \ {r} : Apart(q, request[s])
    BY <1>4 DEF Apart
  <2> QED BY <2>2, <2>3, <2>4
<1> QED BY <1>1, <1>3, <1>4, InsertsOn DEF InsertType

LEMMA InsertValuesKeeps ==
  ASSUME IInv, NEW r \in Requests, InsertValues(r), UNCHANGED <<productVars, traffic>>
  PROVE  IInv'
<1> DEFINE texts == request[r].form.texts
<1>1. request[r].at = "insert values" /\ request[r] # Idle
  BY NotIdle DEF InsertValues
<1>2. request[r].form.handler = "createOptionType" /\ request[r].tx.type \in Types
  BY <1>1, Underway DEF Informed, OnCourse, OptionTx
<1>2a. PICK t \in Types : t = request[r].tx.type
  BY <1>2
<1>3. PICK rows \in [texts -> Values \ (StoredValues \cup OpenIds)] :
        /\ \A m, n \in texts : m # n => rows[m] # rows[n]
        /\ Inserts(r, "commit option", [type |-> t, rows |-> rows])
  BY <1>2a DEF InsertValues, Inserted
<1>4. \A n \in texts : TextFree(n, {})
  BY DEF InsertValues
<1>5. ASSUME NEW q, q.at = "commit option", q.tx = [type |-> t, rows |-> rows],
             q.form = request[r].form
      PROVE  /\ OptionTx(q) /\ ProductTx(q) /\ Found(q) /\ (DOMAIN q = Fields => OnCourse(q))
             /\ \A s \in Requests \ {r} : Apart(q, request[s])
  <2>0. [type |-> t, rows |-> rows].type = t /\ [type |-> t, rows |-> rows].rows = rows
    OBVIOUS
  <2>1. q.tx.type = t /\ q.tx.rows = rows
    BY <1>5, <2>0, Zenon
  <2>2. OptionTx(q)
    BY <1>2, <1>3, <1>4, <1>5, <2>1 DEF OptionTx, TextFree
  <2>3. ProductTx(q) /\ Found(q) /\ (DOMAIN q = Fields => OnCourse(q))
    BY <1>2, <1>5 DEF ProductTx, Found, OnCourse, Handlers
  <2>4. ASSUME NEW s \in Requests \ {r}, request[s].at = "commit option"
        PROVE  /\ DOMAIN rows \cap DOMAIN request[s].tx.rows = {}
               /\ \A m \in DOMAIN rows, n \in DOMAIN request[s].tx.rows : rows[m] # request[s].tx.rows[n]
    <3>1. s \in OpenValues
      BY <2>4 DEF OpenValues, InTx
    <3>2. \A n \in texts : n \notin DOMAIN request[s].tx.rows
      BY <1>4, <3>1 DEF TextFree
    <3>3. \A n \in DOMAIN request[s].tx.rows : request[s].tx.rows[n] \in OpenIds
      BY <3>1 DEF OpenIds
    <3> QED BY <1>3, <3>2, <3>3
  <2> QED BY <2>1, <2>2, <2>3, <2>4 DEF Apart
<1> QED BY <1>1, <1>3, <1>5, InsertsOn DEF InsertValues

\* What the commit of a type and its values makes of the tables.
LEMMA CommittedOption ==
  ASSUME OptionsInv, NEW t \in Types, NEW name \in Names, NEW texts \in SUBSET Names,
         NEW rows \in [texts -> Values \ StoredValues],
         \A m, n \in texts : m # n => rows[m] # rows[n],
         \A v \in StoredValues : optionValue[v].text \notin texts,
         optionType' = [optionType EXCEPT ![t] = name],
         optionValue' = [v \in Values |-> IF v \in {rows[n] : n \in DOMAIN rows}
                           THEN [type |-> t, text |-> CHOOSE n \in DOMAIN rows : rows[n] = v] ELSE optionValue[v]],
         asked' = asked \cup ({t} \X texts)
  PROVE  /\ OptionsInv' /\ StoredValues' = StoredValues \cup {rows[n] : n \in texts}
         /\ \A n \in texts : optionValue'[rows[n]].text = n
         /\ \A v \in StoredValues : optionValue'[v] = optionValue[v]
<1> DEFINE ids == {rows[n] : n \in texts}
<1>0. DOMAIN rows = texts /\ StoredValues \subseteq Values /\ ids \subseteq Values \ StoredValues
  BY DEF StoredValues
<1>6. OptionTypesTypeOK /\ ValuesAsAsked /\ TextsUnique
  BY DEF OptionsInv
<1>7. \A n \in texts : optionValue'[rows[n]] = [type |-> t, text |-> n]
  <2> TAKE n \in texts
  <2>1. (CHOOSE m \in DOMAIN rows : rows[m] = rows[n]) = n
    BY <1>0
  <2> QED BY <1>0, <2>1
<1>8. \A v \in Values \ ids : optionValue'[v] = optionValue[v]
  BY <1>0
<1>9. StoredValues' = StoredValues \cup ids
  <2>1. \A v \in ids : optionValue'[v] # NoValue
    BY <1>7 DEF NoValue
  <2> QED BY <1>0, <1>8, <2>1 DEF StoredValues
<1>10. StoredTypes' = StoredTypes \cup {t}
  BY <1>6, OptionAssumption DEF StoredTypes, OptionTypesTypeOK
<1>11. OptionTypesTypeOK'
  <2>1. optionType' \in [Types -> Names \cup {NoName}]
    BY <1>6 DEF OptionTypesTypeOK
  <2>2. ASSUME NEW v \in Values PROVE optionValue'[v] \in [type : Types, text : Names] \cup {NoValue}
    <3>1. CASE v \in ids
      BY <1>7, <3>1
    <3>2. CASE v \notin ids
      BY <1>6, <1>8, <3>2 DEF OptionTypesTypeOK
    <3> QED BY <3>1, <3>2
  <2>3. optionValue' \in [Values -> [type : Types, text : Names] \cup {NoValue}]
    BY <2>2
  <2>4. asked' \subseteq Types \X Names
    BY <1>6 DEF OptionTypesTypeOK
  <2> QED BY <2>1, <2>3, <2>4 DEF OptionTypesTypeOK
<1>11a. \A v \in StoredValues : optionValue'[v] = optionValue[v]
  BY <1>0, <1>8
<1>12. ValuesAsAsked'
  <2>1. \A v \in StoredValues : Pair(v)' = Pair(v)
    BY <1>11a DEF Pair
  <2>2. \A n \in texts : Pair(rows[n])' = <<t, n>>
    BY <1>7 DEF Pair
  <2>3. {Pair(v)' : v \in StoredValues'} = {Pair(v) : v \in StoredValues} \cup ({t} \X texts)
    <3>1. ASSUME NEW v \in StoredValues'
          PROVE  Pair(v)' \in {Pair(w) : w \in StoredValues} \cup ({t} \X texts)
      <4>1. CASE v \in StoredValues
        BY <2>1, <4>1
      <4>2. CASE v \in ids
        <5>1. PICK n \in texts : v = rows[n]
          BY <4>2
        <5>2. Pair(v)' = <<t, n>>
          BY <2>2, <5>1
        <5> QED BY <5>2
      <4> QED BY <1>9, <4>1, <4>2
    <3>2. ASSUME NEW v \in StoredValues PROVE Pair(v) \in {Pair(w)' : w \in StoredValues'}
      BY <1>9, <2>1
    <3>3. ASSUME NEW n \in texts PROVE <<t, n>> \in {Pair(w)' : w \in StoredValues'}
      <4>1. rows[n] \in StoredValues'
        BY <1>9
      <4> QED BY <2>2, <4>1
    <3>4. ASSUME NEW pair \in {t} \X texts PROVE pair \in {Pair(w)' : w \in StoredValues'}
      BY <3>3
    <3> QED BY <3>1, <3>2, <3>4
  <2>4. \A pair \in asked' : pair[1] \in StoredTypes'
    BY <1>6, <1>10 DEF ValuesAsAsked
  <2>5. {Pair(v)' : v \in StoredValues'} = asked'
    BY <1>6, <2>3 DEF ValuesAsAsked
  <2> QED BY <2>4, <2>5 DEF ValuesAsAsked
<1>13. TextsUnique'
  <2> SUFFICES ASSUME NEW v \in StoredValues', NEW w \in StoredValues',
                      optionValue'[v].text = optionValue'[w].text
               PROVE  v = w
    BY DEF TextsUnique
  <2>1. \A n \in texts : optionValue'[rows[n]].text = n
    BY <1>7
  <2>2. CASE v \in StoredValues /\ w \in StoredValues
    <3>1. optionValue[v].text = optionValue[w].text
      BY <1>11a, <2>2
    <3> QED BY <1>6, <2>2, <3>1 DEF TextsUnique
  <2>3. CASE v \in ids /\ w \in ids
    BY <2>1, <2>3
  <2>4. CASE v \in ids /\ w \in StoredValues
    BY <1>11a, <2>1, <2>4
  <2>5. CASE v \in StoredValues /\ w \in ids
    BY <1>11a, <2>1, <2>5
  <2> QED BY <1>9, <2>2, <2>3, <2>4, <2>5
<1>14. \A n \in texts : optionValue'[rows[n]].text = n
  BY <1>7
<1> QED BY <1>9, <1>11, <1>11a, <1>12, <1>13, <1>14 DEF OptionsInv

LEMMA CommitOptionKeeps ==
  ASSUME IInv, NEW r \in Requests, CommitOption(r), UNCHANGED <<productVars, traffic>>
  PROVE  IInv'
<1>1. request[r].at = "commit option" /\ request[r] # Idle
  BY NotIdle DEF CommitOption
<1>2. request[r].form.handler = "createOptionType" /\ Informed(request[r])
  BY <1>1, Underway DEF Informed, OnCourse
<1>3. PICK t, rows, texts, name :
        t = request[r].tx.type /\ rows = request[r].tx.rows /\ texts = request[r].form.texts
        /\ name = request[r].form.name
  OBVIOUS
<1>4. name \in Names /\ texts \in SUBSET Names
  BY <1>1, <1>2, <1>3, Underway DEF Permitted
<1>5. /\ t \in Types /\ rows \in [texts -> Values \ StoredValues]
      /\ \A m, n \in texts : m # n => rows[m] # rows[n]
      /\ \A v \in StoredValues : optionValue[v].text \notin texts
  BY <1>1, <1>2, <1>3 DEF Informed, OptionTx
<1>6. /\ optionType' = [optionType EXCEPT ![t] = name]
      /\ optionValue' = [v \in Values |-> IF v \in {rows[n] : n \in DOMAIN rows}
                           THEN [type |-> t, text |-> CHOOSE n \in DOMAIN rows : rows[n] = v] ELSE optionValue[v]]
      /\ asked' = asked \cup ({t} \X texts)
      /\ Ends(r)
  BY <1>3 DEF CommitOption
<1>7. /\ OptionsInv' /\ StoredValues' = StoredValues \cup {rows[n] : n \in texts}
      /\ \A n \in texts : optionValue'[rows[n]].text = n
      /\ \A v \in StoredValues : optionValue'[v] = optionValue[v]
  BY <1>4, <1>5, <1>6, CommittedOption DEF IInv
<1>8. ASSUME NEW s \in Requests \ {r}, NEW q, q = request[s]
      PROVE  OptionTx(q)' /\ ProductTx(q)'
  <2>1. OptionTx(q) /\ ProductTx(q) /\ Apart(request[r], q)
    BY <1>8 DEF IInv, RequestsInv, Informed
  <2>2. ProductTx(q)'
    BY <2>1, ProductTxStays
  <2>3. CASE q.at = "commit option"
    <3>1. /\ q.tx.type \in Types /\ q.tx.rows \in [q.form.texts -> Values \ StoredValues]
          /\ \A m, n \in q.form.texts : m # n => q.tx.rows[m] # q.tx.rows[n]
          /\ \A v \in StoredValues : optionValue[v].text \notin q.form.texts
      BY <2>1, <2>3 DEF OptionTx
    <3>2. /\ texts \cap q.form.texts = {}
          /\ \A m \in texts, n \in q.form.texts : rows[m] # q.tx.rows[n]
      BY <1>1, <1>3, <1>5, <2>1, <2>3, <3>1 DEF Apart
    <3>3. q.tx.rows \in [q.form.texts -> Values \ StoredValues']
      BY <1>7, <3>1, <3>2
    <3>4. \A v \in StoredValues' : optionValue'[v].text \notin q.form.texts
      BY <1>7, <3>1, <3>2
    <3> QED BY <2>2, <2>3, <3>1, <3>3, <3>4 DEF OptionTx
  <2>4. CASE q.at # "commit option"
    BY <2>1, <2>2, <2>4 DEF OptionTx
  <2> QED BY <2>3, <2>4
<1>9. ProductsInv'
  BY ProductsStay DEF IInv
<1> QED BY <1>6, <1>7, <1>8, <1>9, LastStep

LEMMA AddOptionValuesKeeps ==
  ASSUME IInv, NEW r \in Requests, AddOptionValues(r), UNCHANGED <<productVars, traffic>>
  PROVE  IInv'
<1>1. request[r] # Idle
  BY NotIdle DEF AddOptionValues, Statement
<1>2. CASE Moves(r, "add values") \/ BeginTx(r, "add values")
  BY <1>1, <1>2, TurnsTo DEF AddOptionValues
<1>3. CASE Ends(r)
  BY <1>3, QuietEnd DEF AddOptionValues
<1> QED BY <1>2, <1>3 DEF AddOptionValues, CreateOptionValues

LEMMA UpdateOptionTypeKeeps ==
  ASSUME IInv, NEW r \in Requests, UpdateOptionType(r), UNCHANGED <<productVars, traffic>>
  PROVE  IInv'
<1> DEFINE t == request[r].form.type
           n == request[r].form.name
<1>1. request[r] # Idle
  BY NotIdle DEF UpdateOptionType, Statement
<1>2. CASE Statement(r, "updateOptionType") /\ UNCHANGED optionVars
           /\ IF GetByID(t) THEN Moves(r, "update type") ELSE Ends(r)
  <2>1. request[r].form.handler = "updateOptionType"
    BY <1>1, <1>2, Underway DEF Statement, Informed, OnCourse, Handlers
  <2>2. CASE Moves(r, "update type")
    BY <1>1, <1>2, <2>1, <2>2, TurnsTo
  <2>3. CASE Ends(r)
    BY <1>2, <2>3, QuietEnd
  <2> QED BY <1>2, <2>2, <2>3
<1>3. CASE /\ Statement(r, "update type") /\ optionType' = Update(t, n) /\ Ends(r)
           /\ UNCHANGED <<optionValue, asked>>
  <2>1. request[r].form.handler = "updateOptionType"
    BY <1>1, <1>3, Underway DEF Statement, Informed, OnCourse
  <2>2. n \in Names
    BY <1>1, <2>1, Underway DEF Permitted
  <2>3. OptionTypesTypeOK /\ ValuesAsAsked /\ TextsUnique
    BY DEF IInv, OptionsInv
  <2>4. OptionTypesTypeOK'
    BY <1>3, <2>2, <2>3 DEF OptionTypesTypeOK, Update
  <2>5. StoredTypes \subseteq StoredTypes' /\ StoredValues' = StoredValues
        /\ \A v \in StoredValues : Pair(v)' = Pair(v)
    BY <1>3, <2>2, <2>3, OptionAssumption DEF StoredTypes, StoredValues, Pair, Update, OptionTypesTypeOK
  <2>6. ValuesAsAsked' /\ TextsUnique'
    BY <1>3, <2>3, <2>5 DEF ValuesAsAsked, TextsUnique
  <2>7. ASSUME NEW s \in Requests \ {r}, NEW q, q = request[s]
        PROVE  OptionTx(q)' /\ ProductTx(q)'
    <3>1. OptionTx(q) /\ ProductTx(q)
      BY <2>7 DEF IInv, RequestsInv, Informed
    <3>2. OptionTx(q)'
      BY <1>3, <2>5, <3>1 DEF OptionTx
    <3> QED BY <3>1, <3>2, ProductTxStays
  <2>8. OptionsInv' /\ ProductsInv'
    BY <2>4, <2>6, ProductsStay DEF OptionsInv, IInv
  <2> QED BY <1>3, <2>7, <2>8, LastStep
<1> QED BY <1>2, <1>3 DEF UpdateOptionType, optionVars

\* A stored value gets another text, which no other has.
LEMMA RenamedValue ==
  ASSUME OptionsInv, NEW v \in StoredValues, NEW n \in Names, UNCHANGED optionType,
         \A w \in StoredValues \ {v} : optionValue[w].text # n,
         optionValue' = [optionValue EXCEPT ![v].text = n],
         asked' = (asked \ {Pair(v)}) \cup {<<optionValue[v].type, n>>}
  PROVE  OptionsInv' /\ StoredValues' = StoredValues
         /\ \A w \in StoredValues : optionValue'[w].text = IF w = v THEN n ELSE optionValue[w].text
<1>1. OptionTypesTypeOK /\ ValuesAsAsked /\ TextsUnique /\ v \in Values
  BY DEF OptionsInv, StoredValues
<1>2. PICK old : old = optionValue[v]
  OBVIOUS
<1>3. old \in [type : Types, text : Names]
  BY <1>1, <1>2 DEF OptionTypesTypeOK, StoredValues
<1>4. optionValue' = [optionValue EXCEPT ![v] = [type |-> old.type, text |-> n]]
  <2>1. [old EXCEPT !.text = n] = [type |-> old.type, text |-> n]
    BY <1>3
  <2> QED BY <1>2, <2>1
<1>5. /\ optionValue'[v] = [type |-> old.type, text |-> n]
      /\ \A w \in Values \ {v} : optionValue'[w] = optionValue[w]
  BY <1>1, <1>4 DEF OptionTypesTypeOK
<1>6. StoredValues' = StoredValues
  <2>1. [type |-> old.type, text |-> n] # NoValue
    BY DEF NoValue
  <2> QED BY <1>5, <2>1 DEF StoredValues
<1>7. OptionTypesTypeOK'
  BY <1>1, <1>2, <1>3, <1>4 DEF OptionTypesTypeOK
<1>8. \A w \in StoredValues \ {v} : optionValue'[w] = optionValue[w]
  BY <1>5 DEF StoredValues
<1>9. optionValue'[v].text = n /\ optionValue'[v].type = old.type
  BY <1>5
<1>10. ValuesAsAsked'
  <2>1. \A w \in StoredValues \ {v} : Pair(w)' = Pair(w)
    BY <1>8 DEF Pair
  <2>2. Pair(v)' = <<old.type, n>> /\ Pair(v) = <<old.type, old.text>>
    BY <1>2, <1>9 DEF Pair
  <2>3. \A w \in StoredValues \ {v} : Pair(w) # Pair(v)
    BY <1>1 DEF Pair, TextsUnique
  <2>4. {Pair(w)' : w \in StoredValues'} = ({Pair(w) : w \in StoredValues} \ {Pair(v)}) \cup {<<old.type, n>>}
    BY <1>6, <2>1, <2>2, <2>3
  <2>5. {Pair(w)' : w \in StoredValues'} = asked'
    BY <1>1, <1>2, <2>4 DEF ValuesAsAsked
  <2>6. <<old.type, old.text>> \in asked
    BY <1>1, <2>2 DEF ValuesAsAsked
  <2>7. old.type \in StoredTypes
    BY <1>1, <2>6 DEF ValuesAsAsked
  <2>8. StoredTypes' = StoredTypes
    BY DEF StoredTypes
  <2>9. \A pair \in asked' : pair[1] \in StoredTypes'
    BY <1>1, <1>2, <2>7, <2>8 DEF ValuesAsAsked
  <2> QED BY <2>5, <2>9 DEF ValuesAsAsked
<1>11. TextsUnique'
  <2> SUFFICES ASSUME NEW x \in StoredValues, NEW y \in StoredValues,
                      optionValue'[x].text = optionValue'[y].text
               PROVE  x = y
    BY <1>6 DEF TextsUnique
  <2>1. CASE x # v /\ y # v
    <3>1. optionValue[x].text = optionValue[y].text
      BY <1>8, <2>1
    <3> QED BY <1>1, <3>1 DEF TextsUnique
  <2>2. CASE x = v /\ y # v
    BY <1>8, <1>9, <2>2
  <2>3. CASE x # v /\ y = v
    BY <1>8, <1>9, <2>3
  <2> QED BY <2>1, <2>2, <2>3
<1> QED BY <1>6, <1>7, <1>8, <1>9, <1>10, <1>11 DEF OptionsInv

LEMMA UpdateOptionValueKeeps ==
  ASSUME IInv, NEW r \in Requests, UpdateOptionValue(r), UNCHANGED <<productVars, traffic>>
  PROVE  IInv'
<1>1. PICK v, n : v = request[r].form.value /\ n = request[r].form.text
  OBVIOUS
<1>2. /\ Statement(r, "updateOptionValue") /\ TextFree(n, {v}) /\ optionValue' = UpdateValue(v, n)
      /\ asked' = IF v \in StoredValues THEN (asked \ {Pair(v)}) \cup {<<optionValue[v].type, n>>} ELSE asked
      /\ Ends(r) /\ UNCHANGED optionType
  BY <1>1 DEF UpdateOptionValue
<1>3. request[r] # Idle
  BY <1>2, NotIdle DEF Statement
<1>4. n \in Names
  <2>1. request[r].form.handler = "updateOptionValue"
    BY <1>2, <1>3, Underway DEF Statement, Informed, OnCourse, Handlers
  <2> QED BY <1>1, <1>3, <2>1, Underway DEF Permitted
<1>5. CASE v \in StoredValues
  <2>1. /\ OptionsInv' /\ StoredValues' = StoredValues
        /\ \A w \in StoredValues : optionValue'[w].text = IF w = v THEN n ELSE optionValue[w].text
    BY <1>2, <1>4, <1>5, RenamedValue DEF IInv, UpdateValue, TextFree
  <2>2. ASSUME NEW s \in Requests \ {r}, NEW q, q = request[s]
        PROVE  OptionTx(q)' /\ ProductTx(q)'
    <3>1. OptionTx(q) /\ ProductTx(q)
      BY <2>2 DEF IInv, RequestsInv, Informed
    <3>2. ASSUME q.at = "commit option" PROVE n \notin q.form.texts
      <4>1. s \in OpenValues
        BY <2>2, <3>2 DEF OpenValues, InTx
      <4>2. n \notin DOMAIN request[s].tx.rows
        BY <1>2, <4>1 DEF TextFree
      <4>3. DOMAIN q.tx.rows = q.form.texts
        BY <3>1, <3>2 DEF OptionTx
      <4> QED BY <2>2, <4>2, <4>3
    <3>3. OptionTx(q)'
      BY <2>1, <3>1, <3>2 DEF OptionTx
    <3> QED BY <3>1, <3>3, ProductTxStays
  <2>3. ProductsInv'
    BY ProductsStay DEF IInv
  <2> QED BY <1>2, <2>1, <2>2, <2>3, LastStep
<1>6. CASE v \notin StoredValues
  BY <1>2, <1>6, QuietEnd DEF UpdateValue, optionVars
<1> QED BY <1>5, <1>6

LEMMA DeletedValue ==
  ASSUME OptionsInv, NEW v \in StoredValues, UNCHANGED optionType,
         optionValue' = [optionValue EXCEPT ![v] = NoValue], asked' = asked \ {Pair(v)}
  PROVE  OptionsInv' /\ StoredValues' = StoredValues \ {v}
         /\ \A w \in StoredValues' : optionValue'[w] = optionValue[w]
<1>1. OptionTypesTypeOK /\ ValuesAsAsked /\ TextsUnique /\ v \in Values
  BY DEF OptionsInv, StoredValues
<1>2. optionValue'[v] = NoValue /\ \A w \in Values \ {v} : optionValue'[w] = optionValue[w]
  BY <1>1 DEF OptionTypesTypeOK
<1>3. StoredValues' = StoredValues \ {v}
  BY <1>2 DEF StoredValues
<1>4. \A w \in StoredValues' : optionValue'[w] = optionValue[w]
  BY <1>2, <1>3 DEF StoredValues
<1>5. OptionTypesTypeOK'
  BY <1>1 DEF OptionTypesTypeOK
<1>6. ValuesAsAsked'
  <2>1. \A w \in StoredValues \ {v} : Pair(w)' = Pair(w) /\ Pair(w) # Pair(v)
    BY <1>1, <1>3, <1>4 DEF Pair, TextsUnique
  <2>2. {Pair(w)' : w \in StoredValues'} = {Pair(w) : w \in StoredValues} \ {Pair(v)}
    BY <1>3, <2>1
  <2>3. StoredTypes' = StoredTypes
    BY DEF StoredTypes
  <2> QED BY <1>1, <2>2, <2>3 DEF ValuesAsAsked
<1>7. TextsUnique'
  BY <1>1, <1>3, <1>4 DEF TextsUnique
<1> QED BY <1>3, <1>4, <1>5, <1>6, <1>7 DEF OptionsInv

LEMMA DeleteOptionValueKeeps ==
  ASSUME IInv, NEW r \in Requests, DeleteOptionValue(r), UNCHANGED <<productVars, traffic>>
  PROVE  IInv'
<1>1. PICK v : v = request[r].form.value
  OBVIOUS
<1>2. /\ optionValue' = WithoutValue(v) /\ asked' = IF v \in StoredValues THEN asked \ {Pair(v)} ELSE asked
      /\ Ends(r) /\ UNCHANGED optionType
  BY <1>1 DEF DeleteOptionValue
<1>3. CASE v \in StoredValues
  <2>1. /\ OptionsInv' /\ StoredValues' = StoredValues \ {v}
        /\ \A w \in StoredValues' : optionValue'[w] = optionValue[w]
    BY <1>2, <1>3, DeletedValue DEF IInv, WithoutValue
  <2>2. ASSUME NEW s \in Requests \ {r}, NEW q, q = request[s]
        PROVE  OptionTx(q)' /\ ProductTx(q)'
    <3>1. OptionTx(q) /\ ProductTx(q)
      BY <2>2 DEF IInv, RequestsInv, Informed
    <3>2. OptionTx(q)'
      BY <2>1, <3>1 DEF OptionTx
    <3> QED BY <3>1, <3>2, ProductTxStays
  <2>3. ProductsInv'
    BY ProductsStay DEF IInv
  <2> QED BY <1>2, <2>1, <2>2, <2>3, LastStep
<1>4. CASE v \notin StoredValues
  <2>1. optionValue' = optionValue
    <3>1. optionValue \in [Values -> [type : Types, text : Names] \cup {NoValue}]
      BY DEF IInv, OptionsInv, OptionTypesTypeOK
    <3> QED BY <1>2, <1>4, <3>1 DEF WithoutValue, StoredValues
  <2> QED BY <1>2, <1>4, <2>1, QuietEnd DEF optionVars
<1> QED BY <1>3, <1>4

LEMMA ServeOptionsKeeps ==
  ASSUME IInv, NEW r \in Requests, ServeOptions(r), UNCHANGED <<productVars, traffic>>
  PROVE  IInv'
  BY CreateOptionTypeKeeps, InsertTypeKeeps, InsertValuesKeeps, CommitOptionKeeps, AddOptionValuesKeeps,
    UpdateOptionTypeKeeps, UpdateOptionValueKeeps, DeleteOptionValueKeeps DEF ServeOptions

-----------------------------------------------------------------------------
(* Categories.                                                             *)

\* The last step of a request that changes what Products keeps.
LEMMA ProductsLastStep ==
  ASSUME IInv, NEW r \in Requests, Ends(r), UNCHANGED <<optionVars, traffic>>, ProductsInv',
         \A s \in Requests \ {r} : \A q : q = request[s] => ProductTx(q)'
  PROVE  IInv'
<1>1. ASSUME NEW s \in Requests \ {r}, NEW q, q = request[s] PROVE OptionTx(q)' /\ ProductTx(q)'
  <2>1. OptionTx(q)
    BY <1>1 DEF IInv, RequestsInv, Informed
  <2> QED BY <1>1, <2>1, OptionTxStays
<1>2. OptionsInv'
  BY OptionsStay DEF IInv
<1> QED BY <1>1, <1>2, LastStep

\* Who creates a product, where and with what.
LEMMA Offered ==
  ASSUME IInv, NEW s \in Requests, request[s].form.handler = "createProduct", request[s] # Idle
  PROVE  /\ request[s].user \in Vendors /\ request[s].form.category \in Categories
         /\ request[s].form.parts \subseteq Parts
  BY Underway DEF Permitted

\* The handler of a request in the course of createProduct.
LEMMA Offering ==
  ASSUME IInv, NEW s \in Requests,
         request[s].at \in {"begin product", "insert product", "insert images", "insert features", "commit product"}
  PROVE  request[s].form.handler = "createProduct" /\ request[s] # Idle
<1>1. request[s] # Idle
  BY NotIdle
<1> QED BY <1>1, Underway DEF Informed, OnCourse

\* Categories that exist go on existing.
LEMMA CategoriesLastStep ==
  ASSUME IInv, NEW r \in Requests, Ends(r), UNCHANGED <<optionVars, traffic, product, note>>,
         category' \in [Categories -> {"none", "hidden", "visible", "removed"}],
         wasVisible' = wasVisible \cup {c \in Categories : category'[c] = "visible"},
         \A c \in Categories : Exists(c) => Exists(c)'
  PROVE  IInv'
<1>1. ProductsTypeOK /\ ProductsWhole /\ InKnownCategory /\ VisibleWas
  BY DEF IInv, ProductsInv
<1>2. Stored' = Stored /\ Orphans' = Orphans
  BY DEF Stored, Orphans, Of
<1>3. ProductsTypeOK'
  BY <1>1, <1>2 DEF ProductsTypeOK
<1>4. ProductsWhole' /\ InKnownCategory' /\ VisibleWas'
  <2>1. \A p \in Stored \ Orphans : product[p].category \in Categories
    BY <1>1 DEF ProductsTypeOK, Orphans, Of, Row
  <2>2. InKnownCategory'
    BY <1>1, <1>2, <2>1 DEF InKnownCategory
  <2> QED BY <1>1, <1>2, <2>2 DEF ProductsWhole, VisibleWas
<1>5. ProductsInv'
  BY <1>3, <1>4 DEF ProductsInv
<1>6. ASSUME NEW s \in Requests \ {r}, NEW q, q = request[s] PROVE ProductTx(q)'
  <2>1. ProductTx(q)
    BY <1>6 DEF IInv, RequestsInv, Informed
  <2>2. q.at \in {"insert images", "insert features", "commit product"} => q.form.category \in Categories
    BY <1>6, Offering, Offered
  <2> QED BY <2>1, <2>2 DEF ProductTx, PartsSoFar
<1> QED BY <1>5, <1>6, ProductsLastStep

LEMMA CreateCategoryKeeps ==
  ASSUME IInv, NEW r \in Requests, CreateCategory(r), UNCHANGED <<optionVars, traffic>>
  PROVE  IInv'
<1>1. category \in [Categories -> {"none", "hidden", "visible", "removed"}]
  BY DEF IInv, ProductsInv, ProductsTypeOK
<1>2. PICK c \in Categories : category[c] = "none" /\ category' = [category EXCEPT ![c] = "hidden"]
  BY DEF CreateCategory, UpdateCategories, NewCategory
<1>3. category' \in [Categories -> {"none", "hidden", "visible", "removed"}]
  BY <1>1, <1>2
<1>4. \A x \in Categories : Exists(x) => Exists(x)'
  BY <1>1, <1>2 DEF Exists
<1> QED BY <1>3, <1>4, CategoriesLastStep DEF CreateCategory, UpdateCategories

LEMMA SetCategoryVisibilityKeeps ==
  ASSUME IInv, NEW r \in Requests, SetCategoryVisibility(r), UNCHANGED <<optionVars, traffic>>
  PROVE  IInv'
<1>1. category \in [Categories -> {"none", "hidden", "visible", "removed"}]
  BY DEF IInv, ProductsInv, ProductsTypeOK
<1>2. PICK c, v : category' = SetVisibility(c, v)
  BY DEF SetCategoryVisibility, UpdateCategories
<1>3. \/ category' = category
      \/ category' = [category EXCEPT ![c] = "visible"] /\ Exists(c)
      \/ category' = [category EXCEPT ![c] = "hidden"] /\ Exists(c)
  <2>1. CASE ~Exists(c)
    BY <1>1, <1>2, <2>1 DEF SetVisibility
  <2>2. CASE Exists(c) /\ v
    BY <1>2, <2>2 DEF SetVisibility
  <2>3. CASE Exists(c) /\ ~v
    BY <1>2, <2>3 DEF SetVisibility
  <2> QED BY <2>1, <2>2, <2>3
<1>4. category' \in [Categories -> {"none", "hidden", "visible", "removed"}]
  BY <1>1, <1>3
<1>5. \A x \in Categories : Exists(x) => Exists(x)'
  BY <1>1, <1>3 DEF Exists
<1> QED BY <1>4, <1>5, CategoriesLastStep DEF SetCategoryVisibility, UpdateCategories

\* A product loses its category with the category, unless it is being inserted.
LEMMA RemoveCategoryKeeps ==
  ASSUME IInv, NEW r \in Requests, RemoveCategory(r), UNCHANGED <<optionVars, traffic>>
  PROVE  IInv'
<1>1. ProductsTypeOK /\ ProductsWhole /\ InKnownCategory /\ VisibleWas
  BY DEF IInv, ProductsInv
<1>2. PICK c : c = request[r].form.category
  OBVIOUS
<1>3. /\ category' = RemoveByID(c) /\ UNCHANGED note /\ Ends(r)
      /\ wasVisible' = wasVisible \cup {x \in Categories : category'[x] = "visible"}
      /\ \A s \in Inserting : request[s].form.category # c
      /\ product' = [p \in ProductIds |-> IF p \in Of(c) THEN [product[p] EXCEPT !.category = NoCategory]
                                         ELSE product[p]]
  BY <1>2 DEF RemoveCategory, UpdateCategories
<1>4. category' \in [Categories -> {"none", "hidden", "visible", "removed"}]
  BY <1>1, <1>3 DEF RemoveByID, ProductsTypeOK
<1>5. \A x \in Categories : x # c /\ Exists(x) => Exists(x)'
  BY <1>1, <1>3 DEF RemoveByID, Exists, ProductsTypeOK
<1>6. \A p \in Stored : product[p] \in Row
  BY <1>1 DEF ProductsTypeOK
<1>7. ASSUME NEW p \in Stored
      PROVE  /\ product'[p] \in Row /\ product'[p] # NoProduct
             /\ product'[p].parts = product[p].parts /\ product'[p].asked = product[p].asked
             /\ product'[p].category = IF product[p].category = c THEN NoCategory ELSE product[p].category
  <2>1. product[p] \in Row /\ p \in ProductIds
    BY <1>6 DEF Stored
  <2>2. CASE p \in Of(c)
    <3>1. product'[p] = [product[p] EXCEPT !.category = NoCategory]
      BY <1>3, <2>1, <2>2
    <3> QED BY <2>1, <2>2, <3>1 DEF Row, NoProduct, Of
  <2>3. CASE p \notin Of(c)
    <3>1. product'[p] = product[p]
      BY <1>3, <2>1, <2>3
    <3> QED BY <2>1, <2>3, <3>1 DEF Stored, Of
  <2> QED BY <2>2, <2>3
<1>8. Stored' = Stored
  <2>1. \A p \in ProductIds \ Stored : product'[p] = product[p]
    BY <1>3 DEF Of
  <2> QED BY <1>7, <2>1 DEF Stored
<1>9. ProductsTypeOK'
  BY <1>1, <1>3, <1>4, <1>7, <1>8 DEF ProductsTypeOK
<1>10. ProductsWhole'
  BY <1>1, <1>7, <1>8 DEF ProductsWhole
<1>11. InKnownCategory'
  <2> SUFFICES ASSUME NEW p \in Stored, product'[p].category # NoCategory
               PROVE  /\ category'[product'[p].category] \in {"hidden", "visible"}
                      /\ p \notin DOMAIN Seeded => product'[p].category \in wasVisible'
    <3>1. \A p \in (Stored \ Orphans)' : p \in Stored /\ product'[p].category # NoCategory
      BY <1>8 DEF Orphans, Of
    <3> QED BY <3>1 DEF InKnownCategory, Exists
  <2>1. product[p].category # c /\ product'[p].category = product[p].category
    BY <1>7
  <2>2. p \in Stored \ Orphans
    BY <2>1 DEF Orphans, Of
  <2>3. product[p].category \in Categories
    BY <1>6, <2>2 DEF Row, Orphans, Of
  <2>4. Exists(product[p].category) /\ (p \notin DOMAIN Seeded => product[p].category \in wasVisible)
    BY <1>1, <2>2 DEF InKnownCategory
  <2> QED BY <1>3, <1>5, <2>1, <2>3, <2>4 DEF Exists
<1>12. ProductsInv'
  BY <1>1, <1>3, <1>9, <1>10, <1>11 DEF ProductsInv, VisibleWas
<1>13. ASSUME NEW s \in Requests \ {r}, NEW q, q = request[s] PROVE ProductTx(q)'
  <2>1. ProductTx(q)
    BY <1>13 DEF IInv, RequestsInv, Informed
  <2>2. q.at \in {"insert images", "insert features", "commit product"} =>
          q.form.category # c /\ q.form.category \in Categories
    BY <1>3, <1>13, Offering, Offered DEF Inserting, InTx
  <2> QED BY <1>3, <1>5, <2>1, <2>2 DEF ProductTx, PartsSoFar
<1> QED BY <1>3, <1>12, <1>13, ProductsLastStep

-----------------------------------------------------------------------------
(* Products.                                                               *)

LEMMA CreateProductKeeps ==
  ASSUME IInv, NEW r \in Requests, CreateProduct(r), UNCHANGED <<optionVars, traffic>>
  PROVE  IInv'
<1>1. request[r].at = "createProduct" /\ request[r] # Idle
  BY NotIdle DEF CreateProduct, Statement
<1>2. request[r].form.handler = "createProduct"
  BY <1>1, Underway DEF Informed, OnCourse, Handlers
<1>3. CASE MayHold(request[r].form.category) /\ Moves(r, "begin product")
  <2>1. request[r].form.category \in wasVisible
    BY <1>1, <1>2, <1>3, Offered DEF MayHold, IInv, ProductsInv, VisibleWas
  <2> QED BY <1>1, <1>2, <1>3, <2>1, TurnsTo DEF CreateProduct
<1>4. CASE Ends(r)
  BY <1>4, QuietEnd DEF CreateProduct
<1> QED BY <1>3, <1>4 DEF CreateProduct

LEMMA BeginProductKeeps ==
  ASSUME IInv, NEW r \in Requests, BeginProduct(r), UNCHANGED <<optionVars, traffic>>
  PROVE  IInv'
<1>1. request[r].at = "begin product" /\ request[r] # Idle
  BY NotIdle DEF BeginProduct
<1>2. request[r].form.handler = "createProduct" /\ request[r].form.category \in wasVisible
  BY <1>1, Underway DEF Informed, OnCourse, ProductTx
<1> QED BY <1>1, <1>2, TurnsTo DEF BeginProduct

LEMMA InsertProductKeeps ==
  ASSUME IInv, NEW r \in Requests, InsertProduct(r), UNCHANGED <<optionVars, traffic>>
  PROVE  IInv'
<1>1. request[r].at = "insert product" /\ request[r] # Idle
  BY NotIdle DEF InsertProduct
<1>2. request[r].form.handler = "createProduct" /\ request[r].form.category \in wasVisible
  BY <1>1, Underway DEF Informed, OnCourse, ProductTx
<1>3. CASE Exists(request[r].form.category)
  <2>1. PICK row : row = [vendor |-> request[r].user, category |-> request[r].form.category, status |-> "",
                          published |-> FALSE, parts |-> {}, asked |-> request[r].form.parts]
    OBVIOUS
  <2>2. Inserts(r, "insert images", row)
    BY <1>3, <2>1 DEF InsertProduct
  <2>1a. request[r].form.parts \subseteq Parts /\ request[r].user \in Vendors
         /\ request[r].form.category \in Categories
    BY <1>1, <1>2, Offered
  <2>1b. /\ row \in Row /\ row.category = request[r].form.category
         /\ row.parts = {} /\ row.asked = request[r].form.parts
    BY <2>1, <2>1a DEF Row
  <2>3. ASSUME NEW q, q.at = "insert images", q.tx = row, q.user = request[r].user, q.form = request[r].form
        PROVE  /\ OptionTx(q) /\ ProductTx(q) /\ Found(q) /\ (DOMAIN q = Fields => OnCourse(q))
               /\ \A s \in Requests \ {r} : Apart(q, request[s])
    <3>1. OptionTx(q) /\ Found(q) /\ (DOMAIN q = Fields => OnCourse(q))
      BY <1>2, <2>3 DEF OptionTx, Found, OnCourse, Handlers
    <3>2. ProductTx(q)
      BY <1>2, <1>3, <2>1b, <2>3 DEF ProductTx, PartsSoFar
    <3>3. \A s \in Requests \ {r} : Apart(q, request[s])
      BY <2>3 DEF Apart
    <3> QED BY <3>1, <3>2, <3>3
  <2> QED BY <1>1, <2>2, <2>3, InsertsOn DEF InsertProduct
<1>4. CASE Ends(r)
  BY <1>4, QuietEnd DEF InsertProduct
<1> QED BY <1>3, <1>4 DEF InsertProduct

\* The parts of one kind are inserted, all of them.
LEMMA AddPartsKeeps ==
  ASSUME IInv, NEW r \in Requests, NEW kind, NEW next, UNCHANGED <<optionVars, productVars, traffic>>,
         AddParts(r, kind, next),
         \/ kind = "image" /\ request[r].at = "insert images" /\ next = "insert features"
         \/ kind = "feature" /\ request[r].at = "insert features" /\ next = "commit product"
  PROVE  IInv'
<1>1. request[r] # Idle /\ request[r].form.handler = "createProduct"
  BY Offering
<1>2. DOMAIN request[r] = Fields /\ request[r].held \in SUBSET Connections /\ ProductTx(request[r])
  BY <1>1, Underway DEF Informed
<1>3. PICK form, user : form = request[r].form /\ user = request[r].user
  OBVIOUS
<1>4. PICK before, old : before = PartsSoFar(request[r]) /\ old = request[r].tx
  OBVIOUS
<1>5. form.parts \subseteq Parts
  BY <1>1, <1>3, Offered
<1>6. /\ Exists(form.category) /\ form.category \in wasVisible
      /\ old \in Row /\ old.category = form.category /\ old.parts = before /\ old.asked = form.parts
  BY <1>2, <1>3, <1>4 DEF ProductTx
<1>7. PICK parts : /\ parts = {part \in form.parts : part[1] = kind}
                   /\ Go(r, [request[r] EXCEPT !.at = next, !.tx.parts = @ \cup parts])
  BY <1>3 DEF AddParts, Inserted
<1>8. PICK tx : tx = [old EXCEPT !.parts = @ \cup parts]
  OBVIOUS
<1>9. /\ tx \in Row /\ tx.category = form.category
      /\ tx.parts = before \cup parts /\ tx.asked = form.parts
  BY <1>5, <1>6, <1>7, <1>8 DEF Row
<1>10. Go(r, [request[r] EXCEPT !.at = next, !.held = request[r].held, !.tx = tx])
  <2>1. [request[r] EXCEPT !.at = next, !.tx.parts = @ \cup parts]
        = [request[r] EXCEPT !.at = next, !.held = request[r].held, !.tx = tx]
    BY <1>2, <1>4, <1>8 DEF Fields
  <2> QED BY <1>7, <2>1
<1>11. \A q : q.at = next /\ q.form = form => PartsSoFar(q) = before \cup parts
  <2>1. CASE next = "insert features"
    BY <1>3, <1>4, <1>7, <2>1 DEF PartsSoFar
  <2>2. CASE next = "commit product"
    <3>1. before = {part \in form.parts : part[1] = "image"}
      BY <1>3, <1>4, <2>2 DEF PartsSoFar
    <3>2. before \cup parts = form.parts
      BY <1>5, <1>7, <2>2, <3>1, ProductAssumptions
    <3> QED BY <2>2, <3>2 DEF PartsSoFar
  <2> QED BY <2>1, <2>2
<1>12. ASSUME NEW q, q.at = next, q.tx = tx, q.user = request[r].user, q.form = request[r].form
       PROVE  /\ OptionTx(q) /\ ProductTx(q) /\ Found(q) /\ (DOMAIN q = Fields => OnCourse(q))
              /\ \A s \in Requests \ {r} : Apart(q, request[s])
  <2>1. OptionTx(q) /\ Found(q) /\ (DOMAIN q = Fields => OnCourse(q))
    BY <1>1, <1>12 DEF OptionTx, Found, OnCourse, Handlers
  <2>2. ProductTx(q)
    BY <1>3, <1>6, <1>9, <1>11, <1>12 DEF ProductTx
  <2>3. CASE next = "insert features"
    BY <1>12, <2>1, <2>2, <2>3 DEF Apart
  <2>4. CASE next = "commit product"
    BY <1>12, <2>1, <2>2, <2>4 DEF Apart
  <2> QED BY <2>3, <2>4
<1> QED BY <1>1, <1>2, <1>10, <1>12, StepOn

\* A row of the table is written by a request that ends; categories stay.
LEMMA RowLastStep ==
  ASSUME IInv, NEW r \in Requests, Ends(r), UNCHANGED <<optionVars, traffic, category, note, wasVisible>>,
         NEW p \in ProductIds, NEW row \in Row, product' = [product EXCEPT ![p] = row],
         row.parts = row.asked,
         row.category # NoCategory =>
           Exists(row.category) /\ (p \notin DOMAIN Seeded => row.category \in wasVisible)
  PROVE  IInv'
<1>1. ProductsTypeOK /\ ProductsWhole /\ InKnownCategory /\ VisibleWas
  BY DEF IInv, ProductsInv
<1>2. DOMAIN product' = ProductIds /\ product'[p] = row
      /\ \A x \in ProductIds \ {p} : product'[x] = product[x]
  BY <1>1 DEF ProductsTypeOK
<1>3. row # NoProduct
  <2>1. "category" \in DOMAIN row /\ "category" \notin DOMAIN NoProduct
    BY DEF Row, NoProduct
  <2> QED BY <2>1
<1>4. Stored' = Stored \cup {p}
  BY <1>2, <1>3 DEF Stored
<1>5. ProductsTypeOK'
  BY <1>1, <1>2, <1>4 DEF ProductsTypeOK, Stored
<1>6. ProductsWhole'
  BY <1>1, <1>2, <1>4 DEF ProductsWhole, Stored
<1>7. InKnownCategory'
  <2>1. ASSUME NEW x \in (Stored \ Orphans)'
        PROVE  /\ category[product'[x].category] \in {"hidden", "visible"}
               /\ x \notin DOMAIN Seeded => product'[x].category \in wasVisible
    <3>1. product'[x].category # NoCategory /\ x \in ProductIds
      BY DEF Stored, Orphans, Of
    <3>2. CASE x = p
      BY <1>2, <3>1, <3>2 DEF Exists
    <3>3. CASE x # p
      <4>1. x \in Stored \ Orphans /\ product'[x] = product[x]
        BY <1>2, <1>4, <3>1, <3>3 DEF Orphans, Of
      <4> QED BY <1>1, <4>1 DEF InKnownCategory, Exists
    <3> QED BY <3>2, <3>3
  <2> QED BY <2>1 DEF InKnownCategory, Exists
<1>8. ProductsInv'
  BY <1>1, <1>5, <1>6, <1>7 DEF ProductsInv, VisibleWas
<1>9. ASSUME NEW s \in Requests \ {r}, NEW q, q = request[s] PROVE ProductTx(q)'
  <2>1. ProductTx(q)
    BY <1>9 DEF IInv, RequestsInv, Informed
  <2> QED BY <2>1 DEF ProductTx, PartsSoFar, Exists
<1> QED BY <1>8, <1>9, ProductsLastStep

LEMMA CommitProductKeeps ==
  ASSUME IInv, NEW r \in Requests, CommitProduct(r), UNCHANGED <<optionVars, traffic>>
  PROVE  IInv'
<1>1. request[r].at = "commit product"
  BY DEF CommitProduct
<1>2. request[r].form.handler = "createProduct" /\ request[r] # Idle
  BY <1>1, Offering
<1>3. PICK form : form = request[r].form
  OBVIOUS
<1>4. PICK row : row = request[r].tx
  OBVIOUS
<1>5. /\ Exists(form.category) /\ form.category \in wasVisible
      /\ row \in Row /\ row.category = form.category /\ row.parts = row.asked
  <2>1. ProductTx(request[r])
    BY <1>2, Underway DEF Informed
  <2>2. PartsSoFar(request[r]) = form.parts
    BY <1>1, <1>3 DEF PartsSoFar
  <2> QED BY <1>1, <1>3, <1>4, <2>1, <2>2 DEF ProductTx
<1>6. PICK p \in ProductIds \ Stored : product' = [product EXCEPT ![p] = row]
  BY <1>4 DEF CommitProduct
<1> QED BY <1>5, <1>6, RowLastStep DEF CommitProduct

\* A statement that changes a row in place, not what it was stored with.
LEMMA UpdatedRowKeeps ==
  ASSUME IInv, NEW r \in Requests, Ends(r), UNCHANGED <<optionVars, traffic, category, note, wasVisible>>,
         NEW p \in Stored, NEW row \in Row, product' = [product EXCEPT ![p] = row],
         row.category = product[p].category, row.parts = product[p].parts, row.asked = product[p].asked
  PROVE  IInv'
<1>1. p \in ProductIds /\ row.parts = row.asked
  BY DEF IInv, ProductsInv, ProductsWhole, Stored
<1>2. row.category # NoCategory =>
        Exists(row.category) /\ (p \notin DOMAIN Seeded => row.category \in wasVisible)
  BY <1>1 DEF IInv, ProductsInv, InKnownCategory, Orphans, Of
<1> QED BY <1>1, <1>2, RowLastStep

LEMMA StoredRow == ASSUME IInv, NEW p \in Stored PROVE product[p] \in Row /\ p \in DOMAIN product
  BY DEF IInv, ProductsInv, ProductsTypeOK, Stored

\* What a statement of a vendor or a manager makes of a row: the row it finds, with
\* another status or published or not.
LEMMA Decided ==
  ASSUME NEW row \in Row
  PROVE  /\ \A b \in BOOLEAN : LET new == [row EXCEPT !.published = b]
              IN /\ new \in Row /\ new.category = row.category /\ new.parts = row.parts
                 /\ new.asked = row.asked /\ new.published = b /\ new.status = row.status
         /\ LET new == [row EXCEPT !.status = "approved"]
            IN /\ new \in Row /\ new.category = row.category /\ new.parts = row.parts
               /\ new.asked = row.asked /\ new.published = row.published
         /\ LET new == [row EXCEPT !.status = "rejected", !.published = FALSE]
            IN /\ new \in Row /\ new.category = row.category /\ new.parts = row.parts
               /\ new.asked = row.asked /\ ~new.published
  BY DEF Row

\* The rows that stand: a decision is kept, and who is not the vendor publishes
\* nothing.
StandsAt(p) ==
  /\ product[p].status \in {"approved", "rejected"} => product'[p].status = product[p].status
  /\ product'[p].published /\ ~product[p].published =>
       \E r \in Requests : request'[r] # request[r] /\ request[r].user = product[p].vendor

LEMMA UnchangedStands == ASSUME product' = product, NEW p PROVE StandsAt(p)
  BY DEF StandsAt

\* A statement that finds the row it is for.
LEMMA RowStands ==
  ASSUME IInv, NEW p \in Stored, NEW row, product' = [product EXCEPT ![p] = row],
         product[p].status \in {"approved", "rejected"} => row.status = product[p].status,
         row.published /\ ~product[p].published =>
           \E r \in Requests : request'[r] # request[r] /\ request[r].user = product[p].vendor
  PROVE  \A x \in Stored : StandsAt(x)
<1> TAKE x \in Stored
<1>1. product'[x] = IF x = p THEN row ELSE product[x]
  BY StoredRow
<1>2. CASE x = p
  BY <1>1, <1>2 DEF StandsAt
<1>3. CASE x # p
  BY <1>1, <1>3 DEF StandsAt
<1> QED BY <1>2, <1>3

LEMMA PublishKeeps ==
  ASSUME IInv, NEW r \in Requests, PublishProduct(r), UNCHANGED <<optionVars, traffic>>
  PROVE  IInv' /\ \A x \in Stored : StandsAt(x)
<1>1. PICK p, u : p = request[r].form.product /\ u = request[r].user
  OBVIOUS
<1>2. /\ request[r].at = "publishProduct" /\ product' = Publish(p, u) /\ Ends(r)
      /\ UNCHANGED <<category, note, wasVisible>>
  BY <1>1 DEF PublishProduct, UpdateProducts, Statement
<1>3. CASE Owns(u, p)
  <2>1. p \in Stored /\ product[p].vendor = u
    BY <1>3 DEF Owns
  <2>2. PICK row : row = [product[p] EXCEPT !.published = TRUE]
    OBVIOUS
  <2>3. product' = [product EXCEPT ![p] = row]
    BY <1>2, <1>3, <2>2 DEF Publish
  <2>4. /\ row \in Row /\ row.category = product[p].category /\ row.parts = product[p].parts
        /\ row.asked = product[p].asked /\ row.status = product[p].status
    BY <2>1, <2>2, StoredRow, Decided
  <2>5. request'[r] # request[r]
    BY <1>2, GoFacts DEF Ends, Idle, IInv, RequestsInv
  <2>6. IInv'
    BY <1>2, <2>1, <2>3, <2>4, UpdatedRowKeeps
  <2>7. \A x \in Stored : StandsAt(x)
    BY <1>1, <2>1, <2>3, <2>4, <2>5, RowStands
  <2> QED BY <2>6, <2>7
<1>4. CASE ~Owns(u, p)
  BY <1>2, <1>4, QuietEnd, UnchangedStands DEF Publish, productVars
<1> QED BY <1>3, <1>4

LEMMA UnpublishKeeps ==
  ASSUME IInv, NEW r \in Requests, UnpublishProduct(r), UNCHANGED <<optionVars, traffic>>
  PROVE  IInv' /\ \A x \in Stored : StandsAt(x)
<1>1. PICK p, u : p = request[r].form.product /\ u = request[r].user
  OBVIOUS
<1>2. product' = Unpublish(p, u) /\ Ends(r) /\ UNCHANGED <<category, note, wasVisible>>
  BY <1>1 DEF UnpublishProduct, UpdateProducts
<1>3. CASE Owns(u, p)
  <2>1. p \in Stored
    BY <1>3 DEF Owns
  <2>2. PICK row : row = [product[p] EXCEPT !.published = FALSE]
    OBVIOUS
  <2>3. product' = [product EXCEPT ![p] = row]
    BY <1>2, <1>3, <2>2 DEF Unpublish
  <2>4. /\ row \in Row /\ row.category = product[p].category /\ row.parts = product[p].parts
        /\ row.asked = product[p].asked /\ row.status = product[p].status /\ row.published = FALSE
    BY <2>1, <2>2, StoredRow, Decided
  <2>5. IInv'
    BY <1>2, <2>1, <2>3, <2>4, UpdatedRowKeeps
  <2>6. \A x \in Stored : StandsAt(x)
    BY <2>1, <2>3, <2>4, RowStands
  <2> QED BY <2>5, <2>6
<1>4. CASE ~Owns(u, p)
  BY <1>2, <1>4, QuietEnd, UnchangedStands DEF Unpublish, productVars
<1> QED BY <1>3, <1>4

LEMMA ApproveKeeps ==
  ASSUME IInv, NEW r \in Requests, ApproveProduct(r), UNCHANGED <<optionVars, traffic>>
  PROVE  IInv' /\ \A x \in Stored : StandsAt(x)
<1>1. PICK p : p = request[r].form.product
  OBVIOUS
<1>2. product' = Approve(p) /\ Ends(r) /\ UNCHANGED <<category, note, wasVisible>>
  BY <1>1 DEF ApproveProduct, UpdateProducts
<1>3. CASE "Approve" \in Repaired /\ Undecided(p)
  <2>1. p \in Stored /\ product[p].status = "pending"
    BY <1>3 DEF Undecided
  <2>2. PICK row : row = [product[p] EXCEPT !.status = "approved"]
    OBVIOUS
  <2>3. product' = [product EXCEPT ![p] = row]
    BY <1>2, <1>3, <2>2 DEF Approve
  <2>4. /\ row \in Row /\ row.category = product[p].category /\ row.parts = product[p].parts
        /\ row.asked = product[p].asked /\ row.published = product[p].published
    BY <2>1, <2>2, StoredRow, Decided
  <2>5. IInv'
    BY <1>2, <2>1, <2>3, <2>4, UpdatedRowKeeps
  <2>6. \A x \in Stored : StandsAt(x)
    BY <2>1, <2>3, <2>4, RowStands
  <2> QED BY <2>5, <2>6
<1>4. CASE ~("Approve" \in Repaired /\ Undecided(p))
  BY <1>2, <1>4, QuietEnd, UnchangedStands DEF Approve, productVars
<1> QED BY <1>3, <1>4

LEMMA RejectKeeps ==
  ASSUME IInv, NEW r \in Requests, RejectProduct(r), UNCHANGED <<optionVars, traffic>>
  PROVE  IInv' /\ \A x \in Stored : StandsAt(x)
<1>1. PICK p : p = request[r].form.product
  OBVIOUS
<1>2. product' = Reject(p) /\ Ends(r) /\ UNCHANGED <<category, note, wasVisible>>
  BY <1>1 DEF RejectProduct, UpdateProducts
<1>3. CASE "Reject" \in Repaired /\ Undecided(p)
  <2>1. p \in Stored /\ product[p].status = "pending"
    BY <1>3 DEF Undecided
  <2>2. PICK row : row = [product[p] EXCEPT !.status = "rejected", !.published = FALSE]
    OBVIOUS
  <2>3. product' = [product EXCEPT ![p] = row]
    BY <1>2, <1>3, <2>1, <2>2, StoredRow DEF Reject
  <2>4. /\ row \in Row /\ row.category = product[p].category /\ row.parts = product[p].parts
        /\ row.asked = product[p].asked /\ ~row.published
    BY <2>1, <2>2, StoredRow, Decided
  <2>5. IInv'
    BY <1>2, <2>1, <2>3, <2>4, UpdatedRowKeeps
  <2>6. \A x \in Stored : StandsAt(x)
    BY <2>1, <2>3, <2>4, RowStands
  <2> QED BY <2>5, <2>6
<1>4. CASE ~("Reject" \in Repaired /\ Undecided(p))
  BY <1>2, <1>4, QuietEnd, UnchangedStands DEF Reject, productVars
<1> QED BY <1>3, <1>4

-----------------------------------------------------------------------------
(* Reviews and wishlists.                                                  *)

\* The first statement of a handler that looks for the product.
LEMMA FindProductKeeps ==
  ASSUME IInv, NEW r \in Requests, NEW at, NEW next, FindProduct(r, at, next), UNCHANGED <<optionVars, traffic>>,
         \/ at = "createReview" /\ next = "write review"
         \/ at = "removeReview" /\ next = "erase review"
         \/ at = "addProductToWhitelist" /\ next = "write wish"
  PROVE  IInv'
<1>1. request[r].at = at /\ at \in Handlers /\ request[r] # Idle
  BY NotIdle DEF FindProduct, Statement, Handlers
<1>2. request[r].form.handler = at
  BY <1>1, Underway DEF Informed, OnCourse
<1>3. CASE GetProductByID(request[r].form.product) /\ Moves(r, next)
  <2>1. request[r].form.product \in ProductIds
    BY <1>3 DEF GetProductByID, Stored
  <2>2. CASE at = "createReview"
    BY <1>1, <1>2, <1>3, <2>1, <2>2, TurnsTo DEF FindProduct
  <2>3. CASE at = "removeReview"
    BY <1>1, <1>2, <1>3, <2>1, <2>3, TurnsTo DEF FindProduct
  <2>4. CASE at = "addProductToWhitelist"
    BY <1>1, <1>2, <1>3, <2>1, <2>4, TurnsTo DEF FindProduct
  <2> QED BY <2>2, <2>3, <2>4
<1>4. CASE Ends(r)
  BY <1>4, QuietEnd DEF FindProduct
<1> QED BY <1>3, <1>4 DEF FindProduct

LEMMA NoteLastStep ==
  ASSUME IInv, NEW r \in Requests, Ends(r), UNCHANGED <<optionVars, traffic, category, product, wasVisible>>,
         note' \in [Notes -> NoteRows \cup {NoNote}]
  PROVE  IInv'
<1>1. ProductsInv'
  BY DEF IInv, ProductsInv, ProductsTypeOK, ProductsWhole, InKnownCategory, VisibleWas, Stored, Orphans, Of, Exists
<1>2. ASSUME NEW s \in Requests \ {r}, NEW q, q = request[s] PROVE ProductTx(q)'
  <2>1. ProductTx(q)
    BY <1>2 DEF IInv, RequestsInv, Informed
  <2> QED BY <2>1 DEF ProductTx, PartsSoFar, Exists
<1> QED BY <1>1, <1>2, ProductsLastStep

LEMMA NotesTyped == ASSUME IInv PROVE note \in [Notes -> NoteRows \cup {NoNote}]
  BY DEF IInv, ProductsInv, ProductsTypeOK

LEMMA WithTyped ==
  ASSUME IInv, NEW row \in NoteRows, NEW table \in With(row)
  PROVE  table \in [Notes -> NoteRows \cup {NoNote}]
  BY NotesTyped DEF With

LEMMA CreateReviewKeeps ==
  ASSUME IInv, NEW r \in Requests, CreateReview(r), UNCHANGED <<optionVars, traffic>>
  PROVE  IInv'
<1>1. request[r].at = "write review" /\ request[r] # Idle
  BY NotIdle DEF CreateReview, Write, Statement
<1>2. request[r].form.handler = "createReview" /\ request[r].form.product \in ProductIds
  BY <1>1, Underway DEF Informed, OnCourse, Found
<1>3. request[r].user \in Customers
  BY <1>1, <1>2, Underway DEF Permitted
<1>4. NoteRow("review", request[r].user, request[r].form.product) \in NoteRows
  BY <1>2, <1>3 DEF NoteRow, NoteRows
<1>5. note' \in [Notes -> NoteRows \cup {NoNote}]
  BY <1>4, WithTyped DEF CreateReview, Write, Create
<1> QED BY <1>5, NoteLastStep DEF CreateReview, Write

LEMMA AddProductToWishlistKeeps ==
  ASSUME IInv, NEW r \in Requests, AddProductToWishlist(r), UNCHANGED <<optionVars, traffic>>
  PROVE  IInv'
<1>1. request[r].at = "write wish" /\ request[r] # Idle
  BY NotIdle DEF AddProductToWishlist, Write, Statement
<1>2. request[r].form.handler = "addProductToWhitelist" /\ request[r].form.product \in ProductIds
  BY <1>1, Underway DEF Informed, OnCourse, Found
<1>3. request[r].user \in Customers
  BY <1>1, <1>2, Underway DEF Permitted
<1>4. NoteRow("wish", request[r].user, request[r].form.product) \in NoteRows
  BY <1>2, <1>3 DEF NoteRow, NoteRows
<1>5. note' \in [Notes -> NoteRows \cup {NoNote}]
  BY <1>4, WithTyped, NotesTyped DEF AddProductToWishlist, Write, AddItem
<1> QED BY <1>5, NoteLastStep DEF AddProductToWishlist, Write

LEMMA RemovalsKeep ==
  ASSUME IInv, NEW r \in Requests, RemoveReview(r) \/ RemoveFromWishlist(r), UNCHANGED <<optionVars, traffic>>
  PROVE  IInv'
<1>1. /\ Ends(r) /\ UNCHANGED <<category, product, wasVisible>>
      /\ note' = note \/ \E i : note' = [note EXCEPT ![i] = NoNote]
  BY DEF RemoveReview, RemoveFromWishlist, Write, Delete, RemoveItem
<1>2. note' \in [Notes -> NoteRows \cup {NoNote}]
  BY <1>1, NotesTyped
<1> QED BY <1>1, <1>2, NoteLastStep

-----------------------------------------------------------------------------
(* All steps.                                                              *)

LEMMA ServeProductsKeeps ==
  ASSUME IInv, NEW r \in Requests, ServeProducts(r), UNCHANGED <<optionVars, traffic>>
  PROVE  IInv'
  BY CreateCategoryKeeps, SetCategoryVisibilityKeeps, RemoveCategoryKeeps, CreateProductKeeps,
    BeginProductKeeps, InsertProductKeeps, AddPartsKeeps, CommitProductKeeps, PublishKeeps, UnpublishKeeps,
    ApproveKeeps, RejectKeeps, FindProductKeeps, CreateReviewKeeps, AddProductToWishlistKeeps, RemovalsKeep
  DEF ServeProducts, CreateProductImages, CreateProductFeatures

LEMMA ArriveKeeps ==
  ASSUME IInv, NEW r \in Requests, NEW t \in traffic, Arrive(r, t[1], t[2])
  PROVE  IInv'
<1>1. PICK u, form : u = t[1] /\ form = t[2]
  OBVIOUS
<1>2. form.handler \in Handlers
  BY <1>1, ScenariosAssumption DEF Permitted, IInv, RequestsInv
<1>3. PICK q : q = [at |-> form.handler, held |-> {}, user |-> u, form |-> form, tx |-> <<>>]
  OBVIOUS
<1>4. /\ q.at = form.handler /\ q.held = {} /\ q.user = u /\ q.form = form /\ DOMAIN q = Fields
  BY <1>3 DEF Fields
<1>5. \A at \in {"idle", "insert type", "insert values", "commit option", "update type", "begin product",
                "insert product", "insert images", "insert features", "commit product", "write review",
                "write wish"} : q.at # at
  BY <1>2, <1>4 DEF Handlers
<1>6. OptionTx(q)
  BY <1>5 DEF OptionTx
<1>7. ProductTx(q)
  BY <1>5 DEF ProductTx
<1>8. Found(q) /\ OnCourse(q)
  BY <1>4, <1>5 DEF Found, OnCourse
<1>9. RequestOK(q)
  BY <1>1, <1>4 DEF RequestOK
<1>10. \A s \in Requests \ {r} : Apart(q, request[s])
  BY <1>5 DEF Apart
<1>11. Go(r, q) /\ UNCHANGED <<optionVars, productVars, traffic>>
  BY <1>1, <1>3 DEF Arrive
<1> QED BY <1>6, <1>7, <1>8, <1>9, <1>10, <1>11, QuietStep DEF Informed

LEMMA Initially == ASSUME Init PROVE IInv
<1>1. \A r \in Requests : Informed(request[r]) /\ request[r] = Idle
  BY IdleInformed DEF Init
<1>2. RequestsInv
  BY <1>1, IdleInformed DEF RequestsInv, Init, Apart
<1>3. StoredValues = {}
  BY DEF Init, OptionInit, StoredValues
<1>4. OptionsInv
  BY <1>3 DEF OptionsInv, Init, OptionInit, OptionTypesTypeOK, ValuesAsAsked, TextsUnique
<1>5. ASSUME NEW p \in Stored
      PROVE  p \in DOMAIN Seeded /\ product[p] = Seeded[p] /\ product[p] \in Row
             /\ product[p].parts = product[p].asked
  BY <1>5, ProductAssumptions DEF Stored, Init, ProductInit
<1>6. ProductsTypeOK
  BY <1>5 DEF ProductsTypeOK, Init, ProductInit
<1>7. InKnownCategory
  <2> SUFFICES ASSUME NEW p \in Stored, p \notin Orphans
               PROVE  Exists(product[p].category) /\ p \in DOMAIN Seeded
    BY DEF InKnownCategory
  <2>1. p \in DOMAIN Seeded /\ product[p] = Seeded[p] /\ product[p].category \in Categories
    BY <1>5 DEF Orphans, Of, Row
  <2> QED BY <2>1 DEF Exists, Init, ProductInit
<1>8. ProductsWhole /\ VisibleWas
  BY <1>5 DEF ProductsWhole, VisibleWas, Init, ProductInit
<1> QED BY <1>2, <1>4, <1>6, <1>7, <1>8 DEF IInv, ProductsInv

LEMMA StepKeeps == ASSUME IInv, [Next]_vars PROVE IInv'
<1>1. CASE UNCHANGED vars
  <2>1. RequestsInv'
    <3>1. ASSUME NEW q, Informed(q) PROVE Informed(q)'
      BY <1>1, <3>1 DEF Informed, RequestOK, OnCourse, OptionTx, ProductTx, PartsSoFar, Found, Exists,
        StoredValues, optionVars, productVars, vars
    <3>2. \A r \in Requests : Informed(request[r])'
      <4> TAKE r \in Requests
      <4>1. PICK q : q = request[r] /\ q = request'[r]
        BY <1>1 DEF vars
      <4>2. Informed(q)'
        BY <3>1, <4>1 DEF IInv, RequestsInv
      <4> QED BY <4>1, <4>2 DEF Informed, RequestOK, OnCourse, OptionTx, ProductTx, PartsSoFar, Found
    <3>3. \A r, s \in Requests : r # s => Apart(request[r], request[s])'
      <4> TAKE r, s \in Requests
      <4>1. PICK p, q : p = request[r] /\ p = request'[r] /\ q = request[s] /\ q = request'[s]
        BY <1>1 DEF vars
      <4>2. r # s => Apart(p, q)
        BY <4>1 DEF IInv, RequestsInv
      <4> QED BY <4>1, <4>2 DEF Apart
    <3> QED BY <1>1, <3>2, <3>3 DEF IInv, RequestsInv, vars
  <2> QED BY <1>1, <2>1, OptionsStay, ProductsStay DEF IInv, vars
<1>2. ASSUME NEW r \in Requests, Serve(r) PROVE IInv'
  BY <1>2, ServeOptionsKeeps, ServeProductsKeeps DEF Serve
<1>3. ASSUME NEW r \in Requests, Stop(r) PROVE IInv'
  BY <1>3, QuietEnd DEF Stop, TimeOut
<1>4. ASSUME NEW r \in Requests, NEW t \in traffic, Arrive(r, t[1], t[2]) PROVE IInv'
  BY <1>4, ArriveKeeps
<1> QED BY <1>1, <1>2, <1>3, <1>4 DEF Next

LEMMA Invariance == Spec => []IInv
<1>1. Init => IInv
  BY Initially
<1>2. IInv /\ [Next]_vars => IInv'
  BY StepKeeps
<1> QED BY <1>1, <1>2, PTL DEF Spec

\* What a step does to the rows of products lets decisions and publications stand.
LEMMA StepStands == ASSUME IInv, [Next]_vars PROVE \A p \in Stored : StandsAt(p)
<1>1. CASE product' = product
  BY <1>1, UnchangedStands
<1>2. ASSUME NEW r \in Requests, ServeProducts(r), UNCHANGED <<optionVars, traffic>>, product' # product
      PROVE  \A p \in Stored : StandsAt(p)
  <2>1. CASE PublishProduct(r)
    BY <1>2, <2>1, PublishKeeps
  <2>2. CASE UnpublishProduct(r)
    BY <1>2, <2>2, UnpublishKeeps
  <2>3. CASE ApproveProduct(r)
    BY <1>2, <2>3, ApproveKeeps
  <2>4. CASE RejectProduct(r)
    BY <1>2, <2>4, RejectKeeps
  <2>5. CASE CommitProduct(r)
    <3> TAKE x \in Stored
    <3>1. PICK p \in ProductIds \ Stored : product' = [product EXCEPT ![p] = request[r].tx]
      BY <2>5 DEF CommitProduct
    <3>2. product'[x] = product[x]
      BY <3>1, StoredRow
    <3> QED BY <3>2 DEF StandsAt
  <2>6. CASE RemoveCategory(r)
    <3> TAKE p \in Stored
    <3>1. product'[p] = product[p] \/ product'[p] = [product[p] EXCEPT !.category = NoCategory]
      BY <2>6 DEF RemoveCategory, Stored
    <3>2. product'[p].status = product[p].status /\ product'[p].published = product[p].published
      BY <3>1, StoredRow DEF Row
    <3> QED BY <3>2 DEF StandsAt
  <2> QED BY <1>2, <2>1, <2>2, <2>3, <2>4, <2>5, <2>6
    DEF ServeProducts, CreateCategory, SetCategoryVisibility, CreateProduct, BeginProduct, InsertProduct,
      CreateProductImages, CreateProductFeatures, FindProduct, CreateReview, RemoveReview,
      AddProductToWishlist, RemoveFromWishlist, Write, productVars
<1> QED BY <1>1, <1>2 DEF Next, Serve, Stop, Arrive, vars, productVars

-----------------------------------------------------------------------------
(* Connections.                                                            *)

\* Between transactions.
Bare == Handlers \cup {"idle", "begin product", "update type", "write review", "erase review", "write wish"}

\* Who does not add option values holds one connection at most, and none
\* between transactions.
Thrifty(q) ==
  /\ q.at \in Bare => q.held = {}
  /\ q.at # "add values" => \A c, d \in q.held : c = d

\* What a step does to the connections of its request.
KeepsHeld(r) ==
  \/ Ends(r)
  \/ \E at : Moves(r, at) /\ request[r].at \in Handlers
  \/ \E at, q : /\ at \notin Bare /\ request[r].at # "add values"
                /\ Go(r, q) /\ q.at = at /\ q.held = request[r].held
  \/ \E at : /\ at \notin Bare /\ BeginTx(r, at)
             /\ at = "add values" \/ request[r].at \in Bare

LEMMA KeepsThrifty ==
  ASSUME IInv, \A s \in Requests : Thrifty(request[s]), NEW r \in Requests, request[r] # Idle, KeepsHeld(r)
  PROVE  \A s \in Requests : Thrifty(request'[s])
<1> DEFINE p == request[r]
<1>1. DOMAIN p = Fields /\ DOMAIN request = Requests /\ Thrifty(p)
  BY Underway DEF IInv, RequestsInv
<1>2. ASSUME NEW q, Go(r, q), Thrifty(q) PROVE \A s \in Requests : Thrifty(request'[s])
  BY <1>1, <1>2, GoFacts
<1>3. CASE Ends(r)
  BY <1>2, <1>3 DEF Ends, Idle, Thrifty
<1>4. ASSUME NEW at, Moves(r, at), p.at \in Handlers PROVE \A s \in Requests : Thrifty(request'[s])
  <2> DEFINE q == [p EXCEPT !.at = at]
  <2>1. q.held = p.held /\ p.held = {}
    BY <1>1, <1>4 DEF Fields, Thrifty, Bare
  <2>2. Thrifty(q)
    BY <2>1 DEF Thrifty
  <2> QED BY <1>2, <1>4, <2>2 DEF Moves
<1>5. ASSUME NEW at, NEW q, at \notin Bare, p.at # "add values", Go(r, q), q.at = at, q.held = p.held
      PROVE  \A s \in Requests : Thrifty(request'[s])
  <2>1. Thrifty(q)
    BY <1>1, <1>5 DEF Thrifty
  <2> QED BY <1>2, <1>5, <2>1
<1>6. ASSUME NEW at, at \notin Bare, BeginTx(r, at), at = "add values" \/ p.at \in Bare
      PROVE  \A s \in Requests : Thrifty(request'[s])
  <2> DEFINE c == CHOOSE c \in Free : TRUE
             q == [p EXCEPT !.at = at, !.held = @ \cup {c}]
  <2>1. q.at = at /\ q.held = p.held \cup {c}
    BY <1>1 DEF Fields
  <2>2. at # "add values" => p.held = {}
    BY <1>1, <1>6 DEF Thrifty
  <2> HIDE DEF c
  <2>3. Thrifty(q)
    BY <1>6, <2>1, <2>2 DEF Thrifty
  <2> QED BY <1>2, <1>6, <2>3 DEF BeginTx, c
<1> QED BY <1>3, <1>4, <1>5, <1>6 DEF KeepsHeld

LEMMA EndKeepsHeld == ASSUME NEW r, Ends(r) PROVE KeepsHeld(r)
  BY Zenon DEF KeepsHeld

LEMMA MoveKeepsHeld ==
  ASSUME NEW r, NEW at, Moves(r, at), request[r].at \in Handlers PROVE KeepsHeld(r)
  BY Zenon DEF KeepsHeld

LEMMA BeginKeepsHeld ==
  ASSUME NEW r, NEW at, at \notin Bare, BeginTx(r, at), at = "add values" \/ request[r].at \in Bare
  PROVE  KeepsHeld(r)
  BY Zenon DEF KeepsHeld

LEMMA InsertsKeepHeld ==
  ASSUME IInv, NEW r \in Requests, request[r] # Idle, request[r].at # "add values",
         NEW at, at \notin Bare, NEW tx, Inserts(r, at, tx)
  PROVE  KeepsHeld(r)
<1> DEFINE q == [request[r] EXCEPT !.at = at, !.tx = tx]
<1>1. q.at = at /\ q.held = request[r].held
  BY Underway DEF Fields
<1>2. Go(r, q)
  BY DEF Inserts
<1> QED BY <1>1, <1>2 DEF KeepsHeld

LEMMA OptionsKeepHeld ==
  ASSUME IInv, NEW r \in Requests, ServeOptions(r)
  PROVE  request[r] # Idle /\ KeepsHeld(r)
<1>1. request[r] # Idle
  BY NotIdle DEF ServeOptions, CreateOptionType, InsertType, InsertValues, CommitOption, AddOptionValues,
    UpdateOptionType, UpdateOptionValue, DeleteOptionValue, Statement
<1> SUFFICES KeepsHeld(r)
  BY <1>1
<1>2. CASE CreateOptionType(r)
  BY <1>2, BeginKeepsHeld DEF CreateOptionType, Bare, Handlers
<1>3. CASE InsertType(r)
  <2>1. PICK t : Inserts(r, "insert values", [type |-> t])
    BY <1>3 DEF InsertType
  <2> QED BY <1>1, <1>3, <2>1, InsertsKeepHeld DEF InsertType, Bare, Handlers
<1>4. CASE InsertValues(r)
  <2>1. PICK rows : Inserts(r, "commit option", [type |-> request[r].tx.type, rows |-> rows])
    BY <1>4 DEF InsertValues
  <2> QED BY <1>1, <1>4, <2>1, InsertsKeepHeld DEF InsertValues, Bare, Handlers
<1>5. CASE AddOptionValues(r)
  <2>1. CASE Statement(r, "addOptionValues")
    BY <1>5, <2>1, EndKeepsHeld, MoveKeepsHeld DEF AddOptionValues, Statement, Handlers
  <2>2. CASE CreateOptionValues(r)
    BY <2>2, BeginKeepsHeld DEF CreateOptionValues, Bare, Handlers
  <2> QED BY <1>5, <2>1, <2>2 DEF AddOptionValues
<1>6. CASE UpdateOptionType(r)
  BY <1>6, EndKeepsHeld, MoveKeepsHeld DEF UpdateOptionType, Statement, Handlers
<1>7. CASE CommitOption(r) \/ UpdateOptionValue(r) \/ DeleteOptionValue(r)
  BY <1>7, EndKeepsHeld DEF CommitOption, UpdateOptionValue, DeleteOptionValue
<1> QED BY <1>1, <1>2, <1>3, <1>4, <1>5, <1>6, <1>7 DEF ServeOptions

LEMMA AddPartsKeepsHeld ==
  ASSUME IInv, NEW r \in Requests, request[r] # Idle, request[r].at # "add values",
         NEW kind, NEW next, next \notin Bare, AddParts(r, kind, next)
  PROVE  KeepsHeld(r)
<1>1. PICK parts : Go(r, [request[r] EXCEPT !.at = next, !.tx.parts = @ \cup parts])
  BY DEF AddParts
<1>2. PICK q : q = [request[r] EXCEPT !.at = next, !.tx.parts = @ \cup parts]
  OBVIOUS
<1>3. q.at = next /\ q.held = request[r].held
  BY <1>2, Underway DEF Fields
<1> QED BY <1>1, <1>2, <1>3 DEF KeepsHeld

LEMMA ProductsKeepHeld ==
  ASSUME IInv, NEW r \in Requests, ServeProducts(r)
  PROVE  request[r] # Idle /\ KeepsHeld(r)
<1>1. request[r] # Idle
  BY NotIdle DEF ServeProducts, CreateCategory, SetCategoryVisibility, RemoveCategory, CreateProduct,
    BeginProduct, InsertProduct, CreateProductImages, CreateProductFeatures, CommitProduct, PublishProduct,
    UnpublishProduct, ApproveProduct, RejectProduct, FindProduct, CreateReview, RemoveReview,
    AddProductToWishlist, RemoveFromWishlist, Write, UpdateProducts, UpdateCategories, Statement
<1> SUFFICES KeepsHeld(r)
  BY <1>1
<1>2. CASE CreateProduct(r)
  BY <1>2, EndKeepsHeld, MoveKeepsHeld DEF CreateProduct, Statement, Handlers
<1>3. CASE BeginProduct(r)
  BY <1>3, BeginKeepsHeld DEF BeginProduct, Bare, Handlers
<1>4. CASE InsertProduct(r)
  <2>1. Ends(r) \/ \E tx : Inserts(r, "insert images", tx)
    BY <1>4 DEF InsertProduct
  <2>2. CASE Ends(r)
    BY <2>2, EndKeepsHeld
  <2>3. ASSUME NEW tx, Inserts(r, "insert images", tx) PROVE KeepsHeld(r)
    BY <1>1, <1>4, <2>3, InsertsKeepHeld DEF InsertProduct, Bare, Handlers
  <2> QED BY <2>1, <2>2, <2>3
<1>5. CASE CreateProductImages(r) \/ CreateProductFeatures(r)
  BY <1>1, <1>5, AddPartsKeepsHeld DEF CreateProductImages, CreateProductFeatures, Bare, Handlers
<1>6. ASSUME NEW at \in Handlers, NEW next, FindProduct(r, at, next) PROVE KeepsHeld(r)
  BY <1>6, EndKeepsHeld, MoveKeepsHeld DEF FindProduct, Statement
<1>7. CASE Ends(r)
  BY <1>7, EndKeepsHeld
<1>8. {"createReview", "removeReview", "addProductToWhitelist"} \subseteq Handlers
  BY DEF Handlers
<1> QED BY <1>1, <1>2, <1>3, <1>4, <1>5, <1>6, <1>7, <1>8
  DEF ServeProducts, CreateCategory, SetCategoryVisibility, RemoveCategory, CommitProduct, PublishProduct,
    UnpublishProduct, ApproveProduct, RejectProduct, CreateReview, RemoveReview, AddProductToWishlist,
    RemoveFromWishlist, Write, UpdateProducts, UpdateCategories

AllThrifty == \A r \in Requests : Thrifty(request[r])

LEMMA ThriftyStep == ASSUME IInv, AllThrifty, [Next]_vars PROVE AllThrifty'
<1>1. CASE UNCHANGED vars
  BY <1>1 DEF vars, AllThrifty, Thrifty
<1>2. ASSUME NEW r \in Requests, Serve(r) PROVE \A s \in Requests : Thrifty(request'[s])
  BY <1>2, OptionsKeepHeld, ProductsKeepHeld, KeepsThrifty DEF Serve, AllThrifty
<1>3. ASSUME NEW r \in Requests, Stop(r) PROVE \A s \in Requests : Thrifty(request'[s])
  BY <1>3, EndKeepsHeld, KeepsThrifty DEF Stop, TimeOut, AllThrifty
<1>4. ASSUME NEW r \in Requests, NEW t \in traffic, Arrive(r, t[1], t[2])
      PROVE  \A s \in Requests : Thrifty(request'[s])
  <2>1. PICK q : /\ q = [at |-> t[2].handler, held |-> {}, user |-> t[1], form |-> t[2], tx |-> <<>>]
                 /\ Go(r, q)
    BY <1>4 DEF Arrive
  <2>2. Thrifty(q)
    BY <2>1 DEF Thrifty
  <2> HIDE DEF Thrifty
  <2> QED BY <2>1, <2>2, GoFacts DEF IInv, RequestsInv, AllThrifty
<1>5. (\A s \in Requests : Thrifty(request'[s])) => AllThrifty'
  BY DEF AllThrifty, Thrifty
<1> QED BY <1>1, <1>2, <1>3, <1>4, <1>5 DEF Next

\* Every connection that is taken is held by another request.
LEMMA OneEach ==
  ASSUME \A r \in Requests : \A c, d \in request[r].held : c = d, Free = {}
  PROVE  ~(Cardinality(Requests) < Cardinality(Connections))
<1> DEFINE holder == [c \in Connections |-> CHOOSE r \in Requests : c \in request[r].held]
<1>1. \A c \in Connections : holder[c] \in Requests /\ c \in request[holder[c]].held
  <2> TAKE c \in Connections
  <2>1. \E r \in Requests : c \in request[r].held
    BY DEF Free
  <2> QED BY <2>1
<1>2. holder \in Injection(Connections, Requests)
  <2>1. holder \in [Connections -> Requests]
    BY <1>1
  <2> HIDE DEF holder
  <2>2. \A c, d \in Connections : holder[c] = holder[d] => c = d
    BY <1>1
  <2> QED BY <2>1, <2>2 DEF Injection, IsInjective
<1> HIDE DEF holder
<1>3. IsFiniteSet(Connections) /\ Cardinality(Connections) <= Cardinality(Requests)
  BY <1>2, PoolAssumption, FS_Injection
<1> QED BY <1>3, PoolAssumption, FS_CardinalityType

-----------------------------------------------------------------------------
(* The theorems.                                                           *)

\* Products are stored with all of their parts, in categories that exist and have
\* been visible, and option types with the values they were created with, but for
\* those renamed or deleted since: for any number of requests, connections,
\* products and categories (store/products.go, store/options.go).
THEOREM StoredIsWhole == Spec => []StoredAsAsked
<1>1. IInv => StoredAsAsked
  BY DEF IInv, RequestsInv, OptionsInv, ProductsInv, StoredAsAsked, TypeOK, Informed
<1> QED BY <1>1, Invariance, PTL

\* However requests interleave and whichever of them end early, a pool that is
\* larger than their number is used up only by CreateOptionValues
\* (store/options.go), for any number of requests and connections.
THEOREM OptionsAloneDrain == Spec => []DrainedByOptionsOnly
<1>1. Init => AllThrifty
  <2>1. Idle.held = {}
    BY DEF Idle
  <2> QED BY <2>1 DEF Init, AllThrifty, Thrifty
<1>2. IInv /\ AllThrifty /\ [Next]_vars => AllThrifty'
  BY ThriftyStep
<1>3. IInv /\ AllThrifty => DrainedByOptionsOnly
  <2> SUFFICES ASSUME AllThrifty, Cardinality(Requests) < Cardinality(Connections), Free = {},
                      \A r \in Requests : request[r].at # "add values"
               PROVE  FALSE
    BY DEF DrainedByOptionsOnly
  <2> QED BY OneEach DEF AllThrifty, Thrifty
<1> QED BY <1>1, <1>2, <1>3, Invariance, PTL DEF Spec

\* The listing that customers see never fails on a row, and what it shows they can
\* open and write about (GetProducts, GetWithDetails and GetProductByID of
\* store/products.go).
THEOREM ListingIsServed == Spec => []PublicListingServed
<1>1. ASSUME IInv PROVE PublicListingServed
  <2> SUFFICES ASSUME NEW u \in Customers, NEW p \in Listed(u, NoVendor)
               PROVE  p \notin Orphans /\ Opens(u, p) /\ GetProductByID(p)
    BY DEF PublicListingServed, ListingFails
  <2>1. u \notin Vendors /\ u \notin Managers
    BY ProductAssumptions
  <2>2. p \in Stored
    BY DEF Listed
  <2>3. product[p].vendor # NoVendor
    <3>1. product[p] \in Row
      BY <1>1, <2>2, StoredRow
    <3>2. product[p].vendor \in Vendors
      BY <3>1 DEF Row
    <3> QED BY <3>2, ProductAssumptions
  <2>4. InVisibleCategory(p)
    BY <2>1, <2>2, <2>3 DEF Listed, VendorFilter
  <2> QED BY <2>2, <2>4 DEF Opens, GetWithDetails, GetProductByID, InVisibleCategory, Orphans, Of
<1> QED BY <1>1, Invariance, PTL

\* Of decisions about a product the first one stands, and only its vendor puts it
\* on sale, however many managers and vendors act at the same time (Approve,
\* Reject, Publish and Unpublish of store/products.go).
THEOREM DecisionsAreKept == Spec => DecisionsStand
<1> DEFINE Keeps(p) == product[p].status \in {"approved", "rejected"} => product'[p].status = product[p].status
           ByVendor(p) == product'[p].published /\ ~product[p].published =>
             \E r \in Requests : request'[r] # request[r] /\ request[r].user = product[p].vendor
<1>1. IInv /\ [Next]_vars => [\A p \in Stored : Keeps(p)]_productVars
  BY StepStands DEF StandsAt
<1>2. IInv /\ [Next]_vars => [\A p \in Stored : ByVendor(p)]_productVars
  BY StepStands DEF StandsAt
<1>3. DecisionsStand <=> [][\A p \in Stored : Keeps(p)]_productVars /\ [][\A p \in Stored : ByVendor(p)]_productVars
  BY DEF DecisionsStand, OneDecision, PublishedByVendor
<1> HIDE DEF Keeps, ByVendor
<1> QED BY <1>1, <1>2, <1>3, Invariance, PTL DEF Spec

-----------------------------------------------------------------------------
(* Rows in an order.                                                       *)

\* R orders the elements of S.
Orders(R, S) ==
  /\ \A x \in S : <<x, x>> \notin R
  /\ \A x, y \in S : x # y => <<x, y>> \in R \/ <<y, x>> \in R
  /\ \A x, y, z \in S : <<x, y>> \in R /\ <<y, z>> \in R => <<x, z>> \in R

\* The rank of an element counts those before it.
LEMMA RankType ==
  ASSUME NEW S, IsFiniteSet(S), NEW R, Orders(R, S), NEW x \in S
  PROVE  Rank(x, S, R) \in 0..(Cardinality(S) - 1)
<1> DEFINE before == {y \in S : <<y, x>> \in R}
<1>1. before \in SUBSET (S \ {x})
  BY DEF Orders
<1>2. IsFiniteSet(S \ {x}) /\ Cardinality(S \ {x}) = Cardinality(S) - 1
  BY FS_RemoveElement
<1>3. Rank(x, S, R) = Cardinality(before)
  BY DEF Rank
<1> HIDE DEF before
<1>4. Cardinality(before) <= Cardinality(S) - 1
  BY <1>1, <1>2, FS_Subset
<1>5. Cardinality(before) \in Nat
  BY <1>1, <1>2, FS_Subset, FS_CardinalityType
<1>6. Cardinality(S) \in Nat
  BY FS_CardinalityType
<1> QED
  BY <1>3, <1>4, <1>5, <1>6

\* Ranks follow the order.
LEMMA RankFollows ==
  ASSUME NEW S, IsFiniteSet(S), NEW R, Orders(R, S), NEW x \in S, NEW y \in S,
         <<x, y>> \in R
  PROVE  Rank(x, S, R) < Rank(y, S, R)
<1> DEFINE before == {z \in S : <<z, x>> \in R}
           upTo == {z \in S : <<z, y>> \in R}
<1>1. x \notin before /\ before \cup {x} \in SUBSET upTo /\ before \in SUBSET S /\ upTo \in SUBSET S
  BY DEF Orders
<1>2. IsFiniteSet(before) /\ IsFiniteSet(upTo)
  BY <1>1, FS_Subset
<1>3. Cardinality(before) \in Nat /\ Cardinality(upTo) \in Nat
  BY <1>2, FS_CardinalityType
<1>4. Rank(x, S, R) = Cardinality(before) /\ Rank(y, S, R) = Cardinality(upTo)
  BY DEF Rank
<1> HIDE DEF before, upTo
<1>5. Cardinality(before \cup {x}) = Cardinality(before) + 1
  BY <1>1, <1>2, FS_AddElement
<1>6. Cardinality(before \cup {x}) <= Cardinality(upTo)
  BY <1>1, <1>2, FS_Subset
<1> QED
  BY <1>3, <1>4, <1>5, <1>6

\* Every rank is taken, each once.
LEMMA Ranks ==
  ASSUME NEW S, IsFiniteSet(S), NEW R, Orders(R, S)
  PROVE  /\ Cardinality(S) \in Nat
         /\ \A x, y \in S : Rank(x, S, R) = Rank(y, S, R) => x = y
         /\ \A k \in 0..(Cardinality(S) - 1) : \E x \in S : Rank(x, S, R) = k
<1>1. Cardinality(S) \in Nat
  BY FS_CardinalityType
<1>2. ASSUME NEW x \in S, NEW y \in S, Rank(x, S, R) = Rank(y, S, R), x # y
      PROVE  FALSE
  <2>1. <<x, y>> \in R \/ <<y, x>> \in R
    BY <1>2 DEF Orders
  <2>2. Rank(x, S, R) \in Int /\ Rank(y, S, R) \in Int
    BY <1>1, RankType
  <2> QED
    BY <1>2, <2>1, <2>2, RankFollows
<1>3. \A k \in 0..(Cardinality(S) - 1) : \E x \in S : Rank(x, S, R) = k
  <2> DEFINE rank == [x \in S |-> Rank(x, S, R)]
             T == 0..(Cardinality(S) - 1)
  <2>1. rank \in [S -> T]
    BY RankType
  <2>2. rank \in Injection(S, T)
    BY <1>2, <2>1 DEF Injection, IsInjective
  <2>3. IsFiniteSet(T) /\ Cardinality(T) = Cardinality(S)
    <3>1. IsFiniteSet(T) /\ Cardinality(T) = IF 0 > Cardinality(S) - 1 THEN 0
                                             ELSE (Cardinality(S) - 1) - 0 + 1
      BY <1>1, FS_Interval
    <3> QED
      BY <1>1, <3>1
  <2>4. rank \in Surjection(S, T)
    <3> HIDE DEF rank, T
    <3> QED
      BY <2>2, <2>3, FS_Injection
  <2> QED
    BY <2>4 DEF Surjection
<1> QED
  BY <1>1, <1>2, <1>3

\* An enumeration puts every element at its rank.
LEMMA Enumerated ==
  ASSUME NEW S, IsFiniteSet(S), NEW R, Orders(R, S)
  PROVE  /\ Enumeration(S, R) \in Seq(S)
         /\ Len(Enumeration(S, R)) = Cardinality(S)
         /\ \A k \in 1..Cardinality(S) : Rank(Enumeration(S, R)[k], S, R) = k - 1
         /\ \A x \in S : /\ Rank(x, S, R) + 1 \in 1..Cardinality(S)
                         /\ Enumeration(S, R)[Rank(x, S, R) + 1] = x
<1> DEFINE N == Cardinality(S)
           at(k) == CHOOSE x \in S : Rank(x, S, R) = k - 1
           rows == [k \in 1..N |-> at(k)]
<1>1. N \in Nat
  BY FS_CardinalityType
<1>2. \A k \in 1..N : at(k) \in S /\ Rank(at(k), S, R) = k - 1
  <2> SUFFICES ASSUME NEW k \in 1..N PROVE at(k) \in S /\ Rank(at(k), S, R) = k - 1
    OBVIOUS
  <2>1. k - 1 \in 0..(Cardinality(S) - 1)
    BY <1>1
  <2>2. \E x \in S : Rank(x, S, R) = k - 1
    BY <2>1, Ranks
  <2> QED
    BY <2>2
<1>3. Enumeration(S, R) = rows
  BY DEF Enumeration
<1>4. rows \in [1..N -> S]
  BY <1>2
<1>5. rows \in Seq(S) /\ Len(rows) = N
  <2> HIDE DEF rows, N
  <2> QED
    BY <1>1, <1>4
<1>6. \A x \in S : Rank(x, S, R) + 1 \in 1..N /\ rows[Rank(x, S, R) + 1] = x
  <2> SUFFICES ASSUME NEW x \in S
               PROVE  Rank(x, S, R) + 1 \in 1..N /\ rows[Rank(x, S, R) + 1] = x
    OBVIOUS
  <2> DEFINE k == Rank(x, S, R) + 1
  <2>1. k \in 1..N /\ Rank(x, S, R) = k - 1
    BY <1>1, RankType
  <2>2. rows[k] \in S /\ Rank(rows[k], S, R) = k - 1
    BY <1>2, <2>1
  <2> QED
    BY <2>1, <2>2, Ranks
<1> QED
  BY <1>2, <1>3, <1>5, <1>6

Shorter(m, n) == IF m < n THEN m ELSE n

\* The elements behind a reader who has come past the first m of them.
Behind(S, R, m) == {x \in S : Rank(x, S, R) < m}

LEMMA BehindSize ==
  ASSUME NEW S, IsFiniteSet(S), NEW R, Orders(R, S), NEW m \in Nat
  PROVE  /\ IsFiniteSet(Behind(S, R, m))
         /\ Cardinality(Behind(S, R, m)) = Shorter(m, Cardinality(S))
<1> DEFINE N == Cardinality(S)
           n == Shorter(m, N)
           rows == Enumeration(S, R)
           first == [k \in 1..n |-> rows[k]]
           T == Behind(S, R, m)
<1>1. N \in Nat /\ n \in Nat /\ 1..n \subseteq 1..N /\ n <= m
  BY FS_CardinalityType DEF Shorter
<1>2. /\ rows \in [1..N -> S]
      /\ \A k \in 1..N : Rank(rows[k], S, R) = k - 1
      /\ \A x \in S : Rank(x, S, R) + 1 \in 1..N /\ rows[Rank(x, S, R) + 1] = x
  BY Enumerated, LenProperties
<1> HIDE DEF rows
<1>3. \A k \in 1..n : first[k] = rows[k] /\ first[k] \in S /\ Rank(first[k], S, R) = k - 1
  BY <1>1, <1>2
<1>4. first \in [1..n -> T]
  <2>1. \A k \in 1..n : first[k] \in T
    BY <1>1, <1>3 DEF Behind
  <2> QED
    BY <2>1
<1>5. IsInjective(first)
  BY <1>1, <1>3 DEF IsInjective
<1>6. \A x \in T : \E k \in 1..n : first[k] = x
  <2> SUFFICES ASSUME NEW x \in T PROVE \E k \in 1..n : first[k] = x
    OBVIOUS
  <2>1. x \in S /\ Rank(x, S, R) < m /\ Rank(x, S, R) \in 0..(N - 1)
    BY RankType DEF Behind
  <2>2. Rank(x, S, R) + 1 \in 1..n
    BY <1>1, <2>1 DEF Shorter
  <2> QED
    BY <1>2, <1>3, <2>1, <2>2
<1> HIDE DEF first, n, T
<1>7. first \in Bijection(1..n, T)
  BY <1>4, <1>5, <1>6 DEF Bijection, Injection, Surjection
<1>8. ExistsBijection(1..n, T)
  BY <1>7 DEF ExistsBijection
<1>9. Cardinality(T) = n
  BY <1>1, <1>8, FS_CountingElements
<1>10. IsFiniteSet(T)
  BY <1>1, <1>8, FS_NatBijection
<1> QED
  BY <1>9, <1>10 DEF T, n

-----------------------------------------------------------------------------
(* Pages.                                                                  *)

LEMMA MinOfTwo ==
  ASSUME NEW m \in Nat, NEW n \in Nat
  PROVE  Min({m, n}) = Shorter(m, n)
<1>1. PICK k : k = Shorter(m, n)
  OBVIOUS
<1>2. k \in {m, n} /\ \A j \in {m, n} : k <= j
  BY <1>1 DEF Shorter
<1>3. \A i \in {m, n} : (\A j \in {m, n} : i <= j) => i = k
  BY <1>2
<1> QED
  BY <1>1, <1>2, <1>3 DEF Min

\* A page continues the pages before it.
LEMMA PageRows ==
  ASSUME NEW X, NEW rows \in Seq(X), NEW q, Offset(q) \in Nat, Limit(q) \in Nat
  PROVE  LET lo == Shorter(Offset(q), Len(rows))
             hi == Shorter(Offset(q) + Limit(q), Len(rows))
         IN  /\ lo \in 0..Len(rows) /\ hi \in lo..Len(rows)
             /\ PageOf(rows, q) \in Seq(X)
             /\ Len(PageOf(rows, q)) = hi - lo
             /\ \A i \in 1..(hi - lo) : PageOf(rows, q)[i] = rows[lo + i]
             /\ SubSeq(rows, 1, lo) \o PageOf(rows, q) = SubSeq(rows, 1, hi)
<1> DEFINE N == Len(rows)
           lo == Shorter(Offset(q), N)
           hi == Shorter(Offset(q) + Limit(q), N)
<1>1. N \in Nat /\ \A i \in 1..N : rows[i] \in X
  BY LenProperties, ElementOfSeq
<1>2. lo \in 0..N /\ hi \in lo..N
  BY <1>1 DEF Shorter
<1>3. PageOf(rows, q) = SubSeq(rows, Offset(q) + 1, hi)
  <2>1. Min({Offset(q) + Limit(q), N}) = hi
    BY <1>1, MinOfTwo
  <2> QED
    BY <2>1 DEF PageOf
<1>4. PageOf(rows, q) = SubSeq(rows, lo + 1, hi)
  <2>1. CASE Offset(q) < N
    BY <1>3, <2>1 DEF Shorter
  <2>2. CASE ~(Offset(q) < N)
    <3>1. lo = N /\ hi = N
      BY <1>1, <2>2 DEF Shorter
    <3>2. hi < Offset(q) + 1 /\ hi < lo + 1
      BY <1>1, <2>2, <3>1
    <3>3. SubSeq(rows, Offset(q) + 1, hi) = <<>> /\ SubSeq(rows, lo + 1, hi) = <<>>
      BY <1>1, <1>2, <3>2, SubSeqEmpty
    <3> QED
      BY <1>3, <3>3
  <2> QED
    BY <2>1, <2>2
<1> HIDE DEF lo, hi
<1>5. \A i \in (lo + 1)..hi : rows[i] \in X
  BY <1>1, <1>2
<1>6. /\ SubSeq(rows, lo + 1, hi) \in Seq(X)
      /\ Len(SubSeq(rows, lo + 1, hi)) = IF lo + 1 <= hi THEN hi - (lo + 1) + 1 ELSE 0
      /\ \A i \in 1..(hi - (lo + 1) + 1) : SubSeq(rows, lo + 1, hi)[i] = rows[lo + 1 + i - 1]
  BY <1>1, <1>2, <1>5, SubSeqProperties
<1>7. SubSeq(rows, 1, lo) \o SubSeq(rows, lo + 1, hi) = SubSeq(rows, 1, hi)
  BY <1>1, <1>2, ConcatAdjacentSubSeq
<1>8. Len(PageOf(rows, q)) = hi - lo
  BY <1>1, <1>2, <1>4, <1>6
<1>9. \A i \in 1..(hi - lo) : PageOf(rows, q)[i] = rows[lo + i]
  BY <1>1, <1>2, <1>4, <1>6
<1> QED
  BY <1>2, <1>4, <1>6, <1>7, <1>8, <1>9 DEF lo, hi

\* The rows of a page are those a reader passes with it, each once.
LEMMA PageOfEnumeration ==
  ASSUME NEW S, IsFiniteSet(S), NEW R, Orders(R, S),
         NEW q, Offset(q) \in Nat, Limit(q) \in Nat
  PROVE  LET page == PageOf(Enumeration(S, R), q)
         IN  /\ Range(page) = Behind(S, R, Offset(q) + Limit(q)) \ Behind(S, R, Offset(q))
             /\ Len(page) = Cardinality(Range(page))
             /\ Len(page) = Shorter(Offset(q) + Limit(q), Cardinality(S)) - Shorter(Offset(q), Cardinality(S))
<1> DEFINE N == Cardinality(S)
           rows == Enumeration(S, R)
           page == PageOf(rows, q)
           lo == Shorter(Offset(q), N)
           hi == Shorter(Offset(q) + Limit(q), N)
<1>1. /\ rows \in Seq(S) /\ Len(rows) = N /\ N \in Nat
      /\ \A k \in 1..N : Rank(rows[k], S, R) = k - 1
      /\ \A x \in S : Rank(x, S, R) + 1 \in 1..N /\ rows[Rank(x, S, R) + 1] = x
      /\ \A k \in 1..N : rows[k] \in S
  BY Enumerated, FS_CardinalityType, ElementOfSeq
<1> HIDE DEF rows
<1>2. /\ lo \in 0..N /\ hi \in lo..N
      /\ page \in Seq(S) /\ Len(page) = hi - lo
      /\ \A i \in 1..(hi - lo) : page[i] = rows[lo + i]
  <2>1. /\ Shorter(Offset(q), Len(rows)) = lo /\ Shorter(Offset(q) + Limit(q), Len(rows)) = hi
        /\ Len(rows) = N /\ rows \in Seq(S)
    BY <1>1
  <2> HIDE DEF lo, hi, N
  <2> QED
    <3>1. LET from == Shorter(Offset(q), Len(rows))
              to == Shorter(Offset(q) + Limit(q), Len(rows))
          IN  /\ from \in 0..Len(rows) /\ to \in from..Len(rows)
              /\ PageOf(rows, q) \in Seq(S)
              /\ Len(PageOf(rows, q)) = to - from
              /\ \A i \in 1..(to - from) : PageOf(rows, q)[i] = rows[from + i]
      BY <2>1, PageRows
    <3> QED
      BY <2>1, <3>1
<1>a. /\ lo = IF Offset(q) < N THEN Offset(q) ELSE N
      /\ hi = IF Offset(q) + Limit(q) < N THEN Offset(q) + Limit(q) ELSE N
  BY DEF Shorter
<1> HIDE DEF page, lo, hi, N
<1>b. N \in Nat /\ lo \in Nat /\ hi \in Nat /\ lo <= hi /\ hi <= N
  BY <1>1, <1>2
<1>3. DOMAIN page = 1..(hi - lo)
  BY <1>2, LenProperties
<1>4. Range(page) = Behind(S, R, Offset(q) + Limit(q)) \ Behind(S, R, Offset(q))
  <2>1. ASSUME NEW i \in 1..(hi - lo)
        PROVE  page[i] \in Behind(S, R, Offset(q) + Limit(q)) \ Behind(S, R, Offset(q))
    <3>1. lo + i \in 1..N /\ ~(lo + i - 1 < Offset(q)) /\ lo + i - 1 < Offset(q) + Limit(q)
      BY <1>a, <1>b
    <3>2. page[i] \in S /\ Rank(page[i], S, R) = lo + i - 1
      <4>1. PICK k : k = lo + i
        OBVIOUS
      <4>2. page[i] = rows[k] /\ k \in 1..N
        BY <1>2, <3>1, <4>1
      <4>3. rows[k] \in S /\ Rank(rows[k], S, R) = k - 1
        BY <1>1, <4>2
      <4>4. k - 1 = lo + i - 1
        BY <1>b, <4>1
      <4> QED
        BY <4>2, <4>3, <4>4, Zenon
    <3> QED
      BY <3>1, <3>2 DEF Behind
  <2>2. ASSUME NEW x \in Behind(S, R, Offset(q) + Limit(q)) \ Behind(S, R, Offset(q))
        PROVE  \E i \in 1..(hi - lo) : page[i] = x
    <3>1. PICK k : k = Rank(x, S, R)
      OBVIOUS
    <3>2. x \in S /\ k < Offset(q) + Limit(q) /\ ~(k < Offset(q)) /\ k + 1 \in 1..N /\ rows[k + 1] = x
          /\ k \in Nat
      BY <1>1, <2>2, <3>1, RankType DEF Behind
    <3>3. k + 1 - lo \in 1..(hi - lo)
      BY <1>a, <1>b, <3>2
    <3>4. lo + (k + 1 - lo) = k + 1
      BY <1>1, <1>2, <3>2
    <3> QED
      BY <1>2, <3>2, <3>3, <3>4
  <2> QED
    BY <1>3, <2>1, <2>2 DEF Range
<1>5. Len(page) = Cardinality(Range(page))
  <2>1. IsInjective(page)
    <3> SUFFICES ASSUME NEW i \in 1..(hi - lo), NEW j \in 1..(hi - lo), page[i] = page[j]
                 PROVE  i = j
      BY <1>3 DEF IsInjective
    <3>1. lo + i \in 1..N /\ lo + j \in 1..N
      BY <1>1, <1>2
    <3>2. lo + i - 1 = lo + j - 1
      BY <1>1, <1>2, <3>1
    <3> QED
      BY <1>1, <1>2, <3>2
  <2>2. page \in Bijection(1..(hi - lo), Range(page))
    <3>1. page = [i \in 1..(hi - lo) |-> page[i]]
      BY <1>2, <1>3, LenProperties
    <3>2. page \in [1..(hi - lo) -> Range(page)]
      BY <1>3, <3>1 DEF Range
    <3> QED
      BY <1>3, <2>1, <3>2 DEF Bijection, Injection, Surjection, Range
  <2>3. ExistsBijection(1..(hi - lo), Range(page))
    BY <2>2 DEF ExistsBijection
  <2>4. hi - lo \in Nat
    BY <1>1, <1>2
  <2> QED
    BY <1>2, <2>3, <2>4, FS_CountingElements
<1> QED
  BY <1>1, <1>2, <1>4, <1>5 DEF page, rows, lo, hi, N

-----------------------------------------------------------------------------
(* One row more or less.                                                   *)

LEMMA Covered ==
  ASSUME NEW A, NEW B, NEW D, IsFiniteSet(B), IsFiniteSet(D), A \subseteq B \cup D
  PROVE  IsFiniteSet(A) /\ Cardinality(A) \in Nat /\ Cardinality(B) \in Nat
           /\ Cardinality(D) \in Nat /\ Cardinality(A) <= Cardinality(B) + Cardinality(D)
<1>1. /\ IsFiniteSet(B \cup D)
      /\ Cardinality(B \cup D) = Cardinality(B) + Cardinality(D) - Cardinality(B \cap D)
  BY FS_Union
<1>2. IsFiniteSet(B \cap D)
  BY FS_Intersection
<1>3. IsFiniteSet(A) /\ Cardinality(A) <= Cardinality(B \cup D)
  BY <1>1, FS_Subset
<1>4. /\ Cardinality(A) \in Nat /\ Cardinality(B) \in Nat /\ Cardinality(D) \in Nat
      /\ Cardinality(B \cap D) \in Nat
  BY <1>2, <1>3, FS_CardinalityType
<1> QED
  BY <1>1, <1>3, <1>4

LEMMA RankGrows ==
  ASSUME NEW S, NEW W, IsFiniteSet(W), S \subseteq W, NEW R, NEW x
  PROVE  /\ Rank(x, S, R) \in Nat /\ Rank(x, W, R) \in Nat
         /\ Rank(x, S, R) <= Rank(x, W, R)
<1> DEFINE A == {y \in S : <<y, x>> \in R}
           B == {y \in W : <<y, x>> \in R}
<1>1. A \subseteq B /\ B \subseteq W
  OBVIOUS
<1>2. Rank(x, S, R) = Cardinality(A) /\ Rank(x, W, R) = Cardinality(B)
  BY DEF Rank
<1> HIDE DEF A, B
<1>3. IsFiniteSet(B)
  BY <1>1, FS_Subset
<1>4. IsFiniteSet(A) /\ Cardinality(A) <= Cardinality(B)
  BY <1>1, <1>3, FS_Subset
<1> QED
  BY <1>2, <1>3, <1>4, FS_CardinalityType

\* A row that appears or disappears takes one row at most across the boundary
\* between the pages behind a reader and those ahead.
LEMMA OneRowShifts ==
  ASSUME NEW W, IsFiniteSet(W), NEW R, Orders(R, W), NEW x \in W, NEW S, S = W \ {x},
         NEW m \in Nat
  PROVE  /\ Behind(W, R, m) \cap S \subseteq Behind(S, R, m)
         /\ IsFiniteSet(Behind(S, R, m) \ Behind(W, R, m))
         /\ Cardinality(Behind(S, R, m) \ Behind(W, R, m)) <= 1
         /\ IsFiniteSet((W \ Behind(W, R, m)) \ (S \ Behind(S, R, m)))
         /\ Cardinality((W \ Behind(W, R, m)) \ (S \ Behind(S, R, m))) <= 1
<1> DEFINE N == Cardinality(S)
           A == Behind(S, R, m)
           B == Behind(W, R, m)
<1>1. IsFiniteSet(S) /\ S \subseteq W /\ Orders(R, S) /\ x \notin S
  BY FS_RemoveElement DEF Orders
<1>2. Cardinality(W) = N + 1 /\ N \in Nat
  BY <1>1, FS_RemoveElement, FS_CardinalityType
<1>3. /\ IsFiniteSet(A) /\ Cardinality(A) = Shorter(m, N)
      /\ IsFiniteSet(B) /\ Cardinality(B) = Shorter(m, N + 1)
  BY <1>1, <1>2, BehindSize
<1>4. B \cap S \subseteq A
  BY <1>1, RankGrows DEF Behind
<1>5. A \subseteq S /\ B \subseteq W /\ W = S \cup {x}
  BY DEF Behind
<1>a. /\ Shorter(m, N) \in Nat /\ Shorter(m, N + 1) \in Nat
      /\ Shorter(m, N) <= Shorter(m, N + 1) /\ Shorter(m, N + 1) <= Shorter(m, N) + 1
  BY <1>2 DEF Shorter
<1> HIDE DEF A, B, N
<1>6. IsFiniteSet(A \ B) /\ Cardinality(A \ B) = Cardinality(A) - Cardinality(A \cap B)
  BY <1>3, FS_Difference
<1>7. Cardinality(A \cap B) >= Cardinality(B) - 1
  <2>1. B \subseteq (A \cap B) \cup {x}
    BY <1>4, <1>5
  <2>2. IsFiniteSet(A \cap B) /\ IsFiniteSet({x}) /\ Cardinality({x}) = 1
    BY <1>3, FS_Intersection, FS_Singleton
  <2>3. /\ Cardinality(B) <= Cardinality(A \cap B) + Cardinality({x})
        /\ Cardinality(B) \in Nat /\ Cardinality(A \cap B) \in Nat
    BY <2>1, <2>2, Covered
  <2> QED
    BY <2>2, <2>3
<1>8. Cardinality(A \cap B) \in Nat
  BY <1>3, FS_Intersection, FS_CardinalityType
<1>9. Cardinality(A \ B) <= 1
  BY <1>3, <1>a, <1>6, <1>7, <1>8
<1>10. (W \ B) \ (S \ A) \subseteq (A \ B) \cup ({x} \ B)
  BY <1>5
<1>11. IsFiniteSet((W \ B) \ (S \ A))
  BY FS_Difference
<1>12. Cardinality((W \ B) \ (S \ A)) <= 1
  <2>1. S \ A \subseteq W \ B
    BY <1>4, <1>5
  <2>2. IsFiniteSet(W \ B) /\ Cardinality(W \ B) = Cardinality(W) - Cardinality(W \cap B)
    BY FS_Difference
  <2>3. IsFiniteSet(S \ A) /\ Cardinality(S \ A) = N - Cardinality(S \cap A)
    BY <1>1, FS_Difference DEF N
  <2>4. W \cap B = B /\ S \cap A = A /\ (W \ B) \cap (S \ A) = S \ A
    BY <1>5, <2>1
  <2>5. Cardinality((W \ B) \ (S \ A)) = Cardinality(W \ B) - Cardinality(S \ A)
    <3> DEFINE U == W \ B
               V == S \ A
    <3> HIDE DEF U, V
    <3>1. IsFiniteSet(U) /\ U \cap V = V
      BY <2>2, <2>4 DEF U, V
    <3>2. Cardinality(U \ V) = Cardinality(U) - Cardinality(V)
      BY <3>1, FS_Difference
    <3> QED
      BY <3>2 DEF U, V
  <2>6. Cardinality(W \cap B) = Shorter(m, N + 1) /\ Cardinality(S \cap A) = Shorter(m, N)
    BY <1>3, <2>4
  <2>7. /\ Cardinality(W \ B) = N + 1 - Shorter(m, N + 1)
        /\ Cardinality(S \ A) = N - Shorter(m, N)
    BY <1>2, <1>a, <2>2, <2>3, <2>6
  <2> QED
    BY <1>2, <1>a, <2>5, <2>7
<1> QED
  BY <1>4, <1>6, <1>9, <1>11, <1>12 DEF A, B

\* What a reader missed: rows that stayed, are behind him, and he has not seen.
Missed(S, R, m, stayed, seen) == (Behind(S, R, m) \cap stayed) \ seen

\* What a reader will see again: rows ahead of him that he has seen.
SeenAhead(S, R, m, seen) == (S \ Behind(S, R, m)) \cap seen

LEMMA RowGoes ==
  ASSUME NEW W, IsFiniteSet(W), NEW R, Orders(R, W), NEW x \in W, NEW S, S = W \ {x},
         NEW m \in Nat, NEW stayed, NEW seen
  PROVE  /\ Cardinality(Missed(S, R, m, stayed \cap S, seen))
               <= Cardinality(Missed(W, R, m, stayed, seen)) + 1
         /\ Cardinality(SeenAhead(S, R, m, seen)) <= Cardinality(SeenAhead(W, R, m, seen))
<1> DEFINE A == Behind(S, R, m)
           B == Behind(W, R, m)
           C == (A \cap (stayed \cap S)) \ seen
           D == (B \cap stayed) \ seen
           G == (S \ A) \cap seen
           H == (W \ B) \cap seen
<1>1. /\ B \cap S \subseteq A /\ IsFiniteSet(A \ B) /\ Cardinality(A \ B) <= 1
      /\ A \subseteq S /\ B \subseteq W /\ S \subseteq W
  <2>1. A \subseteq S /\ B \subseteq W /\ S \subseteq W
    BY DEF Behind
  <2> QED
    BY <2>1, OneRowShifts
<1>2. /\ Missed(S, R, m, stayed \cap S, seen) = C /\ Missed(W, R, m, stayed, seen) = D
      /\ SeenAhead(S, R, m, seen) = G /\ SeenAhead(W, R, m, seen) = H
  BY DEF Missed, SeenAhead
<1> HIDE DEF A, B
<1>3. C \subseteq D \cup (A \ B) /\ G \subseteq H /\ D \subseteq W /\ H \subseteq W
  BY <1>1
<1> HIDE DEF C, D, G, H
<1>4. IsFiniteSet(D) /\ IsFiniteSet(H)
  BY <1>3, FS_Subset
<1>5. /\ Cardinality(C) <= Cardinality(D) + Cardinality(A \ B)
      /\ Cardinality(C) \in Nat /\ Cardinality(D) \in Nat /\ Cardinality(A \ B) \in Nat
  BY <1>1, <1>3, <1>4, Covered
<1>6. Cardinality(G) <= Cardinality(H)
  BY <1>3, <1>4, FS_Subset
<1> QED
  BY <1>1, <1>2, <1>5, <1>6

LEMMA RowComes ==
  ASSUME NEW W, IsFiniteSet(W), NEW R, Orders(R, W), NEW x \in W, NEW S, S = W \ {x},
         NEW m \in Nat, NEW stayed, stayed \subseteq S, NEW seen
  PROVE  /\ Cardinality(Missed(W, R, m, stayed, seen))
               <= Cardinality(Missed(S, R, m, stayed, seen))
         /\ Cardinality(SeenAhead(W, R, m, seen)) <= Cardinality(SeenAhead(S, R, m, seen)) + 1
<1> DEFINE A == Behind(S, R, m)
           B == Behind(W, R, m)
           C == (A \cap stayed) \ seen
           D == (B \cap stayed) \ seen
           G == (S \ A) \cap seen
           H == (W \ B) \cap seen
           E == (W \ B) \ (S \ A)
<1>1. /\ B \cap S \subseteq A /\ IsFiniteSet(E) /\ Cardinality(E) <= 1
      /\ A \subseteq S /\ B \subseteq W /\ S \subseteq W
  <2>1. A \subseteq S /\ B \subseteq W /\ S \subseteq W
    BY DEF Behind
  <2> QED
    BY <2>1, OneRowShifts
<1>2. /\ Missed(S, R, m, stayed, seen) = C /\ Missed(W, R, m, stayed, seen) = D
      /\ SeenAhead(S, R, m, seen) = G /\ SeenAhead(W, R, m, seen) = H
  BY DEF Missed, SeenAhead
<1> HIDE DEF A, B
<1>3. D \subseteq C /\ H \subseteq G \cup E /\ C \subseteq W /\ G \subseteq W
  BY <1>1
<1> HIDE DEF C, D, G, H, E
<1>4. IsFiniteSet(C) /\ IsFiniteSet(G)
  BY <1>3, FS_Subset
<1>5. /\ Cardinality(H) <= Cardinality(G) + Cardinality(E)
      /\ Cardinality(H) \in Nat /\ Cardinality(G) \in Nat /\ Cardinality(E) \in Nat
  BY <1>1, <1>3, <1>4, Covered
<1>6. Cardinality(D) <= Cardinality(C)
  BY <1>3, <1>4, FS_Subset
<1> QED
  BY <1>1, <1>2, <1>5, <1>6

-----------------------------------------------------------------------------
(* Rows in the order of a column: ties may fall either way, but position   *)
(* by position all orders show the same values.                            *)

Leads(x, y, value, descending) ==
  IF descending THEN value[x] >= value[y] ELSE value[x] <= value[y]

LEMMA AnyOrderOf ==
  ASSUME NEW T, IsFiniteSet(T), NEW s \in AnyOrder(T)
  PROVE  /\ Cardinality(T) \in Nat
         /\ s \in Seq(T) /\ s \in [1..Cardinality(T) -> T] /\ Len(s) = Cardinality(T)
         /\ DOMAIN s = 1..Cardinality(T)
         /\ IsInjective(s)
         /\ \A x \in T : \E k \in 1..Cardinality(T) : s[k] = x
<1> DEFINE N == Cardinality(T)
<1>1. N \in Nat /\ s \in Injection(1..N, T)
  BY FS_CardinalityType DEF AnyOrder
<1> HIDE DEF N
<1>2. s \in [1..N -> T] /\ IsInjective(s)
  BY <1>1 DEF Injection
<1>3. s \in Seq(T) /\ Len(s) = N
  BY <1>1, <1>2
<1>4. Cardinality(1..N) = N
  BY <1>1, FS_Interval
<1>5. s \in Surjection(1..N, T)
  BY <1>1, <1>4, FS_Injection DEF N
<1> QED
  BY <1>1, <1>2, <1>3, <1>5 DEF Surjection, N

LEMMA OrderedByMeans ==
  ASSUME NEW T, NEW value, NEW descending, NEW s
  PROVE  s \in OrderedBy(T, value, descending) <=>
           s \in AnyOrder(T) /\ \A m, n \in DOMAIN s : m < n => Leads(s[m], s[n], value, descending)
BY DEF OrderedBy, Leads

LEMMA NoneEarlier ==
  ASSUME NEW T, IsFiniteSet(T), NEW value, \A x \in T : value[x] \in Int, NEW descending,
         NEW f \in OrderedBy(T, value, descending), NEW g \in OrderedBy(T, value, descending),
         NEW k \in 1..Cardinality(T)
  PROVE  Leads(g[k], f[k], value, descending)
<1> DEFINE N == Cardinality(T)
           A == {x \in T : Leads(x, f[k], value, descending)}
           first == [j \in 1..k |-> f[j]]
           place == [x \in A |-> CHOOSE j \in 1..(k - 1) : g[j] = x]
<1> SUFFICES ASSUME ~Leads(g[k], f[k], value, descending) PROVE FALSE
  OBVIOUS
<1>1. /\ N \in Nat /\ k \in Nat
      /\ f \in [1..N -> T] /\ DOMAIN f = 1..N /\ IsInjective(f)
      /\ g \in [1..N -> T] /\ DOMAIN g = 1..N /\ \A x \in T : \E j \in 1..N : g[j] = x
  <2>1. f \in AnyOrder(T) /\ g \in AnyOrder(T)
    BY OrderedByMeans
  <2>2. N \in Nat /\ k \in Nat
    BY FS_CardinalityType
  <2>3. f \in [1..N -> T] /\ DOMAIN f = 1..N /\ IsInjective(f)
    BY <2>1, AnyOrderOf
  <2>4. g \in AnyOrder(T)
    BY <2>1
  <2>5. g \in [1..N -> T] /\ DOMAIN g = 1..N
    BY <2>4, AnyOrderOf
  <2>6. \A x \in T : \E j \in 1..N : g[j] = x
    BY <2>4, AnyOrderOf
  <2> QED
    BY <2>2, <2>3, <2>5, <2>6
<1>2. /\ \A m, n \in 1..N : m < n => Leads(f[m], f[n], value, descending)
      /\ \A m, n \in 1..N : m < n => Leads(g[m], g[n], value, descending)
  BY <1>1, OrderedByMeans
<1>3. /\ \A x \in T : Leads(x, x, value, descending)
      /\ \A x, y, z \in T : Leads(x, y, value, descending) /\ Leads(y, z, value, descending)
                              => Leads(x, z, value, descending)
  BY DEF Leads
<1>4. IsFiniteSet(A)
  BY FS_Subset
<1>5. k <= Cardinality(A)
  <2>1. \A j \in 1..k : first[j] = f[j] /\ j \in 1..N /\ f[j] \in T
    BY <1>1
  <2>2. \A j \in 1..k : first[j] \in A
    <3> SUFFICES ASSUME NEW j \in 1..k PROVE Leads(f[j], f[k], value, descending)
      BY <2>1
    <3>1. CASE j = k
      BY <1>3, <2>1, <3>1
    <3>2. CASE j < k
      BY <1>2, <2>1, <3>2
    <3> QED
      BY <1>1, <3>1, <3>2
  <2>3. IsInjective(first)
    BY <1>1, <2>1 DEF IsInjective
  <2>4. first \in [1..k -> A]
    BY <2>2
  <2> HIDE DEF first, A
  <2>5. first \in Injection(1..k, A)
    BY <2>3, <2>4 DEF Injection
  <2>6. Cardinality(1..k) = k
    BY <1>1, FS_Interval
  <2> QED
    BY <1>4, <2>5, <2>6, FS_Injection
<1>6. \A x \in A : \E j \in 1..(k - 1) : g[j] = x
  <2> SUFFICES ASSUME NEW x \in A PROVE \E j \in 1..(k - 1) : g[j] = x
    OBVIOUS
  <2>1. PICK j \in 1..N : g[j] = x
    BY <1>1
  <2>2. j # k
    BY <2>1
  <2>3. ~(k < j)
    <3> SUFFICES ASSUME k < j PROVE FALSE
      OBVIOUS
    <3>1. Leads(g[k], x, value, descending)
      BY <1>2, <2>1
    <3>2. Leads(x, f[k], value, descending) /\ x \in T /\ g[k] \in T /\ f[k] \in T
      BY <1>1
    <3> QED
      BY <1>3, <3>1, <3>2
  <2> QED
    BY <1>1, <2>1, <2>2, <2>3
<1>7. \A x \in A : place[x] \in 1..(k - 1) /\ g[place[x]] = x
  BY <1>6
<1>8. place \in [A -> 1..(k - 1)]
  BY <1>7
<1>9. DOMAIN place = A
  OBVIOUS
<1> HIDE DEF A, place
<1>10. place \in Injection(A, 1..(k - 1))
  BY <1>7, <1>8, <1>9 DEF Injection, IsInjective
<1>11. IsFiniteSet(1..(k - 1)) /\ Cardinality(1..(k - 1)) = k - 1
  <2>1. k - 1 \in Nat
    BY <1>1
  <2> QED
    BY <2>1, FS_Interval
<1>12. Cardinality(A) <= k - 1
  BY <1>10, <1>11, FS_Injection
<1>13. Cardinality(A) \in Nat
  BY <1>4, FS_CardinalityType
<1> QED
  BY <1>1, <1>5, <1>12, <1>13

LEMMA SortedAlike ==
  ASSUME NEW T, IsFiniteSet(T), NEW value, \A x \in T : value[x] \in Int, NEW descending,
         NEW f \in OrderedBy(T, value, descending), NEW g \in OrderedBy(T, value, descending),
         NEW k \in 1..Cardinality(T)
  PROVE  value[f[k]] = value[g[k]]
<1>1. f[k] \in T /\ g[k] \in T
  <2>1. f \in AnyOrder(T) /\ g \in AnyOrder(T)
    BY OrderedByMeans
  <2>2. f \in [1..Cardinality(T) -> T] /\ g \in [1..Cardinality(T) -> T]
    BY <2>1, AnyOrderOf
  <2> QED
    BY <2>2
<1>2. Leads(g[k], f[k], value, descending) /\ Leads(f[k], g[k], value, descending)
  BY NoneEarlier
<1> QED
  BY <1>1, <1>2 DEF Leads

LEMMA EnumerationSorted ==
  ASSUME NEW T, IsFiniteSet(T), NEW value, NEW descending, NEW R, Orders(R, T),
         \A x, y \in T : <<x, y>> \in R => Leads(x, y, value, descending)
  PROVE  Enumeration(T, R) \in OrderedBy(T, value, descending)
<1> DEFINE E == Enumeration(T, R)
           N == Cardinality(T)
<1>1. E \in Seq(T) /\ Len(E) = N /\ N \in Nat /\ \A k \in 1..N : Rank(E[k], T, R) = k - 1
  BY Enumerated, FS_CardinalityType
<1>2. E \in [1..N -> T] /\ DOMAIN E = 1..N
  BY <1>1, LenProperties
<1> HIDE DEF E
<1>3. IsInjective(E)
  BY <1>1, <1>2 DEF IsInjective
<1>4. E \in AnyOrder(T)
  BY <1>2, <1>3 DEF AnyOrder, Injection
<1>5. ASSUME NEW m \in 1..N, NEW n \in 1..N, m < n PROVE Leads(E[m], E[n], value, descending)
  <2>1. E[m] \in T /\ E[n] \in T /\ Rank(E[m], T, R) = m - 1 /\ Rank(E[n], T, R) = n - 1
    BY <1>1, <1>2
  <2>2. E[m] # E[n]
    BY <1>2, <1>3, <1>5 DEF IsInjective
  <2>3. <<E[n], E[m]>> \notin R
    <3> SUFFICES ASSUME <<E[n], E[m]>> \in R PROVE FALSE
      OBVIOUS
    <3>1. Rank(E[n], T, R) < Rank(E[m], T, R)
      BY <2>1, RankFollows
    <3> QED
      BY <1>1, <1>5, <2>1, <3>1
  <2>4. <<E[m], E[n]>> \in R
    BY <2>1, <2>2, <2>3 DEF Orders
  <2> QED
    BY <2>1, <2>4
<1> QED
  BY <1>2, <1>4, <1>5, OrderedByMeans DEF E

LEMMA SomeOrder ==
  ASSUME NEW T, IsFiniteSet(T)
  PROVE  AnyOrder(T) # {}
<1>1. ExistsBijection(1..Cardinality(T), T)
  BY FS_CardinalityType
<1> QED
  BY <1>1 DEF ExistsBijection, Bijection, AnyOrder

LEMMA SomeOrderBy ==
  ASSUME NEW T, IsFiniteSet(T), NEW value, \A x \in T : value[x] \in Int, NEW descending
  PROVE  OrderedBy(T, value, descending) # {}
<1>1. PICK tie \in AnyOrder(T) : TRUE
  BY SomeOrder
<1> DEFINE N == Cardinality(T)
           place == [x \in T |-> CHOOSE j \in 1..N : tie[j] = x]
           Same(x, y) == value[x] = value[y]
           R == {p \in T \X T : /\ Leads(p[1], p[2], value, descending)
                                /\ value[p[1]] = value[p[2]] => place[p[1]] < place[p[2]]}
<1>2. N \in Nat /\ \A x \in T : \E j \in 1..N : tie[j] = x
  BY AnyOrderOf
<1>3. \A x \in T : place[x] \in 1..N /\ tie[place[x]] = x
  BY <1>2
<1>4. \A x, y \in T : place[x] \in Int /\ (place[x] = place[y] => x = y)
  BY <1>2, <1>3
<1>5. \A x, y \in T : <<x, y>> \in R <=> /\ Leads(x, y, value, descending)
                                         /\ value[x] = value[y] => place[x] < place[y]
  OBVIOUS
<1> HIDE DEF R, place
<1>6. Orders(R, T)
  <2>1. \A x \in T : <<x, x>> \notin R
    BY <1>4, <1>5
  <2>2. \A x, y \in T : x # y => <<x, y>> \in R \/ <<y, x>> \in R
    BY <1>4, <1>5 DEF Leads
  <2>3. \A x, y, z \in T : <<x, y>> \in R /\ <<y, z>> \in R => <<x, z>> \in R
    <3> SUFFICES ASSUME NEW x \in T, NEW y \in T, NEW z \in T, <<x, y>> \in R, <<y, z>> \in R
                 PROVE  <<x, z>> \in R
      OBVIOUS
    <3>1. Leads(x, z, value, descending)
      BY <1>5 DEF Leads
    <3>2. value[x] = value[z] => value[x] = value[y] /\ value[y] = value[z]
      BY <1>5 DEF Leads
    <3>3. value[x] = value[z] => place[x] < place[z]
      BY <1>4, <1>5, <3>2
    <3> QED
      BY <1>5, <3>1, <3>3
  <2> QED
    BY <2>1, <2>2, <2>3 DEF Orders
<1>7. Enumeration(T, R) \in OrderedBy(T, value, descending)
  BY <1>5, <1>6, EnumerationSorted
<1> QED
  BY <1>7

-----------------------------------------------------------------------------
(* The inductive invariant, of a walk w through the rows S.                *)

OrderAsked(w) ==
  LET time == CreatedAt[Table(w.handler)]
  IN {p \in Ids \X Ids : IF Descending(Parsed(w.asked)) THEN time[p[1]] > time[p[2]]
                         ELSE time[p[1]] < time[p[2]]}

\* The creation times of the whole listing, the same in all its orders.
FullTimes(w, S) ==
  CreationTimes(w.handler, CHOOSE rows : rows \in Listing(w.handler, S, Parsed(w.asked)))

\* How far the pages that were read reach.
Come(w)  == w.pages * w.asked.size
Quiet(w) == w.lost + w.gained = 0

Walks ==
  [handler : ListHandlers, asked : [page : Nat, size : Sizes, sort : Sorts \cup {"", "price"}],
   seen : Seq(Nat), pages : Nat, over : BOOLEAN, stayed : SUBSET Ids, lost : Nat, gained : Nat]

\* Pages are asked for one after the other, and none is refused but the first.
InStep(w, S) ==
  /\ w \in Walks
  /\ w.asked.page >= 1
  /\ ~w.over => w.asked.page = w.pages + 1
  /\ w.pages > 0 => Accepts(w.asked)
  /\ w.pages = 0 => w.seen = <<>>
  /\ w.stayed \subseteq S
  /\ Quiet(w) => w.stayed = S

\* Undisturbed, a walk has seen the listing as far as its pages reach, ...
SeenInOrder(w, S) ==
  w.handler \in Sorted =>
    /\ w.seen \in Seq(Ids)
    /\ Quiet(w) => CreationTimes(w.handler, w.seen)
                      = SubSeq(FullTimes(w, S), 1, Shorter(Come(w), Len(FullTimes(w, S))))

\* ... disturbed, what it missed and repeated was shifted by other rows, ...
Shifted(w, S) ==
  Definite(w.handler) =>
    /\ Cardinality(Missed(S, OrderAsked(w), Come(w), w.stayed, Range(w.seen))) <= w.lost
    /\ Len(w.seen) - Cardinality(Range(w.seen))
         + Cardinality(SeenAhead(S, OrderAsked(w), Come(w), Range(w.seen))) <= w.gained

\* ... and in the end its pages reach the end.
ReachesTheEnd(w, S) ==
  w.over /\ w.pages > 0 =>
    /\ w.handler \in Sorted => Come(w) >= Len(FullTimes(w, S))
    /\ w.handler \in Unordered => Come(w) >= Cardinality(S)

\* The pages of the other listings.
SeenInAnyOrder(w, S) ==
  Quiet(w) =>
    /\ w.handler \in Unordered => Len(w.seen) = Shorter(Come(w), Cardinality(S))
    /\ w.handler \in Whole => Len(w.seen) = w.pages * Cardinality(S)

WalkInv(w, S) ==
  /\ InStep(w, S) /\ SeenInOrder(w, S) /\ Shifted(w, S) /\ ReachesTheEnd(w, S)
  /\ SeenInAnyOrder(w, S)

RowsOK ==
  /\ created \in 0..MaxRows /\ present \subseteq 1..created /\ shown \subseteq present
  /\ walk.handler \notin Public => shown = {}

ListingsInv == RowsOK /\ WalkInv(walk, Visible(walk.handler, present, shown))

-----------------------------------------------------------------------------
(* The listings, as sequences.                                             *)

LEMMA IdsAreNat == Ids \subseteq Nat
BY ListingAssumptions DEF Ids

LEMMA IdsFinite ==
  ASSUME NEW S, S \subseteq Ids
  PROVE  IsFiniteSet(S) /\ Cardinality(S) \in Nat
<1>1. MaxRows \in Nat
  BY ListingAssumptions
<1>2. IsFiniteSet(Ids)
  BY <1>1, FS_Interval DEF Ids
<1> QED
  BY <1>2, FS_Subset, FS_CardinalityType

LEMMA IncreasingOrders ==
  ASSUME NEW S, S \subseteq Int, NEW T, T \subseteq S
  PROVE  Orders(Increasing(S), T)
BY DEF Orders, Increasing

LEMMA TableType ==
  ASSUME NEW h \in Sorted
  PROVE  Table(h) \in Tables /\ \A i \in Ids : CreatedAt[Table(h)][i] \in Nat
<1>1. Table(h) \in Tables
  <2>1. CASE h = "getProducts"
    BY <2>1 DEF Table, Tables
  <2>2. CASE h \in {"getPublicCategories", "getAdminCategoriesView"}
    BY <2>2 DEF Table, Tables
  <2>3. CASE h = "getProductReviews"
    BY <2>3 DEF Table, Tables
  <2>4. CASE h \in {"getNormalUsers", "getVendorUsers", "getAdminUsers"}
    BY <2>4 DEF Table, Tables
  <2>5. CASE h \in OfOneVendor
    BY <2>5 DEF Table, Tables, OfOneVendor
  <2> QED
    BY <2>1, <2>2, <2>3, <2>4, <2>5 DEF Sorted, Public
<1> QED
  BY <1>1, ListingAssumptions

LEMMA CopiesType ==
  ASSUME NEW S, S \subseteq Ids
  PROVE  IsFiniteSet(Copies(S)) /\ \A c \in Copies(S) : c[1] \in S
<1> DEFINE copiesOf(i) == {i} \X (1..Max({1, Images[i]}))
           family == [i \in S |-> copiesOf(i)]
           C == Copies(S)
<1>1. ASSUME NEW i \in S PROVE IsFiniteSet(copiesOf(i)) /\ \A c \in copiesOf(i) : c[1] = i
  <2>1. Images[i] \in Nat
    BY ListingAssumptions
  <2>2. Max({1, Images[i]}) \in Nat
    <3>1. PICK k : k = IF Images[i] < 1 THEN 1 ELSE Images[i]
      OBVIOUS
    <3>2. k \in {1, Images[i]} /\ \A j \in {1, Images[i]} : k >= j
      BY <2>1, <3>1
    <3>3. \A j \in {1, Images[i]} : (\A l \in {1, Images[i]} : j >= l) => j = k
      BY <2>1, <3>2
    <3> QED
      BY <2>1, <3>1, <3>2, <3>3 DEF Max
  <2>3. IsFiniteSet(1..Max({1, Images[i]}))
    BY <2>2, FS_Interval
  <2>4. IsFiniteSet({i})
    BY FS_Singleton
  <2>5. IsFiniteSet(copiesOf(i))
    BY <2>3, <2>4, FS_Product
  <2> QED
    BY <2>5
<1>2. C = UNION Range(family)
  BY DEF Copies, Range
<1>3. IsFiniteSet(C)
  <2>1. family \in Surjection(S, Range(family))
    BY DEF Surjection, Range
  <2>2. IsFiniteSet(Range(family))
    BY <2>1, IdsFinite, FS_Surjection
  <2>3. \A T \in Range(family) : IsFiniteSet(T)
    BY <1>1 DEF Range
  <2> QED
    BY <1>2, <2>2, <2>3, FS_UNION
<1>4. \A c \in C : c[1] \in S
  BY <1>1 DEF Copies
<1> QED
  BY <1>3, <1>4

LEMMA InOrderAlike ==
  ASSUME NEW h \in Sorted, NEW S, S \subseteq Ids, NEW q
  PROVE  /\ InOrder(Table(h), S, q) # {}
         /\ \A rows \in InOrder(Table(h), S, q) : rows \in Seq(Ids) /\ Len(rows) = Cardinality(S)
         /\ \A rows, others \in InOrder(Table(h), S, q), k \in 1..Cardinality(S) :
              CreatedAt[Table(h)][rows[k]] = CreatedAt[Table(h)][others[k]]
<1> DEFINE time == CreatedAt[Table(h)]
           desc == Descending(q)
<1>1. IsFiniteSet(S) /\ \A x \in S : time[x] \in Int
  BY IdsFinite, TableType
<1>2. InOrder(Table(h), S, q) = OrderedBy(S, time, desc)
  BY DEF InOrder
<1> HIDE DEF time, desc
<1>3. OrderedBy(S, time, desc) # {}
  BY <1>1, SomeOrderBy
<1>4. ASSUME NEW rows \in OrderedBy(S, time, desc)
      PROVE  rows \in Seq(Ids) /\ Len(rows) = Cardinality(S)
  <2>1. rows \in AnyOrder(S)
    BY OrderedByMeans
  <2>2. rows \in Seq(S) /\ Len(rows) = Cardinality(S)
    BY <1>1, <2>1, AnyOrderOf
  <2> QED
    BY <2>2, SeqMonotonic
<1>5. \A rows, others \in OrderedBy(S, time, desc), k \in 1..Cardinality(S) :
        time[rows[k]] = time[others[k]]
  BY <1>1, SortedAlike
<1> QED
  BY <1>2, <1>3, <1>4, <1>5 DEF time

LEMMA JoinedAlike ==
  ASSUME NEW h \in Sorted, NEW S, S \subseteq Ids
  PROVE  /\ Joined(Table(h), S) # {}
         /\ \A rows \in Joined(Table(h), S) : rows \in Seq(Ids) /\ Len(rows) = Cardinality(Copies(S))
         /\ \A rows, others \in Joined(Table(h), S), k \in 1..Cardinality(Copies(S)) :
              CreatedAt[Table(h)][rows[k]] = CreatedAt[Table(h)][others[k]]
<1> DEFINE C == Copies(S)
           N == Cardinality(C)
           time == CreatedAt[Table(h)]
           createdAt == [c \in C |-> time[c[1]]]
           RowsOf(s) == [k \in DOMAIN s |-> s[k][1]]
<1>1. IsFiniteSet(C) /\ \A c \in C : c[1] \in S
  BY CopiesType
<1>2. \A c \in C : createdAt[c] = time[c[1]] /\ createdAt[c] \in Int
  BY <1>1, TableType
<1>3. Joined(Table(h), S) = {RowsOf(s) : s \in OrderedBy(C, createdAt, TRUE)}
  BY DEF Joined
<1> HIDE DEF C, time, createdAt
<1>4. ASSUME NEW s \in OrderedBy(C, createdAt, TRUE)
      PROVE  /\ s \in [1..N -> C] /\ DOMAIN s = 1..N /\ N \in Nat
             /\ RowsOf(s) \in Seq(Ids) /\ Len(RowsOf(s)) = N
             /\ \A k \in 1..N : time[RowsOf(s)[k]] = createdAt[s[k]]
  <2>1. s \in AnyOrder(C)
    BY OrderedByMeans
  <2>2. s \in [1..N -> C] /\ DOMAIN s = 1..N /\ N \in Nat
    BY <1>1, <2>1, AnyOrderOf
  <2>3. \A k \in 1..N : RowsOf(s)[k] = s[k][1] /\ s[k] \in C /\ s[k][1] \in Ids
    BY <1>1, <2>2
  <2>4. RowsOf(s) \in [1..N -> Ids]
    BY <2>2, <2>3
  <2>5. RowsOf(s) \in Seq(Ids) /\ Len(RowsOf(s)) = N
    BY <2>2, <2>4
  <2>6. \A k \in 1..N : time[RowsOf(s)[k]] = createdAt[s[k]]
    BY <1>2, <2>3
  <2> QED
    BY <2>2, <2>5, <2>6
<1>5. OrderedBy(C, createdAt, TRUE) # {}
  BY <1>1, <1>2, SomeOrderBy
<1>6. ASSUME NEW s \in OrderedBy(C, createdAt, TRUE), NEW t \in OrderedBy(C, createdAt, TRUE),
             NEW k \in 1..N
      PROVE  time[RowsOf(s)[k]] = time[RowsOf(t)[k]]
  <2>1. \A c \in C : createdAt[c] \in Int
    BY <1>2
  <2>2. createdAt[s[k]] = createdAt[t[k]]
    <3>1. IsFiniteSet(C) /\ k \in 1..Cardinality(C)
      BY <1>1
    <3>2. PICK descending : descending = TRUE
      OBVIOUS
    <3>3. s \in OrderedBy(C, createdAt, descending) /\ t \in OrderedBy(C, createdAt, descending)
      BY <3>2
    <3> QED
      BY <2>1, <3>1, <3>3, SortedAlike
  <2> QED
    BY <1>4, <2>2
<1> HIDE DEF RowsOf, N
<1>7. \A rows \in Joined(Table(h), S) : rows \in Seq(Ids) /\ Len(rows) = N
  BY <1>3, <1>4
<1>8. ASSUME NEW rows \in Joined(Table(h), S), NEW others \in Joined(Table(h), S), NEW k \in 1..N
      PROVE  time[rows[k]] = time[others[k]]
  <2>1. PICK s \in OrderedBy(C, createdAt, TRUE) : rows = RowsOf(s)
    BY <1>3
  <2>2. PICK t \in OrderedBy(C, createdAt, TRUE) : others = RowsOf(t)
    BY <1>3
  <2> QED
    BY <1>6, <2>1, <2>2
<1> QED
  BY <1>3, <1>5, <1>7, <1>8 DEF time, N, C

LEMMA TimesType ==
  ASSUME NEW h \in Sorted, NEW rows \in Seq(Ids)
  PROVE  /\ CreationTimes(h, rows) \in Seq(Nat) /\ Len(CreationTimes(h, rows)) = Len(rows)
         /\ \A k \in 1..Len(rows) : CreationTimes(h, rows)[k] = CreatedAt[Table(h)][rows[k]]
         /\ CreationTimes(h, rows) = [k \in 1..Len(rows) |-> CreatedAt[Table(h)][rows[k]]]
<1>1. Len(rows) \in Nat /\ DOMAIN rows = 1..Len(rows) /\ \A k \in 1..Len(rows) : rows[k] \in Ids
  BY LenProperties, ElementOfSeq
<1>2. CreationTimes(h, rows) = [k \in 1..Len(rows) |-> CreatedAt[Table(h)][rows[k]]]
  BY <1>1 DEF CreationTimes
<1>3. \A k \in 1..Len(rows) : CreatedAt[Table(h)][rows[k]] \in Nat
  BY <1>1, TableType
<1>4. CreationTimes(h, rows) \in [1..Len(rows) -> Nat]
  BY <1>2, <1>3
<1> QED
  BY <1>1, <1>2, <1>4

LEMMA ListingType ==
  ASSUME NEW h \in Sorted, NEW S, S \subseteq Ids, NEW q
  PROVE  /\ Listing(h, S, q) # {}
         /\ \A rows \in Listing(h, S, q) :
              rows \in Seq(Ids) /\ (h \notin OfOneVendor => Len(rows) = Cardinality(S))
         /\ \A rows, others \in Listing(h, S, q) : CreationTimes(h, rows) = CreationTimes(h, others)
<1>1. PICK N : /\ \A rows \in Listing(h, S, q) : rows \in Seq(Ids) /\ Len(rows) = N
               /\ h \notin OfOneVendor => N = Cardinality(S)
               /\ Listing(h, S, q) # {}
               /\ \A rows, others \in Listing(h, S, q), k \in 1..N :
                    CreatedAt[Table(h)][rows[k]] = CreatedAt[Table(h)][others[k]]
  <2>1. CASE h \in OfOneVendor
    <3>1. Listing(h, S, q) = Joined(Table(h), S)
      BY <2>1 DEF Listing
    <3> QED
      BY <2>1, <3>1, JoinedAlike
  <2>2. CASE h \notin OfOneVendor
    <3>1. Listing(h, S, q) = InOrder(Table(h), S, q)
      BY <2>2 DEF Listing
    <3> QED
      BY <2>2, <3>1, InOrderAlike
  <2> QED
    BY <2>1, <2>2
<1>2. ASSUME NEW rows \in Listing(h, S, q), NEW others \in Listing(h, S, q)
      PROVE  CreationTimes(h, rows) = CreationTimes(h, others)
  <2>1. rows \in Seq(Ids) /\ others \in Seq(Ids) /\ Len(rows) = N /\ Len(others) = N
    BY <1>1
  <2>2. /\ CreationTimes(h, rows) = [k \in 1..N |-> CreatedAt[Table(h)][rows[k]]]
        /\ CreationTimes(h, others) = [k \in 1..N |-> CreatedAt[Table(h)][others[k]]]
    BY <2>1, TimesType
  <2>3. \A k \in 1..N : CreatedAt[Table(h)][rows[k]] = CreatedAt[Table(h)][others[k]]
    BY <1>1
  <2> QED
    BY <2>2, <2>3
<1> QED
  BY <1>1, <1>2

LEMMA FullTimesType ==
  ASSUME NEW w, w.handler \in Sorted, NEW S, S \subseteq Ids
  PROVE  /\ FullTimes(w, S) \in Seq(Nat) /\ Len(FullTimes(w, S)) \in Nat
         /\ w.handler \notin OfOneVendor => Len(FullTimes(w, S)) = Cardinality(S)
         /\ \A rows \in Listing(w.handler, S, Parsed(w.asked)) :
              /\ rows \in Seq(Ids) /\ Len(rows) = Len(FullTimes(w, S))
              /\ CreationTimes(w.handler, rows) = FullTimes(w, S)
<1> DEFINE all == Listing(w.handler, S, Parsed(w.asked))
           some == CHOOSE rows : rows \in all
<1>1. /\ some \in all /\ \A rows \in all : rows \in Seq(Ids)
      /\ \A rows \in all : w.handler \notin OfOneVendor => Len(rows) = Cardinality(S)
      /\ \A rows, others \in all : CreationTimes(w.handler, rows) = CreationTimes(w.handler, others)
  BY ListingType
<1>2. FullTimes(w, S) = CreationTimes(w.handler, some)
  BY DEF FullTimes
<1> HIDE DEF all, some
<1>3. \A rows \in all : /\ CreationTimes(w.handler, rows) \in Seq(Nat)
                        /\ Len(CreationTimes(w.handler, rows)) = Len(rows)
  BY <1>1, TimesType
<1>4. FullTimes(w, S) \in Seq(Nat) /\ Len(FullTimes(w, S)) = Len(some) /\ Len(FullTimes(w, S)) \in Nat
  BY <1>1, <1>2, <1>3, LenProperties
<1>5. \A rows \in all : CreationTimes(w.handler, rows) = FullTimes(w, S)
  BY <1>1, <1>2
<1>6. \A rows \in all : Len(rows) = Len(FullTimes(w, S))
  BY <1>3, <1>5
<1> QED
  BY <1>1, <1>4, <1>5, <1>6 DEF all

\* Without ties there is one order, and it puts every row at its rank.
LEMMA DefiniteOrders ==
  ASSUME NEW w, Definite(w.handler), NEW S, S \subseteq Ids
  PROVE  /\ w.handler \in Sorted /\ w.handler \notin OfOneVendor
         /\ Orders(OrderAsked(w), S)
<1> DEFINE time == CreatedAt[Table(w.handler)]
<1>1. w.handler \in Sorted /\ w.handler \notin OfOneVendor /\ IsInjective(time)
  BY DEF Definite
<1>2. Table(w.handler) \in Tables
  BY <1>1, TableType
<1>3. time \in [Ids -> Nat]
  BY <1>2, ListingAssumptions
<1>4. OrderAsked(w) = {p \in Ids \X Ids : IF Descending(Parsed(w.asked)) THEN time[p[1]] > time[p[2]]
                                          ELSE time[p[1]] < time[p[2]]}
  BY DEF OrderAsked
<1> HIDE DEF time
<1>5. \A x, y \in S : /\ time[x] \in Nat /\ time[y] \in Nat /\ (time[x] = time[y] => x = y)
                      /\ <<x, y>> \in OrderAsked(w) <=>
                           IF Descending(Parsed(w.asked)) THEN time[x] > time[y] ELSE time[x] < time[y]
  BY <1>1, <1>3, <1>4 DEF IsInjective
<1>6. Orders(OrderAsked(w), S)
  BY <1>5 DEF Orders
<1> QED
  BY <1>1, <1>6

LEMMA DefiniteListing ==
  ASSUME NEW w, Definite(w.handler), NEW S, S \subseteq Ids,
         NEW rows \in Listing(w.handler, S, Parsed(w.asked))
  PROVE  rows = Enumeration(S, OrderAsked(w))
<1> DEFINE time == CreatedAt[Table(w.handler)]
           desc == Descending(Parsed(w.asked))
           R == OrderAsked(w)
           E == Enumeration(S, R)
           N == Cardinality(S)
<1>1. /\ w.handler \in Sorted /\ w.handler \notin OfOneVendor /\ Orders(R, S) /\ IsFiniteSet(S)
      /\ IsInjective(time)
  BY DefiniteOrders, IdsFinite DEF Definite
<1>2. Table(w.handler) \in Tables /\ time \in [Ids -> Nat]
  BY <1>1, TableType, ListingAssumptions
<1>3. rows \in OrderedBy(S, time, desc)
  BY <1>1 DEF Listing, InOrder
<1>4. \A x, y \in S : <<x, y>> \in R => Leads(x, y, time, desc)
  <2>1. \A x, y \in S : /\ time[x] \in Nat /\ time[y] \in Nat
                        /\ <<x, y>> \in R => IF desc THEN time[x] > time[y] ELSE time[x] < time[y]
    BY <1>2 DEF OrderAsked
  <2> HIDE DEF time, desc, R
  <2> QED
    BY <2>1 DEF Leads
<1> HIDE DEF time, desc, R
<1>5. E \in OrderedBy(S, time, desc)
  BY <1>1, <1>4, EnumerationSorted
<1>6. \A x \in S : time[x] \in Int
  BY <1>2
<1>7. \A k \in 1..N : time[rows[k]] = time[E[k]]
  BY <1>1, <1>3, <1>5, <1>6, SortedAlike
<1> HIDE DEF E, N
<1>8. rows \in [1..N -> S] /\ E \in [1..N -> S]
  <2>1. rows \in AnyOrder(S) /\ E \in AnyOrder(S)
    BY <1>3, <1>5, OrderedByMeans
  <2>2. rows \in [1..N -> S]
    BY <1>1, <2>1, AnyOrderOf DEF N
  <2>3. E \in [1..N -> S]
    BY <1>1, <2>1, AnyOrderOf DEF N
  <2> QED
    BY <2>2, <2>3
<1>9. \A k \in 1..N : rows[k] = E[k]
  BY <1>1, <1>2, <1>7, <1>8 DEF IsInjective
<1>10. rows = E
  <2>1. rows = [k \in 1..N |-> rows[k]] /\ E = [k \in 1..N |-> E[k]]
    BY <1>8
  <2> QED
    BY <1>9, <2>1
<1> QED
  BY <1>10 DEF E, R

LEMMA SameTimesSameRows ==
  ASSUME NEW h, Definite(h), NEW s \in Seq(Ids), NEW t \in Seq(Ids),
         CreationTimes(h, s) = CreationTimes(h, t)
  PROVE  s = t
<1> DEFINE time == CreatedAt[Table(h)]
<1>1. h \in Sorted /\ IsInjective(time)
  BY DEF Definite
<1>2. time \in [Ids -> Nat]
  BY <1>1, TableType, ListingAssumptions
<1> HIDE DEF time
<1>3. Len(s) = Len(t)
  BY <1>1, TimesType
<1>4. \A k \in 1..Len(s) : time[s[k]] = time[t[k]]
  BY <1>1, <1>3, TimesType DEF time
<1>5. \A k \in 1..Len(s) : s[k] \in Ids /\ t[k] \in Ids
  BY <1>3, ElementOfSeq
<1>6. \A k \in 1..Len(s) : s[k] = t[k]
  BY <1>1, <1>2, <1>4, <1>5 DEF IsInjective
<1>7. s = [k \in 1..Len(s) |-> s[k]] /\ t = [k \in 1..Len(s) |-> t[k]]
  BY <1>3, LenProperties
<1> QED
  BY <1>6, <1>7

LEMMA TimesOfBoth ==
  ASSUME NEW h, NEW s \in Seq(Nat), NEW t \in Seq(Nat)
  PROVE  CreationTimes(h, s \o t) = CreationTimes(h, s) \o CreationTimes(h, t)
<1> DEFINE m == Len(s)
           n == Len(t)
           Time(x) == CreatedAt[Table(h)][x]
<1>1. m \in Nat /\ n \in Nat /\ DOMAIN s = 1..m /\ DOMAIN t = 1..n
  BY LenProperties
<1>2. /\ Len(s \o t) = m + n /\ s \o t \in Seq(Nat)
      /\ \A k \in 1..(m + n) : (s \o t)[k] = IF k <= m THEN s[k] ELSE t[k - m]
  BY ConcatProperties
<1>3. DOMAIN (s \o t) = 1..(m + n)
  BY <1>2, LenProperties
<1>4. /\ CreationTimes(h, s \o t) = [k \in 1..(m + n) |-> Time((s \o t)[k])]
      /\ CreationTimes(h, s) = [k \in 1..m |-> Time(s[k])]
      /\ CreationTimes(h, t) = [k \in 1..n |-> Time(t[k])]
  BY <1>1, <1>3 DEF CreationTimes
<1>5. \A k \in 1..(m + n) : Time((s \o t)[k]) = IF k <= m THEN Time(s[k]) ELSE Time(t[k - m])
  BY <1>2
<1> DEFINE u == CreationTimes(h, s)
           v == CreationTimes(h, t)
           X == {Time(x) : x \in Nat}
<1>6. u \in Seq(X) /\ v \in Seq(X) /\ Len(u) = m /\ Len(v) = n
  <2>1. (\A k \in 1..m : s[k] \in Nat) /\ (\A k \in 1..n : t[k] \in Nat)
    BY ElementOfSeq
  <2>2. u \in [1..m -> X] /\ v \in [1..n -> X]
    BY <1>4, <2>1
  <2> HIDE DEF u, v, X, m, n
  <2> QED
    BY <1>1, <2>2
<1>7. /\ \A k \in 1..m : u[k] = Time(s[k])
      /\ \A k \in 1..n : v[k] = Time(t[k])
  BY <1>4
<1> HIDE DEF u, v, X, m, n, Time
<1>8. /\ u \o v \in Seq(X) /\ Len(u \o v) = m + n
      /\ \A k \in 1..(m + n) : (u \o v)[k] = IF k <= m THEN u[k] ELSE v[k - m]
  BY <1>6, ConcatProperties
<1>9. u \o v = [k \in 1..(m + n) |-> (u \o v)[k]]
  <2>1. u \o v \in [1..Len(u \o v) -> X]
    BY <1>8, LenProperties
  <2> QED
    BY <1>8, <2>1
<1>10. \A k \in 1..(m + n) : (u \o v)[k] = Time((s \o t)[k])
  <2> SUFFICES ASSUME NEW k \in 1..(m + n) PROVE (u \o v)[k] = Time((s \o t)[k])
    OBVIOUS
  <2>1. CASE k <= m
    BY <1>1, <1>5, <1>7, <1>8, <2>1
  <2>2. CASE ~(k <= m)
    <3>1. k - m \in 1..n
      BY <1>1, <2>2
    <3> QED
      BY <1>1, <1>5, <1>7, <1>8, <2>2, <3>1
  <2> QED
    BY <2>1, <2>2
<1> QED
  BY <1>4, <1>9, <1>10 DEF u, v

LEMMA PageIs ==
  ASSUME NEW X, NEW rows \in Seq(X), NEW q, Offset(q) \in Nat, Limit(q) \in Nat,
         NEW N, N = Len(rows)
  PROVE  /\ PageOf(rows, q) \in Seq(X)
         /\ Len(PageOf(rows, q)) = Shorter(Offset(q) + Limit(q), N) - Shorter(Offset(q), N)
         /\ \A i \in 1..(Shorter(Offset(q) + Limit(q), N) - Shorter(Offset(q), N)) :
              PageOf(rows, q)[i] = rows[Shorter(Offset(q), N) + i]
BY PageRows

LEMMA TimesOfPage ==
  ASSUME NEW h \in Sorted, NEW full \in Seq(Ids), NEW q, Offset(q) \in Nat, Limit(q) \in Nat,
         NEW times, times = CreationTimes(h, full)
  PROVE  CreationTimes(h, PageOf(full, q)) = PageOf(times, q)
<1> DEFINE N == Len(full)
           lo == Shorter(Offset(q), N)
           hi == Shorter(Offset(q) + Limit(q), N)
           page == PageOf(full, q)
           pageTimes == PageOf(times, q)
<1>1. /\ times \in Seq(Nat) /\ Len(times) = N
      /\ \A k \in 1..N : times[k] = CreatedAt[Table(h)][full[k]]
  BY TimesType
<1>2. /\ lo \in 0..N /\ hi \in lo..N /\ page \in Seq(Ids) /\ Len(page) = hi - lo
      /\ \A i \in 1..(hi - lo) : page[i] = full[lo + i]
  BY PageRows
<1>3. /\ pageTimes \in Seq(Nat) /\ Len(pageTimes) = hi - lo
      /\ \A i \in 1..(hi - lo) : pageTimes[i] = times[lo + i]
  <2>1. PICK X : X = Nat
    OBVIOUS
  <2>2. times \in Seq(X) /\ N = Len(times)
    BY <1>1, <2>1
  <2>3. /\ PageOf(times, q) \in Seq(X)
        /\ Len(PageOf(times, q)) = Shorter(Offset(q) + Limit(q), N) - Shorter(Offset(q), N)
    BY <2>2, PageIs
  <2>4. \A i \in 1..(Shorter(Offset(q) + Limit(q), N) - Shorter(Offset(q), N)) :
          PageOf(times, q)[i] = times[Shorter(Offset(q), N) + i]
    BY <2>2, PageIs
  <2> QED
    BY <2>1, <2>3, <2>4
<1> HIDE DEF lo, hi, page, pageTimes
<1>4. CreationTimes(h, page) = [k \in 1..(hi - lo) |-> CreatedAt[Table(h)][page[k]]]
  BY <1>2, TimesType
<1>5. pageTimes = [k \in 1..(hi - lo) |-> pageTimes[k]]
  BY <1>3, LenProperties
<1>6. N \in Nat
  BY LenProperties
<1>7. \A k \in 1..(hi - lo) : pageTimes[k] = CreatedAt[Table(h)][page[k]]
  <2> SUFFICES ASSUME NEW k \in 1..(hi - lo) PROVE pageTimes[k] = CreatedAt[Table(h)][page[k]]
    OBVIOUS
  <2>1. lo + k \in 1..N
    BY <1>2, <1>6
  <2> QED
    BY <1>1, <1>2, <1>3, <2>1
<1> QED
  BY <1>4, <1>5, <1>7 DEF page, pageTimes

-----------------------------------------------------------------------------
(* The metadata of a page.                                                 *)

LEMMA LastPageIsLast ==
  ASSUME NEW N \in Nat, NEW size \in Nat \ {0}, NEW page \in Nat,
         ~(page < LastPage(N, size))
  PROVE  page * size >= N
<1> DEFINE last == LastPage(N, size)
<1>1. last \in Int /\ last * size + size > N + size - 1
  BY DEF LastPage
<1> HIDE DEF last
<1>2. page >= last
  BY <1>1 DEF last
<1>3. page * size >= last * size
  BY <1>1, <1>2
<1> QED
  BY <1>1, <1>3

LEMMA Times == \A a, b \in Nat : a * b \in Nat /\ (a + 1) * b = a * b + b
OBVIOUS

\* The answer to a filter, and what its metadata say of the pages after it.
LEMMA CountedPage ==
  ASSUME NEW X, NEW rows \in Seq(X), NEW q, q.page \in Nat \ {0}, q.size \in Nat \ {0}
  PROVE  /\ Offset(q) \in Nat /\ Limit(q) \in Nat \ {0}
         /\ Offset(q) = (q.page - 1) * q.size /\ Limit(q) = q.size
         /\ Offset(q) + Limit(q) = q.page * q.size
         /\ Counted(rows, q).rows = PageOf(rows, q)
         /\ ~(Counted(rows, q).metadata.page < Counted(rows, q).metadata.last) =>
              q.page * q.size >= Len(rows)
<1> DEFINE N == Len(rows)
           page == PageOf(rows, q)
           metadata == calculateMetadata(IF page = <<>> THEN 0 ELSE N, q)
<1>1. N \in Nat
  BY LenProperties
<1>2. PICK n : n = q.page - 1
  OBVIOUS
<1>3. n \in Nat /\ n + 1 = q.page
  BY <1>2
<1>4. /\ n * q.size \in Nat /\ (n + 1) * q.size = n * q.size + q.size
      /\ q.page * q.size = n * q.size + q.size
  BY <1>3, Times
<1>5. /\ Offset(q) = n * q.size /\ Limit(q) = q.size
      /\ Offset(q) = (q.page - 1) * q.size
  BY <1>2 DEF Offset, Limit
<1>6. Offset(q) \in Nat /\ Limit(q) \in Nat \ {0} /\ Offset(q) + Limit(q) = q.page * q.size
  BY <1>4, <1>5
<1>7. Counted(rows, q).rows = page /\ Counted(rows, q).metadata = metadata
  BY DEF Counted
<1>8. ASSUME ~(metadata.page < metadata.last) PROVE q.page * q.size >= N
  <2>1. CASE page = <<>>
    <3>1. Len(page) = Shorter(Offset(q) + Limit(q), N) - Shorter(Offset(q), N)
      BY <1>6, PageRows
    <3>2. Len(page) = 0
      BY <2>1
    <3>3. Offset(q) >= N
      BY <1>1, <1>6, <3>1, <3>2 DEF Shorter
    <3> QED
      BY <1>1, <1>6, <3>3
  <2>2. CASE page # <<>> /\ N = 0
    BY <1>4, <2>2
  <2>3. CASE page # <<>> /\ N # 0
    <3>1. metadata = [page |-> q.page, last |-> LastPage(N, q.size)]
      BY <2>3 DEF calculateMetadata
    <3>2. metadata.page = q.page /\ metadata.last = LastPage(N, q.size)
      BY <3>1
    <3> HIDE DEF metadata
    <3> QED
      BY <1>1, <1>8, <3>2, LastPageIsLast
  <2> QED
    BY <2>1, <2>2, <2>3
<1> HIDE DEF metadata
<1> QED
  BY <1>5, <1>6, <1>7, <1>8

LEMMA RangeFinite ==
  ASSUME NEW X, NEW rows \in Seq(X)
  PROVE  IsFiniteSet(Range(rows)) /\ Cardinality(Range(rows)) \in Nat
<1>1. Len(rows) \in Nat /\ rows \in [1..Len(rows) -> X] /\ DOMAIN rows = 1..Len(rows)
  BY LenProperties
<1>2. rows \in Surjection(1..Len(rows), Range(rows))
  BY <1>1 DEF Surjection, Range
<1>3. IsFiniteSet(1..Len(rows))
  BY <1>1, FS_Interval
<1> QED
  BY <1>2, <1>3, FS_Surjection, FS_CardinalityType

\* A page takes from the rows ahead of a reader those it shows.
LEMMA PagePasses ==
  ASSUME NEW A, IsFiniteSet(A), NEW P, P \subseteq A, NEW Z, IsFiniteSet(Z)
  PROVE  /\ Cardinality(Z \cup P) = Cardinality(Z) + Cardinality(P) - Cardinality(Z \cap P)
         /\ Cardinality(A \cap Z)
              = Cardinality((A \ P) \cap (Z \cup P)) + Cardinality(Z \cap P)
         /\ Cardinality(Z \cup P) \in Nat /\ Cardinality(Z) \in Nat /\ Cardinality(P) \in Nat
         /\ Cardinality(Z \cap P) \in Nat /\ Cardinality(A \cap Z) \in Nat
         /\ Cardinality((A \ P) \cap (Z \cup P)) \in Nat
<1> DEFINE G == A \cap Z
           H == (A \ P) \cap (Z \cup P)
           K == Z \cap P
<1>1. G = H \cup K /\ H \cap K = {} /\ G \subseteq A /\ H \subseteq A /\ K \subseteq Z
  OBVIOUS
<1>2. IsFiniteSet(P) /\ IsFiniteSet(G) /\ IsFiniteSet(H) /\ IsFiniteSet(K) /\ IsFiniteSet(Z \cup P)
  BY <1>1, FS_Subset, FS_Union
<1>3. Cardinality(Z \cup P) = Cardinality(Z) + Cardinality(P) - Cardinality(K)
  BY <1>2, FS_Union
<1>4. /\ Cardinality(Z \cup P) \in Nat /\ Cardinality(Z) \in Nat /\ Cardinality(P) \in Nat
      /\ Cardinality(K) \in Nat /\ Cardinality(G) \in Nat /\ Cardinality(H) \in Nat
  BY <1>2, FS_CardinalityType
<1> HIDE DEF G, H, K
<1>5. Cardinality(H \cup K) = Cardinality(H) + Cardinality(K) - Cardinality(H \cap K)
  BY <1>2, FS_Union
<1>6. Cardinality(H \cap K) = 0
  BY <1>1, FS_EmptySet
<1>7. Cardinality(G) = Cardinality(H) + Cardinality(K)
  BY <1>1, <1>4, <1>5, <1>6
<1> QED
  BY <1>3, <1>4, <1>7 DEF G, H, K

-----------------------------------------------------------------------------
(* A page is read.                                                         *)

\* Walk w2 is walk w with one page more, its last if the metadata say so.
Turned(w, w2, rows, last) ==
  /\ w2 \in Walks
  /\ w2.handler = w.handler /\ w2.seen = w.seen \o rows /\ w2.pages = w.pages + 1
  /\ w2.stayed = w.stayed /\ w2.lost = w.lost /\ w2.gained = w.gained
  /\ w2.asked.size = w.asked.size /\ w2.asked.sort = w.asked.sort
  /\ last => w2.over /\ w2.asked.page = w.asked.page
  /\ ~last => ~w2.over /\ w2.asked.page = w.asked.page + 1

LEMMA ParsedFields ==
  ASSUME NEW w \in Walks
  PROVE  /\ Parsed(w.asked).page = w.asked.page /\ Parsed(w.asked).size = w.asked.size
BY DEF Parsed, Walks

LEMMA TurnedMeans ==
  ASSUME NEW w \in Walks, NEW w2, NEW rows \in Seq(Nat), NEW last, Turned(w, w2, rows, last),
         NEW S
  PROVE  /\ OrderAsked(w2) = OrderAsked(w) /\ FullTimes(w2, S) = FullTimes(w, S)
         /\ Quiet(w2) <=> Quiet(w)
         /\ Come(w) \in Nat /\ Come(w2) = Come(w) + w.asked.size
         /\ w2.pages # 0
<1>1. w.pages \in Nat /\ w.asked.size \in Nat
  BY ListingAssumptions DEF Walks
<1>2. w2 \in Walks /\ w2.asked.sort = w.asked.sort
  BY DEF Turned
<1>a. Descending(Parsed(w2.asked)) = Descending(Parsed(w.asked)) /\ w2.handler = w.handler
  <2>1. Parsed(w2.asked).sort = Parsed(w.asked).sort
    BY <1>2 DEF Parsed, Walks
  <2> QED
    BY <2>1 DEF Descending, Turned
<1>3. OrderAsked(w2) = OrderAsked(w)
  BY <1>a DEF OrderAsked
<1>4. FullTimes(w2, S) = FullTimes(w, S)
  <2>1. Listing(w.handler, S, Parsed(w2.asked)) = Listing(w.handler, S, Parsed(w.asked))
    BY <1>a DEF Listing, InOrder
  <2> QED
    BY <1>a, <2>1 DEF FullTimes
<1>5. Quiet(w2) <=> Quiet(w)
  BY DEF Quiet, Turned
<1>6. Come(w) \in Nat /\ Come(w2) = Come(w) + w.asked.size
  BY <1>1, Times DEF Come, Turned
<1>7. w2.pages # 0
  BY <1>1 DEF Turned
<1> QED
  BY <1>3, <1>4, <1>5, <1>6, <1>7

LEMMA TurnKeepsStep ==
  ASSUME NEW w, NEW S, InStep(w, S), ~w.over, Accepts(w.asked),
         NEW w2, NEW rows \in Seq(Nat), NEW last, Turned(w, w2, rows, last)
  PROVE  InStep(w2, S)
<1>1. w \in Walks /\ w2 \in Walks /\ w.asked.page \in Nat /\ w2.asked.page \in Nat
  BY DEF InStep, Turned, Walks
<1>2. w2.asked.page >= 1
  BY <1>1 DEF InStep, Turned
<1>3. ~w2.over => w2.asked.page = w2.pages + 1
  BY <1>1 DEF InStep, Turned, Walks
<1>4. Accepts(w2.asked)
  BY <1>2, <1>1 DEF Turned, Accepts
<1>5. w2.pages # 0 /\ (Quiet(w2) <=> Quiet(w))
  BY <1>1, TurnedMeans
<1>6. w2.stayed \subseteq S /\ (Quiet(w2) => w2.stayed = S)
  BY <1>5 DEF InStep, Turned
<1> QED
  BY <1>1, <1>2, <1>3, <1>4, <1>5, <1>6 DEF InStep

\* What the next page shows of the listing.
LEMMA NextPage ==
  ASSUME NEW w, NEW S, S \subseteq Ids, InStep(w, S), ~w.over, Accepts(w.asked),
         NEW full \in Seq(Nat), NEW w2, NEW last,
         last <=> ~(Counted(full, Parsed(w.asked)).metadata.page
                      < Counted(full, Parsed(w.asked)).metadata.last),
         NEW rows, rows \in Seq(Nat), Turned(w, w2, rows, last)
  PROVE  LET q == Parsed(w.asked)
         IN  /\ Offset(q) = Come(w) /\ Come(w) \in Nat
             /\ Limit(q) = w.asked.size /\ Limit(q) \in Nat \ {0}
             /\ Come(w2) = Come(w) + Limit(q)
             /\ Counted(full, q).rows = PageOf(full, q)
             /\ w2.over => Come(w2) >= Len(full)
<1> DEFINE q == Parsed(w.asked)
<1>1. /\ w \in Walks /\ w.asked.page = w.pages + 1 /\ w.pages \in Nat
      /\ w.asked.size \in Nat \ {0}
  <2>1. w \in Walks /\ w.asked.page = w.pages + 1
    BY DEF InStep
  <2>2. w.pages \in Nat
    BY <2>1 DEF Walks
  <2>3. w.asked.size \in Nat \ {0}
    <3>1. w.asked.size \in 1..MaxPageSize
      BY DEF Accepts
    <3> QED
      BY <3>1, ListingAssumptions
  <2> QED
    BY <2>1, <2>2, <2>3
<1>2. q.page \in Nat \ {0} /\ q.page = w.pages + 1 /\ q.size = w.asked.size
  BY <1>1, ParsedFields
<1>3. Come(w) \in Nat /\ Come(w2) = Come(w) + w.asked.size
  BY <1>1, TurnedMeans
<1> HIDE DEF q
<1>4. /\ Offset(q) = (q.page - 1) * q.size /\ Limit(q) = q.size
      /\ Offset(q) + Limit(q) = q.page * q.size
      /\ Counted(full, q).rows = PageOf(full, q)
      /\ ~(Counted(full, q).metadata.page < Counted(full, q).metadata.last) =>
           q.page * q.size >= Len(full)
  BY <1>1, <1>2, CountedPage
<1>5. q.page - 1 = w.pages
  BY <1>1, <1>2
<1>6. Offset(q) = Come(w)
  BY <1>2, <1>4, <1>5 DEF Come
<1>7. w2.over => last
  BY DEF Turned
<1>8. q.page * q.size = Come(w2)
  BY <1>2, <1>3, <1>4, <1>6
<1> QED
  BY <1>1, <1>2, <1>3, <1>4, <1>6, <1>7, <1>8 DEF q

LEMMA TurnSorted ==
  ASSUME NEW w, NEW S, S \subseteq Ids, WalkInv(w, S), ~w.over, w.handler \in Sorted,
         Accepts(w.asked),
         NEW full \in Listing(w.handler, S, Parsed(w.asked)),
         NEW page, page = PageOf(full, Parsed(w.asked)),
         NEW w2, NEW last,
         last <=> ~(Counted(full, Parsed(w.asked)).metadata.page
                      < Counted(full, Parsed(w.asked)).metadata.last),
         page \in Seq(Nat), Turned(w, w2, page, last)
  PROVE  SeenInOrder(w2, S) /\ Shifted(w2, S) /\ ReachesTheEnd(w2, S)
<1> DEFINE q == Parsed(w.asked)
           R == OrderAsked(w)
           m == Come(w)
           times == FullTimes(w, S)
<1>1. /\ InStep(w, S) /\ w \in Walks /\ w.seen \in Seq(Nat) /\ w2.handler = w.handler
      /\ w2.seen = w.seen \o page
  BY DEF WalkInv, InStep, Walks, Turned
<1>a. /\ full \in Seq(Ids) /\ CreationTimes(w.handler, full) = times
      /\ times \in Seq(Nat) /\ Len(times) = Len(full)
  BY FullTimesType
<1>2. full \in Seq(Nat) /\ Len(full) \in Nat
  BY <1>a, IdsAreNat, SeqMonotonic, LenProperties
<1>3. /\ Offset(q) = m /\ m \in Nat /\ Limit(q) \in Nat \ {0}
      /\ Come(w2) = m + Limit(q)
      /\ w2.over => Come(w2) >= Len(full)
  BY <1>1, <1>2, NextPage
<1>4. /\ OrderAsked(w2) = R /\ FullTimes(w2, S) = times
      /\ Quiet(w2) <=> Quiet(w)
  BY <1>1, TurnedMeans
<1> HIDE DEF q, m, R, times
<1>5. SeenInOrder(w2, S)
  <2>a. w2.seen \in Seq(Ids)
    <3>1. w.seen \in Seq(Ids) /\ page \in Seq(Ids)
      BY <1>3, <1>a, PageRows DEF WalkInv, SeenInOrder, q
    <3> QED
      BY <1>1, <3>1, ConcatProperties
  <2> SUFFICES ASSUME Quiet(w2)
               PROVE  CreationTimes(w.handler, w2.seen)
                        = SubSeq(times, 1, Shorter(Come(w2), Len(times)))
    BY <1>1, <1>4, <2>a DEF SeenInOrder
  <2>1. CreationTimes(w.handler, w.seen) = SubSeq(times, 1, Shorter(m, Len(times)))
    BY <1>4 DEF WalkInv, SeenInOrder, m, times
  <2>2. SubSeq(times, 1, Shorter(m, Len(times))) \o PageOf(times, q)
          = SubSeq(times, 1, Shorter(m + Limit(q), Len(times)))
    <3>1. PICK X : X = Nat
      OBVIOUS
    <3>2. times \in Seq(X)
      BY <1>a, <3>1
    <3> QED
      BY <1>3, <3>2, PageRows
  <2>3. CreationTimes(w.handler, page) = PageOf(times, q)
    <3>1. /\ w.handler \in Sorted /\ full \in Seq(Ids) /\ times = CreationTimes(w.handler, full)
          /\ Offset(q) \in Nat /\ Limit(q) \in Nat /\ page = PageOf(full, q)
      BY <1>3, <1>a DEF q
    <3> QED
      BY <3>1, TimesOfPage
  <2>4. CreationTimes(w.handler, w2.seen)
          = CreationTimes(w.handler, w.seen) \o CreationTimes(w.handler, page)
    BY <1>1, TimesOfBoth
  <2> QED
    BY <1>3, <2>1, <2>2, <2>3, <2>4
<1>6. ReachesTheEnd(w2, S)
  <2>1. w2.handler \notin Unordered
    BY <1>1 DEF Sorted, Public, OfOneVendor, Unordered
  <2> QED
    BY <1>3, <1>4, <1>a, <2>1 DEF ReachesTheEnd
<1>7. Shifted(w2, S)
  <2> SUFFICES ASSUME Definite(w.handler)
               PROVE  /\ Cardinality(Missed(S, R, Come(w2), w2.stayed, Range(w2.seen))) <= w2.lost
                      /\ Len(w2.seen) - Cardinality(Range(w2.seen))
                           + Cardinality(SeenAhead(S, R, Come(w2), Range(w2.seen))) <= w2.gained
    BY <1>1, <1>4 DEF Shifted
  <2> DEFINE B == Behind(S, R, m)
             B2 == Behind(S, R, m + Limit(q))
             Z == Range(w.seen)
             P == Range(page)
  <2>1. /\ full = Enumeration(S, R) /\ IsFiniteSet(S) /\ Orders(R, S)
    BY IdsFinite, DefiniteOrders, DefiniteListing DEF R
  <2>2. P = B2 \ B /\ Len(page) = Cardinality(P)
    <3>1. page = PageOf(Enumeration(S, R), q)
      BY <2>1 DEF q
    <3> QED
      BY <1>3, <2>1, <3>1, PageOfEnumeration
  <2>3. Range(w2.seen) = Z \cup P
    BY <1>1, RangeConcatenation
  <2>4. B \subseteq B2 /\ B2 \subseteq S
    BY <1>3, <2>1, RankGrows DEF Behind
  <2>5. IsFiniteSet(Z)
    BY <1>1, RangeFinite
  <2>6. Len(w2.seen) = Len(w.seen) + Len(page) /\ Len(w.seen) \in Nat
    BY <1>1, ConcatProperties, LenProperties
  <2>7. /\ w2.stayed = w.stayed /\ w2.lost = w.lost /\ w2.gained = w.gained
        /\ w.lost \in Nat /\ w.gained \in Nat
    BY <1>1 DEF Turned, Walks
  <2>8. /\ Cardinality((B \cap w.stayed) \ Z) <= w.lost
        /\ Len(w.seen) - Cardinality(Z) + Cardinality((S \ B) \cap Z) <= w.gained
    BY DEF WalkInv, Shifted, Missed, SeenAhead, R, m
  <2>9. /\ Missed(S, R, Come(w2), w2.stayed, Range(w2.seen)) = (B2 \cap w.stayed) \ (Z \cup P)
        /\ SeenAhead(S, R, Come(w2), Range(w2.seen)) = (S \ B2) \cap (Z \cup P)
    BY <1>3, <2>3, <2>7 DEF Missed, SeenAhead
  <2> HIDE DEF B, B2, Z, P
  <2>10. Cardinality((B2 \cap w.stayed) \ (Z \cup P)) <= w.lost
    <3>1. (B2 \cap w.stayed) \ (Z \cup P) \subseteq (B \cap w.stayed) \ Z
      BY <2>2
    <3>2. IsFiniteSet((B \cap w.stayed) \ Z)
      BY <2>1, <2>4, FS_Subset
    <3>3. Cardinality((B2 \cap w.stayed) \ (Z \cup P)) <= Cardinality((B \cap w.stayed) \ Z)
      BY <3>1, <3>2, FS_Subset
    <3>4. /\ Cardinality((B2 \cap w.stayed) \ (Z \cup P)) \in Nat
          /\ Cardinality((B \cap w.stayed) \ Z) \in Nat
      BY <3>1, <3>2, FS_Subset, FS_CardinalityType
    <3> QED
      BY <2>7, <2>8, <3>3, <3>4
  <2>11. Len(w2.seen) - Cardinality(Z \cup P) + Cardinality((S \ B2) \cap (Z \cup P)) <= w.gained
    <3>1. PICK A : A = S \ B
      OBVIOUS
    <3>2. IsFiniteSet(A) /\ P \subseteq A /\ S \ B2 = A \ P
      BY <2>1, <2>2, <2>4, <3>1, FS_Difference
    <3>3. /\ Cardinality(Z \cup P) = Cardinality(Z) + Cardinality(P) - Cardinality(Z \cap P)
          /\ Cardinality(A \cap Z)
               = Cardinality((A \ P) \cap (Z \cup P)) + Cardinality(Z \cap P)
          /\ Cardinality(Z \cup P) \in Nat /\ Cardinality(Z) \in Nat /\ Cardinality(P) \in Nat
          /\ Cardinality(Z \cap P) \in Nat /\ Cardinality(A \cap Z) \in Nat
          /\ Cardinality((A \ P) \cap (Z \cup P)) \in Nat
      BY <2>5, <3>2, PagePasses
    <3>4. Len(w.seen) - Cardinality(Z) + Cardinality(A \cap Z) <= w.gained
      BY <2>8, <3>1
    <3>5. Len(w2.seen) - Cardinality(Z \cup P) + Cardinality((A \ P) \cap (Z \cup P)) <= w.gained
      BY <2>2, <2>6, <2>7, <3>3, <3>4
    <3> QED
      BY <3>2, <3>5
  <2> QED
    BY <2>3, <2>7, <2>9, <2>10, <2>11
<1> QED
  BY <1>5, <1>6, <1>7

\* A listing without a definite order: all its rows, in one order or another.
LEMMA AnyOrderType ==
  ASSUME NEW S, S \subseteq Ids, NEW full \in AnyOrder(S)
  PROVE  /\ full \in Seq(S) /\ full \in Seq(Nat) /\ Len(full) = Cardinality(S)
         /\ IsInjective(full)
<1>1. Cardinality(S) \in Nat /\ S \subseteq Nat
  BY IdsFinite, IdsAreNat
<1>2. full \in [1..Cardinality(S) -> S] /\ IsInjective(full)
  BY DEF AnyOrder, Injection
<1>3. full \in Seq(S) /\ Len(full) = Cardinality(S)
  BY <1>1, <1>2
<1> QED
  BY <1>1, <1>2, <1>3, SeqMonotonic

\* What is noted of a page without an order has a row for each of its rows.
LEMMA NotedRows ==
  ASSUME NEW S, S \subseteq Ids, NEW page \in Seq(S), IsInjective(page)
  PROVE  /\ Enumeration(Range(page), Increasing(Ids)) \in Seq(Nat)
         /\ Len(Enumeration(Range(page), Increasing(Ids))) = Len(page)
<1>1. Len(page) \in Nat /\ page \in [1..Len(page) -> S] /\ DOMAIN page = 1..Len(page)
  BY LenProperties
<1>2. page \in Bijection(1..Len(page), Range(page))
  <2>1. page = [i \in 1..Len(page) |-> page[i]]
    BY <1>1
  <2>2. page \in [1..Len(page) -> Range(page)]
    BY <1>1, <2>1 DEF Range
  <2> QED
    BY <1>1, <2>2 DEF Bijection, Injection, Surjection, Range
<1>3. ExistsBijection(1..Len(page), Range(page))
  BY <1>2 DEF ExistsBijection
<1>4. Cardinality(Range(page)) = Len(page)
  BY <1>1, <1>3, FS_CountingElements
<1>5. Range(page) \subseteq Ids /\ Range(page) \subseteq Nat
  BY RangeOfSeq, IdsAreNat
<1>6. /\ Enumeration(Range(page), Increasing(Ids)) \in Seq(Range(page))
      /\ Len(Enumeration(Range(page), Increasing(Ids))) = Cardinality(Range(page))
  <2>1. Ids \subseteq Int
    BY ListingAssumptions DEF Ids
  <2>2. Orders(Increasing(Ids), Range(page))
    BY <1>5, <2>1, IncreasingOrders
  <2> QED
    BY <1>5, <2>2, IdsFinite, Enumerated
<1> QED
  BY <1>4, <1>5, <1>6, SeqMonotonic

LEMMA InjectivePage ==
  ASSUME NEW X, NEW full \in Seq(X), IsInjective(full), NEW q, Offset(q) \in Nat, Limit(q) \in Nat
  PROVE  IsInjective(PageOf(full, q))
<1> DEFINE lo == Shorter(Offset(q), Len(full))
           hi == Shorter(Offset(q) + Limit(q), Len(full))
           page == PageOf(full, q)
<1>1. /\ lo \in 0..Len(full) /\ hi \in lo..Len(full) /\ page \in Seq(X) /\ Len(page) = hi - lo
      /\ \A i \in 1..(hi - lo) : page[i] = full[lo + i]
  BY PageRows
<1>2. DOMAIN page = 1..Len(page) /\ DOMAIN full = 1..Len(full) /\ Len(full) \in Nat
  BY <1>1, LenProperties
<1> HIDE DEF lo, hi, page
<1> SUFFICES ASSUME NEW i \in 1..(hi - lo), NEW j \in 1..(hi - lo), page[i] = page[j]
             PROVE  i = j
  BY <1>1, <1>2 DEF IsInjective, page
<1>3. lo + i \in DOMAIN full /\ lo + j \in DOMAIN full
  BY <1>1, <1>2
<1>4. lo + i = lo + j
  BY <1>1, <1>3 DEF IsInjective
<1> QED
  BY <1>1, <1>4

LEMMA TurnUnordered ==
  ASSUME NEW w, NEW S, S \subseteq Ids, WalkInv(w, S), ~w.over, w.handler \in Unordered,
         Accepts(w.asked),
         NEW full \in AnyOrder(S), NEW page, page = PageOf(full, Parsed(w.asked)),
         NEW rows, rows = Enumeration(Range(page), Increasing(Ids)),
         NEW w2, NEW last,
         last <=> ~(Counted(full, Parsed(w.asked)).metadata.page
                      < Counted(full, Parsed(w.asked)).metadata.last),
         rows \in Seq(Nat), Turned(w, w2, rows, last)
  PROVE  SeenInAnyOrder(w2, S) /\ ReachesTheEnd(w2, S)
<1> DEFINE q == Parsed(w.asked)
           m == Come(w)
           N == Cardinality(S)
<1>1. /\ InStep(w, S) /\ w \in Walks /\ w.seen \in Seq(Nat) /\ w2.handler = w.handler
      /\ w2.seen = w.seen \o rows
  BY DEF WalkInv, InStep, Walks, Turned
<1>2. full \in Seq(S) /\ full \in Seq(Nat) /\ Len(full) = N /\ IsInjective(full) /\ N \in Nat
  BY AnyOrderType, IdsFinite
<1>3. /\ Offset(q) = m /\ m \in Nat /\ Limit(q) \in Nat \ {0}
      /\ Come(w2) = m + Limit(q)
      /\ w2.over => Come(w2) >= Len(full)
  BY <1>1, <1>2, NextPage
<1>4. Quiet(w2) <=> Quiet(w)
  BY <1>1, TurnedMeans
<1>5. w.handler \notin Sorted /\ w.handler \notin Whole
  BY DEF Unordered, Sorted, Public, OfOneVendor, Whole
<1> HIDE DEF q, m, N
<1>6. ReachesTheEnd(w2, S)
  BY <1>1, <1>2, <1>3, <1>5 DEF ReachesTheEnd, N
<1>7. Len(page) = Shorter(m + Limit(q), N) - Shorter(m, N) /\ page \in Seq(S)
  BY <1>2, <1>3, PageRows DEF q
<1>8. IsInjective(page)
  BY <1>2, <1>3, InjectivePage DEF q
<1>9. Len(rows) = Len(page)
  BY <1>7, <1>8, NotedRows
<1>10. Len(w2.seen) = Len(w.seen) + Len(rows)
  BY <1>1, ConcatProperties
<1>11. Shorter(m, N) \in Nat /\ Shorter(m + Limit(q), N) \in Nat
  BY <1>2, <1>3 DEF Shorter
<1>12. Quiet(w) => Len(w.seen) = Shorter(m, N)
  BY DEF WalkInv, SeenInAnyOrder, m, N
<1>13. Quiet(w2) => Len(w2.seen) = Shorter(Come(w2), N)
  BY <1>3, <1>4, <1>7, <1>9, <1>10, <1>11, <1>12
<1> QED
  BY <1>1, <1>5, <1>6, <1>13 DEF SeenInAnyOrder, N

LEMMA TurnWhole ==
  ASSUME NEW w, NEW S, S \subseteq Ids, WalkInv(w, S), ~w.over, w.handler \in Whole,
         NEW full \in AnyOrder(S), NEW rows, rows = Enumeration(Range(full), Increasing(Ids)),
         NEW w2, NEW last, rows \in Seq(Nat), Turned(w, w2, rows, last)
  PROVE  SeenInAnyOrder(w2, S)
<1>1. /\ w \in Walks /\ w.seen \in Seq(Nat) /\ w2.handler = w.handler
      /\ w2.seen = w.seen \o rows /\ w.pages \in Nat /\ w2.pages = w.pages + 1
  BY DEF WalkInv, InStep, Walks, Turned
<1>2. Len(rows) = Cardinality(S) /\ Cardinality(S) \in Nat
  BY AnyOrderType, NotedRows, IdsFinite
<1>3. Len(w2.seen) = Len(w.seen) + Len(rows)
  BY <1>1, ConcatProperties
<1>4. Quiet(w2) <=> Quiet(w)
  BY <1>1, TurnedMeans
<1>5. Quiet(w) => Len(w.seen) = w.pages * Cardinality(S)
  BY DEF WalkInv, SeenInAnyOrder
<1>6. w2.pages * Cardinality(S) = w.pages * Cardinality(S) + Cardinality(S)
  BY <1>1, <1>2, Times
<1>7. Quiet(w2) => Len(w2.seen) = w2.pages * Cardinality(S)
  BY <1>2, <1>3, <1>4, <1>5, <1>6
<1>8. w.handler \notin Unordered
  BY DEF Unordered, Whole
<1> QED
  BY <1>1, <1>7, <1>8 DEF SeenInAnyOrder

LEMMA ByOwnerType ==
  ASSUME NEW S, S \subseteq Ids
  PROVE  ByOwner(S) \in Seq(Nat)
<1> DEFINE owner == [i \in S |-> Owner[i]]
<1>1. Owners(S) \subseteq Nat /\ Owners(Ids) \subseteq Int /\ Owners(S) \subseteq Owners(Ids)
  BY ListingAssumptions DEF Owners
<1>2. owner \in Surjection(S, Owners(S))
  BY DEF Surjection, Owners
<1>3. IsFiniteSet(Owners(S))
  BY <1>2, IdsFinite, FS_Surjection
<1>4. Orders(Increasing(Owners(Ids)), Owners(S))
  BY <1>1, IncreasingOrders
<1>5. ByOwner(S) \in Seq(Owners(S))
  BY <1>3, <1>4, Enumerated DEF ByOwner
<1> QED
  BY <1>1, <1>5, SeqMonotonic

-----------------------------------------------------------------------------
(* Rows come and go.                                                       *)

LEMMA ChangeKeeps ==
  ASSUME NEW w, NEW S, S \subseteq Ids, WalkInv(w, S), ~w.over,
         NEW W, W \subseteq Ids,
         W = S \/ (\E x \in S : W = S \ {x}) \/ (\E x \in W : S = W \ {x}),
         NEW w2,
         w2 = [w EXCEPT !.stayed = @ \cap W, !.lost = @ + Cardinality(S \ W),
                        !.gained = @ + Cardinality(W \ S)]
  PROVE  WalkInv(w2, W)
<1> DEFINE R == OrderAsked(w)
           m == Come(w)
           Z == Range(w.seen)
<1>1. /\ w \in Walks /\ w.lost \in Nat /\ w.gained \in Nat /\ w.seen \in Seq(Nat)
      /\ w.pages \in Nat /\ w.asked.size \in Nat
  BY ListingAssumptions DEF WalkInv, InStep, Walks
<1>2. IsFiniteSet(S) /\ IsFiniteSet(W)
  BY IdsFinite
<1>3. /\ IsFiniteSet(S \ W) /\ Cardinality(S \ W) \in Nat
      /\ IsFiniteSet(W \ S) /\ Cardinality(W \ S) \in Nat
  BY <1>2, FS_Difference, FS_CardinalityType
<1>4. /\ w2 \in Walks
      /\ w2.handler = w.handler /\ w2.asked = w.asked /\ w2.seen = w.seen /\ w2.pages = w.pages
      /\ ~w2.over /\ w2.stayed = w.stayed \cap W
      /\ w2.lost = w.lost + Cardinality(S \ W) /\ w2.gained = w.gained + Cardinality(W \ S)
  <2>1. /\ w2.handler = w.handler /\ w2.asked = w.asked /\ w2.seen = w.seen /\ w2.pages = w.pages
        /\ w2.stayed = w.stayed \cap W
        /\ w2.lost = w.lost + Cardinality(S \ W) /\ w2.gained = w.gained + Cardinality(W \ S)
    BY <1>1 DEF Walks
  <2>2. w2.over = w.over
    BY <1>1 DEF Walks
  <2>3. w.stayed \cap W \in SUBSET Ids
    OBVIOUS
  <2>4. w2 \in Walks
    <3>1. PICK l : l = w.lost + Cardinality(S \ W)
      OBVIOUS
    <3>2. PICK g : g = w.gained + Cardinality(W \ S)
      OBVIOUS
    <3>3. l \in Nat /\ g \in Nat
      BY <1>1, <1>3, <3>1, <3>2
    <3>4. PICK t : t = w.stayed \cap W
      OBVIOUS
    <3>5. w2 = [w EXCEPT !.stayed = t, !.lost = l, !.gained = g]
      BY <3>1, <3>2, <3>4
    <3> QED
      BY <1>1, <2>3, <3>3, <3>4, <3>5 DEF Walks
  <2> QED
    BY <2>1, <2>2, <2>4
<1>5. /\ OrderAsked(w2) = R /\ Come(w2) = m
      /\ \A T : FullTimes(w2, T) = FullTimes(w, T)
  BY <1>4 DEF OrderAsked, Come, FullTimes
<1>6. ASSUME Quiet(w2) PROVE Quiet(w) /\ W = S /\ w2.stayed = W
  <2>1. w.lost + w.gained = 0 /\ Cardinality(S \ W) = 0 /\ Cardinality(W \ S) = 0
    BY <1>1, <1>3, <1>4, <1>6 DEF Quiet
  <2>2. S \ W = {} /\ W \ S = {}
    BY <1>3, <2>1, FS_EmptySet
  <2>3. W = S /\ Quiet(w)
    BY <2>1, <2>2 DEF Quiet
  <2>4. w.stayed = S
    BY <2>3 DEF WalkInv, InStep
  <2> QED
    BY <1>4, <2>3, <2>4
<1>7. InStep(w2, W)
  BY <1>4, <1>6 DEF WalkInv, InStep
<1>8. SeenInOrder(w2, W)
  BY <1>4, <1>5, <1>6 DEF WalkInv, SeenInOrder
<1>9. Shifted(w2, W)
  <2> SUFFICES ASSUME Definite(w.handler)
               PROVE  /\ Cardinality(Missed(W, R, m, w.stayed \cap W, Z)) <= w2.lost
                      /\ Len(w.seen) - Cardinality(Z) + Cardinality(SeenAhead(W, R, m, Z))
                           <= w2.gained
    BY <1>4, <1>5 DEF Shifted
  <2>1. m \in Nat
    BY <1>1, Times DEF Come
  <2>2. /\ Cardinality(Missed(S, R, m, w.stayed, Z)) <= w.lost
        /\ Len(w.seen) - Cardinality(Z) + Cardinality(SeenAhead(S, R, m, Z)) <= w.gained
    BY DEF WalkInv, Shifted
  <2>3. Orders(R, S) /\ Orders(R, W)
    BY DefiniteOrders
  <2>4. Len(w.seen) \in Nat /\ Cardinality(Z) \in Nat
    BY <1>1, RangeFinite, LenProperties
  <2>5. w.stayed \subseteq S
    BY DEF WalkInv, InStep
  <2> HIDE DEF R, m, Z
  <2>6. \A T : /\ Cardinality(Missed(S, R, m, T, Z)) \in Nat
               /\ Cardinality(Missed(W, R, m, T, Z)) \in Nat
    <3>1. \A T : Missed(S, R, m, T, Z) \subseteq S /\ Missed(W, R, m, T, Z) \subseteq W
      BY DEF Missed, Behind
    <3> QED
      BY <1>2, <3>1, FS_Subset, FS_CardinalityType
  <2>7. Cardinality(SeenAhead(S, R, m, Z)) \in Nat /\ Cardinality(SeenAhead(W, R, m, Z)) \in Nat
    <3>1. SeenAhead(S, R, m, Z) \subseteq S /\ SeenAhead(W, R, m, Z) \subseteq W
      BY DEF SeenAhead
    <3> QED
      BY <1>2, <3>1, FS_Subset, FS_CardinalityType
  <2>a. /\ w2.lost \in Nat /\ w2.lost >= w.lost
        /\ w2.gained \in Nat /\ w2.gained >= w.gained
    BY <1>1, <1>3, <1>4
  <2>8. CASE W = S
    <3>1. w.stayed \cap W = w.stayed
      BY <2>5, <2>8
    <3>2. /\ Missed(W, R, m, w.stayed \cap W, Z) = Missed(S, R, m, w.stayed, Z)
          /\ SeenAhead(W, R, m, Z) = SeenAhead(S, R, m, Z)
      BY <2>8, <3>1
    <3>3. Cardinality(Missed(S, R, m, w.stayed, Z)) \in Nat
      BY <2>6
    <3> QED
      BY <1>1, <2>2, <2>4, <2>7, <2>a, <3>2, <3>3
  <2>9. ASSUME NEW x \in S, W = S \ {x}
        PROVE  /\ Cardinality(Missed(W, R, m, w.stayed \cap W, Z)) <= w2.lost
               /\ Len(w.seen) - Cardinality(Z) + Cardinality(SeenAhead(W, R, m, Z)) <= w2.gained
    <3>1. /\ Cardinality(Missed(W, R, m, w.stayed \cap W, Z))
               <= Cardinality(Missed(S, R, m, w.stayed, Z)) + 1
          /\ Cardinality(SeenAhead(W, R, m, Z)) <= Cardinality(SeenAhead(S, R, m, Z))
      BY <1>2, <2>1, <2>3, <2>9, RowGoes
    <3>2. Cardinality(S \ W) = 1
      <4>1. S \ W = {x}
        BY <2>9
      <4> QED
        BY <4>1, FS_Singleton
    <3>3. w2.lost = w.lost + 1
      BY <1>4, <3>2
    <3>4. Cardinality(Missed(W, R, m, w.stayed \cap W, Z)) <= w2.lost
      BY <1>1, <2>2, <2>6, <3>1, <3>3
    <3> QED
      BY <1>1, <1>3, <1>4, <2>2, <2>4, <2>7, <3>1, <3>4
  <2>10. ASSUME NEW x \in W, S = W \ {x}
         PROVE  /\ Cardinality(Missed(W, R, m, w.stayed \cap W, Z)) <= w2.lost
                /\ Len(w.seen) - Cardinality(Z) + Cardinality(SeenAhead(W, R, m, Z)) <= w2.gained
    <3>1. /\ Cardinality(Missed(W, R, m, w.stayed, Z)) <= Cardinality(Missed(S, R, m, w.stayed, Z))
          /\ Cardinality(SeenAhead(W, R, m, Z)) <= Cardinality(SeenAhead(S, R, m, Z)) + 1
      BY <1>2, <2>1, <2>3, <2>5, <2>10, RowComes
    <3>2. Cardinality(W \ S) = 1
      <4>1. W \ S = {x}
        BY <2>10
      <4> QED
        BY <4>1, FS_Singleton
    <3>3. w2.gained = w.gained + 1
      BY <1>4, <3>2
    <3>4. w.stayed \cap W = w.stayed
      BY <2>5, <2>10
    <3>5. Len(w.seen) - Cardinality(Z) + Cardinality(SeenAhead(W, R, m, Z)) <= w2.gained
      BY <1>1, <2>2, <2>4, <2>7, <3>1, <3>3
    <3>6. Cardinality(Missed(W, R, m, w.stayed \cap W, Z)) <= w2.lost
      <4>1. /\ Cardinality(Missed(S, R, m, w.stayed, Z)) \in Nat
            /\ Cardinality(Missed(W, R, m, w.stayed, Z)) \in Nat
        BY <2>6
      <4>2. Cardinality(Missed(W, R, m, w.stayed, Z)) <= w2.lost
        BY <1>1, <2>2, <2>a, <3>1, <4>1
      <4> QED
        BY <3>4, <4>2
    <3> QED
      BY <3>5, <3>6
  <2> QED
    BY <2>8, <2>9, <2>10
<1>10. ReachesTheEnd(w2, W)
  BY <1>4 DEF ReachesTheEnd
<1>11. SeenInAnyOrder(w2, W)
  BY <1>4, <1>5, <1>6 DEF WalkInv, SeenInAnyOrder
<1> QED
  BY <1>7, <1>8, <1>9, <1>10, <1>11 DEF WalkInv

-----------------------------------------------------------------------------
(* The answers of the handlers.                                            *)

LEMMA SortedAnswers ==
  ASSUME NEW h \in Sorted, NEW a, NEW S, S = Visible(h, present, shown)
  PROVE  /\ Accepts(a) =>
              Served(h, a) = {Counted(rows, Parsed(a)) : rows \in Listing(h, S, Parsed(a))}
         /\ ~Accepts(a) => Served(h, a) = {}
<1>1. ASSUME NEW pages, Served(h, a) = Answers(a, pages),
             pages = Pages(Listing(h, S, Parsed(a)), Parsed(a))
      PROVE  /\ Accepts(a) =>
                  Served(h, a) = {Counted(rows, Parsed(a)) : rows \in Listing(h, S, Parsed(a))}
             /\ ~Accepts(a) => Served(h, a) = {}
  BY <1>1 DEF Answers, Pages
<1>2. CASE h = "getProducts"
  BY <1>1, <1>2 DEF Served, Visible, Public, OfOneVendor, Listing, Table, getProducts, GetProducts
<1>3. CASE h = "getPublicCategories"
  BY <1>1, <1>3 DEF Served, Visible, Public, OfOneVendor, Listing, Table, getPublicCategories,
                    GetPublicCategories
<1>4. CASE h = "getAdminCategoriesView"
  BY <1>1, <1>4 DEF Served, Visible, Public, OfOneVendor, Listing, Table, getAdminCategoriesView,
                    GetAdminCategoryView
<1>5. CASE h = "getProductReviews"
  BY <1>1, <1>5 DEF Served, Visible, Public, OfOneVendor, Listing, Table, getProductReviews,
                    GetByProductID
<1>6. CASE h = "getNormalUsers"
  BY <1>1, <1>6 DEF Served, Visible, Public, OfOneVendor, Listing, Table, getNormalUsers,
                    GetNormalUsers
<1>7. CASE h = "getVendorUsers"
  BY <1>1, <1>7 DEF Served, Visible, Public, OfOneVendor, Listing, Table, getVendorUsers,
                    GetVendorUsers
<1>8. CASE h = "getAdminUsers"
  BY <1>1, <1>8 DEF Served, Visible, Public, OfOneVendor, Listing, Table, getAdminUsers,
                    GetAdminUsers
<1>9. CASE h = "getVendorWishlistItem"
  BY <1>1, <1>9 DEF Served, Visible, Public, OfOneVendor, Listing, Table, getVendorWishlistItem,
                    GetWishlistItems
<1>10. CASE h = "getVendorCartItem"
  BY <1>1, <1>10 DEF Served, Visible, Public, OfOneVendor, Listing, Table, getVendorCartItem,
                     GetCartItems
<1> QED
  BY <1>2, <1>3, <1>4, <1>5, <1>6, <1>7, <1>8, <1>9, <1>10 DEF Sorted, Public, OfOneVendor

LEMMA OtherAnswers ==
  ASSUME NEW h \in Unordered \cup Whole \cup Grouping, NEW a
  PROVE  /\ ~Accepts(a) => Served(h, a) = {}
         /\ h = "getOptionTypes" /\ Accepts(a) =>
              Served(h, a) = {Counted(rows, Parsed(a)) : rows \in AnyOrder(present)}
         /\ h = "getAuditLogs" /\ Accepts(a) => Served(h, a) = GetAuditLogs(Parsed(a))
         /\ h \in Whole /\ Accepts(a) => Served(h, a) = GetOrdersForUser(Parsed(a))
         /\ h \in Grouping /\ Accepts(a) => Served(h, a) = Grouped(Parsed(a))
<1>1. CASE h = "getOptionTypes"
  BY <1>1 DEF Served, getOptionTypes, GetAll, Pages, Answers, Whole, Grouping
<1>2. CASE h = "getAuditLogs"
  BY <1>2 DEF Served, getAuditLogs, Answers, Whole, Grouping
<1>3. CASE h = "getUserViewOrderLists"
  BY <1>3 DEF Served, getUserViewOrderLists, Answers, Whole, Grouping
<1>4. CASE h = "getGroupVendorWishlisttem"
  BY <1>4 DEF Served, getGroupVendorWishlisttem, GetGroupWishlistItems, Answers, Whole, Grouping
<1>5. CASE h = "getGroupVendorCartItem"
  BY <1>5 DEF Served, getGroupVendorCartItem, GetGroupCartItems, Answers, Whole, Grouping
<1> QED
  BY <1>1, <1>2, <1>3, <1>4, <1>5 DEF Unordered, Whole, Grouping

-----------------------------------------------------------------------------
(* Every step keeps the invariant.                                         *)

LEMMA TurnPage ==
  ASSUME NEW w \in Walks, ~w.over, NEW rows \in Seq(Nat), NEW last,
         NEW u, u = [w EXCEPT !.seen = @ \o rows, !.pages = @ + 1],
         NEW w2, w2 = IF ~last THEN [u EXCEPT !.asked.page = @ + 1] ELSE [u EXCEPT !.over = TRUE]
  PROVE  Turned(w, w2, rows, last)
<1>1. PICK s : s = w.seen \o rows
  OBVIOUS
<1>2. s \in Seq(Nat)
  BY <1>1, ConcatProperties DEF Walks
<1>3. u = [w EXCEPT !.seen = s, !.pages = @ + 1]
  BY <1>1
<1>4. u \in Walks
  <2>1. PICK p : p = w.pages + 1
    OBVIOUS
  <2>2. p \in Nat
    <3>1. w.pages \in Nat
      BY DEF Walks
    <3> QED
      BY <2>1, <3>1
  <2>3. u = [w EXCEPT !.seen = s, !.pages = p]
    BY <1>3, <2>1
  <2> QED
    BY <1>2, <2>2, <2>3 DEF Walks
<1>5. /\ u.handler = w.handler /\ u.seen = s /\ u.pages = w.pages + 1 /\ u.asked = w.asked
      /\ u.stayed = w.stayed /\ u.lost = w.lost /\ u.gained = w.gained
  BY <1>3 DEF Walks
<1>6. ~u.over
  BY <1>3 DEF Walks
<1>7. CASE last
  <2>1. w2 = [u EXCEPT !.over = TRUE]
    BY <1>7
  <2>2. w2 \in Walks
    BY <1>4, <2>1 DEF Walks
  <2>3. /\ w2.handler = u.handler /\ w2.seen = u.seen /\ w2.pages = u.pages /\ w2.asked = u.asked
        /\ w2.stayed = u.stayed /\ w2.lost = u.lost /\ w2.gained = u.gained
    BY <1>4, <2>1 DEF Walks
  <2>4. w2.over
    BY <1>4, <2>1 DEF Walks
  <2> QED
    BY <1>1, <1>5, <1>7, <2>2, <2>3, <2>4 DEF Turned
<1>8. CASE ~last
  <2>1. w2 = [u EXCEPT !.asked.page = @ + 1]
    BY <1>8
  <2>2. w2 \in Walks
    <3>1. PICK filter : filter = [u.asked EXCEPT !.page = @ + 1]
      OBVIOUS
    <3>2. PICK p : p = u.asked.page + 1
      OBVIOUS
    <3>3. p \in Nat
      <4>1. u.asked \in [page : Nat, size : Sizes, sort : Sorts \cup {"", "price"}]
        BY <1>4 DEF Walks
      <4>2. u.asked.page \in Nat
        BY <4>1
      <4> QED
        BY <3>2, <4>2
    <3>4. filter = [u.asked EXCEPT !.page = p]
      BY <3>1, <3>2
    <3>5. filter \in [page : Nat, size : Sizes, sort : Sorts \cup {"", "price"}]
      BY <1>4, <3>3, <3>4 DEF Walks
    <3>6. w2 = [u EXCEPT !.asked = filter]
      BY <2>1, <3>1
    <3> QED
      BY <1>4, <3>5, <3>6 DEF Walks
  <2>3. /\ w2.handler = u.handler /\ w2.seen = u.seen /\ w2.pages = u.pages
        /\ w2.stayed = u.stayed /\ w2.lost = u.lost /\ w2.gained = u.gained
        /\ w2.asked = [u.asked EXCEPT !.page = @ + 1]
    BY <1>4, <2>1 DEF Walks
  <2>4. /\ w2.asked.size = u.asked.size /\ w2.asked.sort = u.asked.sort
        /\ w2.asked.page = u.asked.page + 1
    BY <1>4, <2>3 DEF Walks
  <2>5. w2.over = u.over
    BY <1>4, <2>1 DEF Walks
  <2> QED
    BY <1>1, <1>5, <1>6, <1>8, <2>2, <2>3, <2>4, <2>5 DEF Turned
<1> QED
  BY <1>7, <1>8

LEMMA VisibleType ==
  ASSUME RowsOK, NEW h
  PROVE  Visible(h, present, shown) \subseteq Ids
           /\ (h \notin Public \cup OfOneVendor => Visible(h, present, shown) = present)
<1>1. present \subseteq Ids /\ shown \subseteq Ids
  BY ListingAssumptions DEF RowsOK, Ids
<1> QED
  BY <1>1 DEF Visible

\* A filter that is accepted is always answered, ...
LEMMA Answered ==
  ASSUME ListingsInv, Accepts(walk.asked)
  PROVE  Served(walk.handler, walk.asked) # {}
<1> DEFINE h == walk.handler
           q == Parsed(walk.asked)
           S == Visible(h, present, shown)
<1>1. h \in ListHandlers /\ present \subseteq Ids /\ S \subseteq Ids /\ IsFiniteSet(present)
  <2>1. walk \in Walks /\ RowsOK
    BY DEF ListingsInv, WalkInv, InStep
  <2>2. h \in ListHandlers
    BY <2>1 DEF Walks
  <2>3. present \subseteq Ids
    BY <2>1, ListingAssumptions DEF RowsOK, Ids
  <2> QED
    BY <2>1, <2>2, <2>3, VisibleType, IdsFinite
<1> HIDE DEF h, q, S
<1>2. CASE h \in Sorted
  <2>1. Listing(h, S, q) # {}
    BY <1>1, <1>2, ListingType
  <2>2. Served(h, walk.asked) = {Counted(rows, q) : rows \in Listing(h, S, q)}
    BY <1>2, SortedAnswers DEF h, q, S
  <2> QED
    BY <2>1, <2>2 DEF h
<1>3. CASE h = "getOptionTypes"
  <2>1. AnyOrder(present) # {}
    BY <1>1, SomeOrder
  <2> QED
    BY <1>3, <2>1, OtherAnswers DEF h, Unordered
<1>4. CASE h = "getAuditLogs"
  <2>1. \A i \in present : Owner[i] \in Int
    BY <1>1, ListingAssumptions
  <2>2. OrderedBy(present, Owner, Descending(q)) # {}
    BY <1>1, <2>1, SomeOrderBy
  <2>3. GetAuditLogs(q) # {}
    BY <2>2 DEF GetAuditLogs, Pages
  <2> QED
    BY <1>4, <2>3, OtherAnswers DEF h, q, Unordered
<1>5. CASE h \in Whole
  <2>1. AnyOrder(present) # {}
    BY <1>1, SomeOrder
  <2>2. GetOrdersForUser(q) # {}
    BY <2>1 DEF GetOrdersForUser
  <2> QED
    BY <1>5, <2>2, OtherAnswers DEF h, q
<1>6. CASE h \in Grouping
  <2>1. Grouped(q) # {}
    BY DEF Grouped
  <2> QED
    BY <1>6, <2>1, OtherAnswers DEF h, q
<1> QED
  BY <1>1, <1>2, <1>3, <1>4, <1>5, <1>6 DEF ListHandlers, Unordered

\* ... and no other.
LEMMA OnlyAccepted ==
  ASSUME ListingsInv, Served(walk.handler, walk.asked) # {}
  PROVE  Accepts(walk.asked)
<1>1. walk.handler \in ListHandlers
  BY DEF ListingsInv, WalkInv, InStep, Walks
<1>2. CASE walk.handler \in Sorted
  BY <1>2, SortedAnswers
<1>3. CASE walk.handler \in Unordered \cup Whole \cup Grouping
  BY <1>3, OtherAnswers
<1> QED
  BY <1>1, <1>2, <1>3 DEF ListHandlers

\* The first page is refused.
LEMMA Refused ==
  ASSUME NEW w, NEW S, WalkInv(w, S), ~w.over, ~Accepts(w.asked),
         NEW w2, w2 = [w EXCEPT !.over = TRUE]
  PROVE  WalkInv(w2, S)
<1>1. w \in Walks /\ w.pages \in Nat
  BY DEF WalkInv, InStep, Walks
<1>2. w2 \in Walks /\ w2.over
  BY <1>1 DEF Walks
<1>3. /\ w2.handler = w.handler /\ w2.seen = w.seen /\ w2.pages = w.pages /\ w2.asked = w.asked
      /\ w2.stayed = w.stayed /\ w2.lost = w.lost /\ w2.gained = w.gained
  BY <1>1 DEF Walks
<1>4. w.pages = 0
  BY <1>1 DEF WalkInv, InStep
<1>5. /\ OrderAsked(w2) = OrderAsked(w) /\ Come(w2) = Come(w) /\ FullTimes(w2, S) = FullTimes(w, S)
      /\ Quiet(w2) <=> Quiet(w)
  BY <1>3 DEF OrderAsked, Come, FullTimes, Quiet
<1>6. InStep(w2, S)
  BY <1>2, <1>3, <1>4, <1>5 DEF WalkInv, InStep
<1>7. SeenInOrder(w2, S) /\ Shifted(w2, S) /\ SeenInAnyOrder(w2, S)
  BY <1>3, <1>5 DEF WalkInv, SeenInOrder, Shifted, SeenInAnyOrder
<1>8. ReachesTheEnd(w2, S)
  BY <1>3, <1>4 DEF ReachesTheEnd
<1> QED
  BY <1>6, <1>7, <1>8 DEF WalkInv

LEMMA ReadKeeps ==
  ASSUME ListingsInv, Read, NEW w, w = walk,
         NEW S, S = Visible(walk.handler, present, shown), NEW w2, w2 = walk'
  PROVE  WalkInv(w2, S)
<1> DEFINE q == Parsed(w.asked)
<1>1. /\ WalkInv(w, S) /\ ~w.over /\ w \in Walks /\ InStep(w, S) /\ S \subseteq Ids
      /\ w.handler \in ListHandlers
      /\ w.handler \notin Public \cup OfOneVendor => S = present
  BY VisibleType DEF ListingsInv, Read, WalkInv, InStep, Walks
<1>2. CASE Served(walk.handler, walk.asked) = {} /\ walk' = [walk EXCEPT !.over = TRUE]
  <2>1. ~Accepts(w.asked)
    BY <1>2, Answered
  <2> QED
    BY <1>1, <1>2, <2>1, Refused
<1>3. ASSUME NEW a \in Served(walk.handler, walk.asked),
             NEW u, u = [w EXCEPT !.seen = @ \o Noted(a.rows), !.pages = @ + 1],
             w2 = IF a.metadata.page < a.metadata.last
                    THEN [u EXCEPT !.asked.page = @ + 1] ELSE [u EXCEPT !.over = TRUE]
      PROVE  WalkInv(w2, S)
  <2>1. Accepts(w.asked)
    BY <1>3, OnlyAccepted
  <2>2. PICK last \in BOOLEAN : last <=> ~(a.metadata.page < a.metadata.last)
    OBVIOUS
  <2>3. PICK rows : rows = Noted(a.rows)
    OBVIOUS
  <2>4. ASSUME rows \in Seq(Nat) PROVE Turned(w, w2, rows, last) /\ InStep(w2, S)
    <3>1. w2 = IF ~last THEN [u EXCEPT !.asked.page = @ + 1] ELSE [u EXCEPT !.over = TRUE]
      BY <1>3, <2>2
    <3>2. u = [w EXCEPT !.seen = @ \o rows, !.pages = @ + 1]
      BY <1>3, <2>3
    <3>3. Turned(w, w2, rows, last)
      <4>1. w \in Walks /\ ~w.over /\ rows \in Seq(Nat)
        BY <1>1, <2>4
      <4> QED
        BY <3>1, <3>2, <4>1, TurnPage
    <3> QED
      BY <1>1, <2>1, <2>4, <3>3, TurnKeepsStep
  <2>5. q.page = w.asked.page /\ Offset(q) \in Nat /\ Limit(q) \in Nat
    <3>1. w.asked.page \in Nat \ {0} /\ w.asked.size \in Nat \ {0}
      <4>1. w.asked.size \in 1..MaxPageSize /\ w.asked.page >= 1 /\ w.asked.page \in Nat
        BY <1>1, <2>1 DEF Accepts, Walks
      <4> QED
        BY <4>1, ListingAssumptions
    <3>2. q.page \in Nat \ {0} /\ q.size \in Nat \ {0} /\ q.page = w.asked.page
      BY <1>1, <3>1, ParsedFields
    <3> HIDE DEF q
    <3>3. <<>> \in Seq(Nat)
      OBVIOUS
    <3> QED
      BY <3>2, <3>3, CountedPage
  <2>6. CASE w.handler \in Sorted
    <3>1. w.handler \notin Unordered /\ w.handler \notin Whole /\ w.handler \notin Grouping
      BY <2>6 DEF Sorted, Public, OfOneVendor, Unordered, Whole, Grouping
    <3>2. PICK full \in Listing(w.handler, S, q) : a = Counted(full, q)
      <4>1. Served(w.handler, w.asked) = {Counted(rows0, q) : rows0 \in Listing(w.handler, S, q)}
        BY <2>1, <2>6, SortedAnswers
      <4> QED
        BY <1>3, <4>1
    <3>3. full \in Seq(Ids)
      BY <1>1, <2>6, <3>2, FullTimesType
    <3>4. a = Counted(full, q)
      BY <3>2
    <3>5. full \in Seq(Nat)
      BY <3>3, IdsAreNat, SeqMonotonic
    <3>6. PICK page : page = PageOf(full, q)
      OBVIOUS
    <3>7. rows = page /\ a.rows = page
      BY <2>3, <3>1, <3>4, <3>6 DEF Noted, Counted
    <3>8. page \in Seq(Nat)
      BY <2>5, <3>5, <3>6, PageRows
    <3>9. Turned(w, w2, page, last) /\ InStep(w2, S) /\ w2.handler = w.handler
      BY <2>4, <3>7, <3>8 DEF Turned
    <3>10. SeenInOrder(w2, S) /\ Shifted(w2, S) /\ ReachesTheEnd(w2, S)
      BY <1>1, <2>1, <2>2, <2>6, <3>2, <3>4, <3>6, <3>8, <3>9, TurnSorted
    <3>11. SeenInAnyOrder(w2, S)
      BY <3>1, <3>9 DEF SeenInAnyOrder
    <3> QED
      BY <3>9, <3>10, <3>11 DEF WalkInv
  <2>7. CASE w.handler \in Unordered
    <3>1. /\ w.handler \notin Sorted /\ w.handler \notin Grouping
          /\ w.handler \notin Public \cup OfOneVendor
      BY <2>7 DEF Sorted, Public, OfOneVendor, Unordered, Grouping
    <3>2. PICK full \in AnyOrder(S) : a = Counted(full, q)
      <4>1. CASE w.handler = "getOptionTypes"
        BY <1>1, <1>3, <2>1, <2>7, <3>1, <4>1, OtherAnswers
      <4>2. CASE w.handler = "getAuditLogs"
        <5>1. a \in Pages(OrderedBy(S, Owner, Descending(q)), q)
          BY <1>1, <1>3, <2>1, <2>7, <3>1, <4>2, OtherAnswers DEF GetAuditLogs
        <5>2. PICK full \in OrderedBy(S, Owner, Descending(q)) : a = Counted(full, q)
          BY <5>1 DEF Pages
        <5> QED
          BY <5>2, OrderedByMeans
      <4> QED
        BY <2>7, <4>1, <4>2 DEF Unordered
    <3>3. full \in Seq(S) /\ IsInjective(full)
      BY <1>1, AnyOrderType
    <3>4. PICK page : page = PageOf(full, q)
      OBVIOUS
    <3>5. a.rows = page /\ rows = Enumeration(Range(page), Increasing(Ids))
      BY <2>3, <2>7, <3>2, <3>4 DEF Noted, Counted
    <3>6. page \in Seq(S) /\ IsInjective(page)
      BY <2>5, <3>3, <3>4, PageRows, InjectivePage
    <3>7. rows \in Seq(Nat)
      BY <1>1, <3>5, <3>6, NotedRows
    <3>8. Turned(w, w2, rows, last) /\ InStep(w2, S) /\ w2.handler = w.handler
      BY <2>4, <3>7 DEF Turned
    <3>9. SeenInAnyOrder(w2, S) /\ ReachesTheEnd(w2, S)
      BY <1>1, <2>1, <2>2, <2>7, <3>2, <3>4, <3>5, <3>7, <3>8, TurnUnordered
    <3>10. SeenInOrder(w2, S) /\ Shifted(w2, S)
      BY <3>1, <3>8 DEF SeenInOrder, Shifted, Definite
    <3> QED
      BY <3>8, <3>9, <3>10 DEF WalkInv
  <2>8. CASE w.handler \in Whole
    <3>1. /\ w.handler \notin Sorted \cup Unordered /\ w.handler \notin Grouping
          /\ w.handler \notin Public \cup OfOneVendor
      BY <2>8 DEF Sorted, Public, OfOneVendor, Unordered, Grouping, Whole
    <3>2. PICK full \in AnyOrder(S) : a.rows = full
      BY <1>1, <1>3, <2>1, <2>8, <3>1, OtherAnswers DEF GetOrdersForUser
    <3>3. full \in Seq(S) /\ IsInjective(full)
      BY <1>1, AnyOrderType
    <3>4. rows = Enumeration(Range(full), Increasing(Ids))
      BY <2>3, <2>8, <3>2 DEF Noted
    <3>5. rows \in Seq(Nat)
      BY <1>1, <3>3, <3>4, NotedRows
    <3>6. Turned(w, w2, rows, last) /\ InStep(w2, S) /\ w2.handler = w.handler
      BY <2>4, <3>5 DEF Turned
    <3>7. SeenInAnyOrder(w2, S)
      BY <1>1, <2>8, <3>4, <3>5, <3>6, TurnWhole
    <3>8. SeenInOrder(w2, S) /\ Shifted(w2, S) /\ ReachesTheEnd(w2, S)
      BY <3>1, <3>6 DEF SeenInOrder, Shifted, Definite, ReachesTheEnd
    <3> QED
      BY <3>6, <3>7, <3>8 DEF WalkInv
  <2>9. CASE w.handler \in Grouping
    <3>1. /\ w.handler \notin Sorted \cup Unordered /\ w.handler \notin Whole
          /\ w.handler \notin Public \cup OfOneVendor
      BY <2>9 DEF Sorted, Public, OfOneVendor, Unordered, Grouping, Whole
    <3>2. PICK page : page = PageOf(ByOwner(S), q)
      OBVIOUS
    <3>3. a = [rows |-> page, metadata |-> calculateMetadata(Len(page), q)]
      BY <1>1, <1>3, <2>1, <2>9, <3>1, <3>2, OtherAnswers DEF Grouped
    <3>4. a.rows = page /\ a.metadata = calculateMetadata(Len(page), q)
      BY <3>3
    <3>5. rows = page
      BY <2>3, <3>1, <3>4 DEF Noted
    <3>6. page \in Seq(Nat)
      <4>1. ByOwner(S) \in Seq(Nat)
        BY <1>1, ByOwnerType
      <4> QED
        BY <2>5, <3>2, <4>1, PageRows
    <3>7. Turned(w, w2, page, last) /\ InStep(w2, S) /\ w2.handler = w.handler
      BY <2>4, <3>5, <3>6 DEF Turned
    <3>9. SeenInOrder(w2, S) /\ Shifted(w2, S) /\ SeenInAnyOrder(w2, S) /\ ReachesTheEnd(w2, S)
      BY <3>1, <3>7 DEF SeenInOrder, Shifted, Definite, SeenInAnyOrder, ReachesTheEnd
    <3> QED
      BY <3>7, <3>9 DEF WalkInv
  <2> QED
    BY <1>1, <2>6, <2>7, <2>8, <2>9 DEF ListHandlers
<1> QED
  BY <1>2, <1>3 DEF Read

\* Whatever changes, one row at most appears or disappears.
LEMMA ChangesKeep ==
  ASSUME ListingsInv, UNCHANGED created \/ created' = created + 1,
         \/ Add \/ \E i \in present : Show(i) \/ Hide(i) \/ Erase(i)
  PROVE  ListingsInv'
<1> DEFINE h == walk.handler
<1>1. RowsOK /\ present \subseteq Ids /\ created \in Nat
  BY ListingAssumptions DEF ListingsInv, RowsOK, Ids
<1>2. PICK rows, shownRows :
         /\ Change(rows, shownRows)
         /\ rows \subseteq 1..(created') /\ created' \in 0..MaxRows /\ shownRows \subseteq rows
         /\ h \notin Public => shownRows = {}
         /\ \/ rows = present /\ \E i \in Ids : shownRows = shown \cup {i} \/ shownRows = shown \ {i}
            \/ \E i \in Ids : i \notin present /\ rows = present \cup {i} /\ shownRows = shown
            \/ \E i \in Ids : i \in present /\ rows = present \ {i} /\ shownRows = shown \ {i}
  <2>1. CASE Add
    <3>1. Change(present \cup {created + 1}, shown)
      BY <2>1 DEF Add
    <3>2. created < MaxRows /\ created' = created + 1
      BY <2>1 DEF Add
    <3>3. created + 1 \in Ids /\ created + 1 \notin present /\ created + 1 \in 0..MaxRows
      BY <1>1, <3>2, ListingAssumptions DEF RowsOK, Ids
    <3>4. present \cup {created + 1} \subseteq 1..(created + 1)
      BY <1>1 DEF RowsOK
    <3> QED
      BY <1>1, <3>1, <3>2, <3>3, <3>4 DEF RowsOK
  <2>2. ASSUME NEW i \in present, Show(i)
        PROVE  /\ Change(present, shown \cup {i}) /\ h \in Public /\ created' = created /\ i \in Ids
               /\ shown \cup {i} \subseteq present
    BY <1>1, <2>2 DEF Show, RowsOK
  <2>3. ASSUME NEW i \in present, Hide(i)
        PROVE  /\ Change(present, shown \ {i}) /\ h \in Public /\ created' = created /\ i \in Ids
               /\ shown \ {i} \subseteq present
    BY <1>1, <2>3 DEF Hide, RowsOK
  <2>4. ASSUME NEW i \in present, Erase(i)
        PROVE  /\ Change(present \ {i}, shown \ {i}) /\ created' = created /\ i \in Ids
               /\ shown \ {i} \subseteq present \ {i} /\ (h \notin Public => shown \ {i} = {})
               /\ present \ {i} \subseteq 1..created
    BY <1>1, <2>4 DEF Erase, RowsOK
  <2> HIDE DEF h
  <2>5. CASE \E i \in present : Show(i)
    BY <1>1, <2>2, <2>5 DEF RowsOK
  <2>6. CASE \E i \in present : Hide(i)
    BY <1>1, <2>3, <2>6 DEF RowsOK
  <2>7. CASE \E i \in present : Erase(i)
    <3>1. PICK i \in present : Erase(i)
      BY <2>7
    <3>2. /\ Change(present \ {i}, shown \ {i}) /\ created' = created /\ i \in Ids
          /\ shown \ {i} \subseteq present \ {i} /\ (h \notin Public => shown \ {i} = {})
          /\ present \ {i} \subseteq 1..created
      BY <2>4, <3>1
    <3>3. created \in 0..MaxRows
      BY <1>1 DEF RowsOK
    <3> QED
      BY <3>1, <3>2, <3>3
  <2> QED
    BY <2>1, <2>5, <2>6, <2>7
<1>3. PICK w : w = walk
  OBVIOUS
<1>4. PICK w2 : w2 = walk'
  OBVIOUS
<1>5. PICK S : S = Visible(h, present, shown)
  OBVIOUS
<1>6. PICK W : W = Visible(h, rows, shownRows)
  OBVIOUS
<1>7. /\ ~w.over /\ present' = rows /\ shown' = shownRows
      /\ w2 = [w EXCEPT !.stayed = @ \cap W, !.lost = @ + Cardinality(S \ W),
                        !.gained = @ + Cardinality(W \ S)]
  BY <1>2, <1>3, <1>4, <1>5, <1>6 DEF Change
<1>8. S \subseteq Ids /\ W \subseteq Ids
  <2>1. rows \subseteq Ids /\ shownRows \subseteq Ids
    BY <1>2, ListingAssumptions DEF Ids
  <2> QED
    BY <1>1, <1>5, <1>6, <2>1, VisibleType DEF Visible
<1>9. W = S \/ (\E x \in S : W = S \ {x}) \/ (\E x \in W : S = W \ {x})
  <2>1. \A A, B, x : /\ B = A \cup {x} => B = A \/ (x \in B /\ A = B \ {x})
                     /\ B = A \ {x} => B = A \/ (x \in A /\ B = A \ {x})
    OBVIOUS
  <2>2. W = S \/ \E x : W = S \cup {x} \/ W = S \ {x}
    <3>1. CASE h \in Public
      <4>1. h \notin OfOneVendor
        BY <3>1 DEF Public, OfOneVendor
      <4>2. S = shown /\ W = shownRows
        BY <1>5, <1>6, <3>1, <4>1 DEF Visible
      <4> QED
        BY <1>2, <4>2
    <3>2. CASE h \notin Public /\ h \in OfOneVendor
      <4>1. S = {i \in present : Owner[i] = Vendor} /\ W = {i \in rows : Owner[i] = Vendor}
        BY <1>5, <1>6, <3>2 DEF Visible
      <4>2. CASE rows = present
        BY <4>1, <4>2
      <4>3. ASSUME NEW i, rows = present \cup {i}
            PROVE  W = S \/ W = S \cup {i}
        BY <4>1, <4>3
      <4>4. ASSUME NEW i, rows = present \ {i}
            PROVE  W = S \ {i}
        BY <4>1, <4>4
      <4> QED
        BY <1>2, <4>2, <4>3, <4>4
    <3>3. CASE h \notin Public /\ h \notin OfOneVendor
      <4>1. S = present /\ W = rows
        BY <1>5, <1>6, <3>3 DEF Visible
      <4> QED
        BY <1>2, <4>1
    <3> QED
      BY <3>1, <3>2, <3>3
  <2>3. CASE W = S
    BY <2>3
  <2>4. ASSUME NEW x, W = S \cup {x} \/ W = S \ {x}
        PROVE  W = S \/ (\E y \in S : W = S \ {y}) \/ (\E y \in W : S = W \ {y})
    <3>1. W = S \/ (x \in W /\ S = W \ {x}) \/ (x \in S /\ W = S \ {x})
      BY <2>1, <2>4
    <3> QED
      BY <3>1
  <2> QED
    BY <2>2, <2>3, <2>4
<1>10. WalkInv(w, S)
  BY <1>3, <1>5 DEF ListingsInv
<1>11. WalkInv(w2, W)
  BY <1>7, <1>8, <1>9, <1>10, ChangeKeeps
<1>12. w2.handler = h
  BY <1>3, <1>7, <1>10 DEF WalkInv, InStep, Walks
<1>13. Visible(walk'.handler, present', shown') = W
  BY <1>4, <1>6, <1>7, <1>12
<1>14. WalkInv(walk', Visible(walk'.handler, present', shown'))
  BY <1>4, <1>11, <1>13
<1>15. RowsOK'
  BY <1>2, <1>4, <1>7, <1>12 DEF RowsOK
<1> QED
  BY <1>14, <1>15 DEF ListingsInv

LEMMA InitListingsInv == ListingsInit => ListingsInv
<1> SUFFICES ASSUME ListingsInit PROVE ListingsInv
  OBVIOUS
<1>1. PICK h \in ListHandlers, a \in Asks :
        /\ h \notin Public => shown = {}
        /\ walk = [handler |-> h, asked |-> a, seen |-> <<>>, pages |-> 0, over |-> FALSE,
                   stayed |-> Visible(h, present, shown), lost |-> 0, gained |-> 0]
  BY DEF ListingsInit
<1>2. RowsOK
  BY <1>1, ListingAssumptions DEF ListingsInit, RowsOK
<1>3. PICK S : S = Visible(h, present, shown)
  OBVIOUS
<1>4. S \subseteq Ids
  BY <1>2, <1>3, VisibleType
<1>5. PICK w : w = walk
  OBVIOUS
<1>6. /\ w.handler = h /\ w.asked = a /\ w.seen = <<>> /\ w.pages = 0 /\ w.over = FALSE
      /\ w.stayed = S /\ w.lost = 0 /\ w.gained = 0
  BY <1>1, <1>3, <1>5
<1>7. w \in Walks
  <2>1. a \in [page : Nat, size : Sizes, sort : Sorts \cup {"", "price"}]
    <3>1. a \in Asks
      BY <1>1
    <3>2. a \in [page : {1}, size : Sizes, sort : Sorts \cup {"", "price"}]
      BY <3>1 DEF Asks
    <3>3. a = [page |-> a.page, size |-> a.size, sort |-> a.sort]
      BY <3>2
    <3>4. a.page = 1 /\ a.size \in Sizes
      BY <3>2
    <3>5. a.sort \in Sorts \cup {"", "price"}
      BY <3>2
    <3>6. \A p \in Nat, z \in Sizes, t \in Sorts \cup {"", "price"} :
            [page |-> p, size |-> z, sort |-> t]
              \in [page : Nat, size : Sizes, sort : Sorts \cup {"", "price"}]
      OBVIOUS
    <3>7. a.page \in Nat
      BY <3>4
    <3> QED
      BY <3>3, <3>4, <3>5, <3>6, <3>7, Zenon
  <2>2. <<>> \in Seq(Nat) /\ S \in SUBSET Ids
    BY <1>4
  <2>3. w = [handler |-> h, asked |-> a, seen |-> <<>>, pages |-> 0, over |-> FALSE,
             stayed |-> S, lost |-> 0, gained |-> 0]
    BY <1>1, <1>3, <1>5
  <2> QED
    BY <1>1, <2>1, <2>2, <2>3 DEF Walks
<1>8. w.asked.page = 1 /\ w.asked.size \in Nat
  BY <1>6, ListingAssumptions DEF Asks
<1>9. InStep(w, S)
  BY <1>6, <1>7, <1>8 DEF InStep
<1>10. Come(w) = 0
  BY <1>6, <1>8 DEF Come
<1>11. SeenInOrder(w, S)
  <2> SUFFICES ASSUME w.handler \in Sorted
               PROVE  /\ <<>> \in Seq(Ids)
                      /\ CreationTimes(w.handler, <<>>) = SubSeq(FullTimes(w, S), 1, 0)
    <3>1. w.handler \in Sorted => Shorter(0, Len(FullTimes(w, S))) = 0
      BY <1>4, FullTimesType DEF Shorter
    <3> QED
      BY <1>6, <1>10, <3>1 DEF SeenInOrder
  <2>1. CreationTimes(w.handler, <<>>) = <<>>
    BY DEF CreationTimes
  <2>2. SubSeq(FullTimes(w, S), 1, 0) = <<>>
    BY SubSeqEmpty
  <2>3. <<>> \in Seq(Ids)
    OBVIOUS
  <2> QED
    BY <2>1, <2>2, <2>3
<1>12. Range(w.seen) = {} /\ Len(w.seen) = 0
  BY <1>6 DEF Range
<1>13. Shifted(w, S)
  <2>1. Cardinality({}) = 0
    BY FS_EmptySet
  <2>2. \A x \in S : ~(Rank(x, S, OrderAsked(w)) < 0)
    BY <1>4, IdsFinite, RankGrows
  <2>3. Missed(S, OrderAsked(w), 0, S, {}) = {} /\ SeenAhead(S, OrderAsked(w), 0, {}) = {}
    BY <2>2 DEF Missed, SeenAhead, Behind
  <2>4. /\ Cardinality(Missed(S, OrderAsked(w), Come(w), w.stayed, Range(w.seen))) = 0
        /\ Cardinality(SeenAhead(S, OrderAsked(w), Come(w), Range(w.seen))) = 0
        /\ Cardinality(Range(w.seen)) = 0
    BY <1>6, <1>10, <1>12, <2>1, <2>3
  <2> QED
    BY <1>6, <1>12, <2>4 DEF Shifted
<1>14. ReachesTheEnd(w, S)
  BY <1>6 DEF ReachesTheEnd
<1>15. SeenInAnyOrder(w, S)
  <2>1. Cardinality(S) \in Nat
    BY <1>4, IdsFinite
  <2>2. Shorter(0, Cardinality(S)) = 0 /\ 0 * Cardinality(S) = 0
    BY <2>1 DEF Shorter
  <2> QED
    BY <1>6, <1>10, <1>12, <2>2 DEF SeenInAnyOrder
<1>16. WalkInv(w, S)
  BY <1>9, <1>11, <1>13, <1>14, <1>15 DEF WalkInv
<1> QED
  BY <1>1, <1>2, <1>3, <1>5, <1>6, <1>16 DEF ListingsInv

LEMMA NextListingsInv == ListingsInv /\ [ListingsNext]_listingVars => ListingsInv'
<1> SUFFICES ASSUME ListingsInv, [ListingsNext]_listingVars PROVE ListingsInv'
  OBVIOUS
<1>1. CASE Read
  <2>1. PICK w : w = walk
    OBVIOUS
  <2>2. PICK S : S = Visible(walk.handler, present, shown)
    OBVIOUS
  <2>3. PICK w2 : w2 = walk'
    OBVIOUS
  <2>4. WalkInv(w2, S)
    BY <1>1, <2>1, <2>2, <2>3, ReadKeeps
  <2>5. UNCHANGED <<created, present, shown>>
    BY <1>1 DEF Read
  <2>6. w2.handler = w.handler
    <3>1. w \in Walks
      BY <2>1 DEF ListingsInv, WalkInv, InStep
    <3> QED
      BY <1>1, <2>1, <2>3, <3>1 DEF Read, Walks
  <2>7. Visible(walk'.handler, present', shown') = S
    BY <2>1, <2>2, <2>3, <2>5, <2>6
  <2>8. WalkInv(walk', Visible(walk'.handler, present', shown'))
    BY <2>3, <2>4, <2>7
  <2>9. RowsOK'
    BY <2>1, <2>3, <2>5, <2>6 DEF ListingsInv, RowsOK
  <2> QED
    BY <2>8, <2>9 DEF ListingsInv
<1>2. CASE Add
  BY <1>2, ChangesKeep DEF Add
<1>3. CASE \E i \in present : Show(i) \/ Hide(i) \/ Erase(i)
  BY <1>3, ChangesKeep DEF Show, Hide, Erase
<1>4. CASE UNCHANGED listingVars
  <2>1. RowsOK' /\ walk' = walk /\ present' = present /\ shown' = shown
    BY <1>4 DEF listingVars, ListingsInv, RowsOK
  <2> QED
    BY <2>1 DEF ListingsInv
<1> QED
  BY <1>1, <1>2, <1>3, <1>4 DEF ListingsNext

LEMMA ListingsInvariance == ListingsSpec => []ListingsInv
BY InitListingsInv, NextListingsInv, PTL DEF ListingsSpec

\* A walk through a listing in order of creation shows, while nothing changes, the
\* whole listing; where no two rows tie, it misses and repeats rows only for rows
\* that others removed and added meanwhile (calculateMetadata, Offset, LIMIT and
\* OFFSET).
THEOREM SortedWalksHold == ListingsSpec => []SortedWalks
<1>1. ListingsInv => SortedWalks
  <2> SUFFICES ASSUME ListingsInv PROVE SortedWalks
    OBVIOUS
  <2>1. PICK w : w = walk
    OBVIOUS
  <2>2. PICK S : S = Visible(walk.handler, present, shown)
    OBVIOUS
  <2>3. RowsOK /\ WalkInv(w, S) /\ InStep(w, S) /\ w \in Walks /\ S \subseteq Ids
    BY <2>1, <2>2, VisibleType DEF ListingsInv, WalkInv, InStep
  <2>4. ListingsTypeOK
    <3>1. S \subseteq present
      BY <2>2, <2>3 DEF Visible, RowsOK
    <3>2. PermittedValue(Parsed(w.asked).sort)
      BY <2>3 DEF Parsed, PermittedValue, Sorts, Walks
    <3>3. /\ w.handler \in ListHandlers /\ w.seen \in Seq(Nat) /\ w.lost \in Nat /\ w.gained \in Nat
          /\ w.over \in BOOLEAN
      BY <2>3 DEF Walks
    <3> QED
      BY <2>1, <2>3, <3>1, <3>2, <3>3 DEF ListingsTypeOK, RowsOK, InStep
  <2>5. ASSUME Finished(Sorted)
        PROVE  /\ Come(w) >= Len(FullTimes(w, S)) /\ Come(w) \in Nat /\ w.handler \in Sorted
               /\ Len(FullTimes(w, S)) \in Nat /\ FullTimes(w, S) \in Seq(Nat)
               /\ w.handler \notin OfOneVendor => Len(FullTimes(w, S)) = Cardinality(S)
    <3>1. Come(w) \in Nat
      <4>1. w.pages \in Nat /\ w.asked.size \in Nat
        BY <2>3, ListingAssumptions DEF Walks
      <4> QED
        BY <4>1, Times DEF Come
    <3> QED
      BY <2>1, <2>3, <2>5, <3>1, FullTimesType DEF Finished, WalkInv, ReachesTheEnd
  <2>6. WalkExact
    <3> SUFFICES ASSUME Finished(Sorted), Undisturbed,
                        NEW rows \in Listing(w.handler, w.stayed, Parsed(w.asked))
                 PROVE  /\ CreationTimes(w.handler, w.seen) = CreationTimes(w.handler, rows)
                        /\ Definite(w.handler) => w.seen = rows
      BY <2>1 DEF WalkExact
    <3>1. Quiet(w) /\ w.stayed = S
      BY <2>1, <2>3 DEF Undisturbed, Quiet, InStep
    <3>2. PICK times : times = FullTimes(w, S)
      OBVIOUS
    <3>3. CreationTimes(w.handler, w.seen) = SubSeq(times, 1, Shorter(Come(w), Len(times)))
      BY <2>3, <2>5, <3>1, <3>2 DEF WalkInv, SeenInOrder
    <3>4. Shorter(Come(w), Len(times)) = Len(times) /\ times \in Seq(Nat)
      BY <2>5, <3>2 DEF Shorter
    <3>5. CreationTimes(w.handler, w.seen) = times
      BY <3>3, <3>4, SubSeqFull
    <3>6. rows \in Seq(Ids) /\ CreationTimes(w.handler, rows) = times
      BY <2>3, <2>5, <3>1, <3>2, FullTimesType
    <3>7. ASSUME Definite(w.handler) PROVE w.seen = rows
      <4>1. w.seen \in Seq(Ids)
        BY <2>3, <2>5 DEF WalkInv, SeenInOrder
      <4> QED
        BY <3>5, <3>6, <3>7, <4>1, SameTimesSameRows
    <3> QED
      BY <3>5, <3>6, <3>7
  <2>7. ASSUME Finished(Sorted), Definite(walk.handler)
        PROVE  /\ Cardinality(walk.stayed \ Range(walk.seen)) <= walk.lost
               /\ Len(walk.seen) - Cardinality(Range(walk.seen)) <= walk.gained
    <3>1. Definite(w.handler) /\ w.handler \notin OfOneVendor
      BY <2>1, <2>7 DEF Definite
    <3>2. PICK R : R = OrderAsked(w)
      OBVIOUS
    <3>3. PICK m : m = Come(w)
      OBVIOUS
    <3>4. m \in Nat /\ m >= Cardinality(S) /\ IsFiniteSet(S) /\ Orders(R, S) /\ Cardinality(S) \in Nat
      BY <2>3, <2>5, <2>7, <3>1, <3>2, <3>3, DefiniteOrders, IdsFinite
    <3>5. Behind(S, R, m) = S
      BY <3>4, RankType DEF Behind
    <3>6. /\ Missed(S, R, m, w.stayed, Range(w.seen)) = w.stayed \ Range(w.seen)
          /\ SeenAhead(S, R, m, Range(w.seen)) = {}
      BY <2>3, <3>5 DEF Missed, SeenAhead, InStep
    <3>7. Cardinality({}) = 0
      BY FS_EmptySet
    <3>8. Len(w.seen) \in Nat /\ Cardinality(Range(w.seen)) \in Nat
      <4>1. w.seen \in Seq(Nat)
        BY <2>3 DEF Walks
      <4> QED
        BY <4>1, RangeFinite, LenProperties
    <3>9. /\ Cardinality(Missed(S, R, m, w.stayed, Range(w.seen))) <= w.lost
          /\ Len(w.seen) - Cardinality(Range(w.seen))
               + Cardinality(SeenAhead(S, R, m, Range(w.seen))) <= w.gained
      BY <2>3, <3>1, <3>2, <3>3 DEF WalkInv, Shifted
    <3> QED
      BY <2>1, <3>6, <3>7, <3>8, <3>9
  <2> QED
    BY <2>4, <2>6, <2>7 DEF SortedWalks, MissedAtMostLost, RepeatedAtMostGained
<1> QED
  BY <1>1, ListingsInvariance, PTL

\* A walk through rows that do not change shows as many rows as there are when
\* their order is not definite (GetAll, GetAuditLogs), and all of them on every
\* page without LIMIT (GetOrdersForUser).
THEOREM UnsortedWalksHold == ListingsSpec => []UnsortedWalkCounts
<1>1. ListingsInv => UnsortedWalkCounts
  <2> SUFFICES ASSUME ListingsInv PROVE UnsortedWalkCounts
    OBVIOUS
  <2>1. PICK w : w = walk
    OBVIOUS
  <2>2. PICK S : S = Visible(walk.handler, present, shown)
    OBVIOUS
  <2>3. RowsOK /\ WalkInv(w, S) /\ InStep(w, S) /\ w \in Walks /\ S \subseteq Ids
    BY <2>1, <2>2, VisibleType DEF ListingsInv, WalkInv, InStep
  <2>4. ASSUME Undisturbed PROVE Quiet(w) /\ w.stayed = S
    BY <2>1, <2>3, <2>4 DEF Undisturbed, Quiet, InStep
  <2>5. ASSUME Undisturbed, Finished(Unordered) PROVE Len(w.seen) = Cardinality(w.stayed)
    <3>1. w.handler \in Unordered /\ w.over /\ w.pages > 0
      BY <2>1, <2>5 DEF Finished
    <3>2. Come(w) >= Cardinality(S) /\ Cardinality(S) \in Nat
      BY <2>3, <3>1, IdsFinite DEF WalkInv, ReachesTheEnd
    <3>3. Come(w) \in Nat
      <4>1. w.pages \in Nat /\ w.asked.size \in Nat
        BY <2>3, ListingAssumptions DEF Walks
      <4> QED
        BY <4>1, Times DEF Come
    <3>4. Len(w.seen) = Shorter(Come(w), Cardinality(S))
      BY <2>3, <2>4, <2>5, <3>1 DEF WalkInv, SeenInAnyOrder
    <3> QED
      BY <2>4, <2>5, <3>2, <3>3, <3>4 DEF Shorter
  <2>6. ASSUME Undisturbed, Finished(Whole)
        PROVE  Len(w.seen) = w.pages * Cardinality(w.stayed)
    BY <2>1, <2>3, <2>4, <2>6 DEF Finished, WalkInv, SeenInAnyOrder
  <2> QED
    BY <2>1, <2>5, <2>6 DEF UnsortedWalkCounts
<1> QED
  BY <1>1, ListingsInvariance, PTL
=============================================================================
