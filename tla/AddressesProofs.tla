--------------------------- MODULE AddressesProofs ---------------------------
(***************************************************************************)
(* The default addresses of a user, for any addresses and any number of    *)
(* transactions that overlap.                                              *)
(***************************************************************************)
EXTENDS Addresses, FiniteSetTheorems, TLAPS

\* An open transaction.
Open == [at : {"clear", "clearing", "set", "commit"}, op : {"create", "set"},
         address : AddressIds, type : AddressTypes, isDefault : BOOLEAN,
         writes : Writes, todo : SUBSET AddressIds]

\* What a transaction w sees of b, over the committed rows r; and the defaults
\* of a type that it sees.
SeenBy(w, r, b) == IF b \in DOMAIN w.writes THEN w.writes[b] ELSE r[b]

DefaultsBy(w, r, type) == {b \in AddressIds : TypeOf[b] = type /\ SeenBy(w, r, b) = TRUE}

DefaultsIn(r, type) == {b \in AddressIds : TypeOf[b] = type /\ r[b] = TRUE}

AtMostOne(S) == \A a, b \in S : a = b

\* Changing the default writes rows of the type it is for, and commits only
\* after it has set one of them.
OfItsType(w) ==
  /\ \A b \in w.todo : TypeOf[b] = w.type
  /\ w.op = "set" => \A b \in DOMAIN w.writes : TypeOf[b] = w.type
  /\ w.op = "set" /\ w.at = "commit" =>
       w.address \in DOMAIN w.writes /\ w.writes[w.address] = TRUE
  /\ w.at = "set" => w.op = "set"

WritesOfType == \A t \in Transactions : trx[t] # None => OfItsType(trx[t])

\* What is so as long as no two transactions have been open at once.
Alone ==
  \A t, u \in Transactions : trx[t] # None /\ trx[u] # None => t = u

\* An only transaction clears every default of its type before it sets its own.
InOrder(w, r) ==
  /\ w.at # "commit" => \A type \in AddressTypes \ {w.type} :
                          DefaultsBy(w, r, type) \subseteq DefaultsIn(r, type)
  /\ w.at = "clearing" => DefaultsBy(w, r, w.type) \subseteq w.todo
  /\ w.at = "set" => DefaultsBy(w, r, w.type) = {}
  /\ w.at = "commit" => \A type \in AddressTypes : AtMostOne(DefaultsBy(w, r, type))

OneByOne ==
  ~overlapped =>
    /\ Alone
    /\ \A type \in AddressTypes : AtMostOne(DefaultsIn(row, type))
    /\ \A t \in Transactions : trx[t] # None => InOrder(trx[t], row)

IInv == TypeOK /\ WritesOfType /\ OneByOne

-----------------------------------------------------------------------------
(* Sets of at most one element, and the writes of a transaction.           *)

LEMMA OneIsOne ==
  ASSUME NEW S \in SUBSET AddressIds
  PROVE  AtMostOne(S) <=> Cardinality(S) <= 1
<1>1. IsFiniteSet(S)
  BY AddressAssumptions, FS_Subset
<1>2. ASSUME AtMostOne(S) PROVE Cardinality(S) <= 1
  <2>1. CASE S = {}
    BY <2>1, FS_EmptySet
  <2>2. ASSUME NEW a \in S PROVE Cardinality(S) <= 1
    <3>1. S = {} \cup {a}
      BY <1>2, <2>2 DEF AtMostOne
    <3>2. Cardinality({} \cup {a}) = Cardinality({}) + 1 /\ Cardinality({}) = 0
      BY FS_EmptySet, FS_AddElement
    <3> QED
      BY <3>1, <3>2
  <2> QED
    BY <2>1, <2>2
<1>3. ASSUME Cardinality(S) <= 1, NEW a \in S, NEW b \in S PROVE a = b
  <2> SUFFICES ASSUME a # b PROVE FALSE
    OBVIOUS
  <2>1. IsFiniteSet(S \ {a}) /\ Cardinality(S \ {a}) = Cardinality(S) - 1
    BY <1>1, FS_RemoveElement
  <2>2. b \in S \ {a}
    OBVIOUS
  <2>3. Cardinality((S \ {a}) \ {b}) = Cardinality(S \ {a}) - 1
        /\ IsFiniteSet((S \ {a}) \ {b})
    BY <2>1, <2>2, FS_RemoveElement
  <2>4. Cardinality((S \ {a}) \ {b}) \in Nat /\ Cardinality(S) \in Nat
    BY <1>1, <2>3, FS_CardinalityType
  <2> QED
    BY <1>3, <2>1, <2>3, <2>4
<1> QED
  BY <1>2, <1>3 DEF AtMostOne

LEMMA WritesType ==
  /\ \A f : f \in Writes <=> \E S \in SUBSET AddressIds : f \in [S -> BOOLEAN]
  /\ \A f \in Writes : DOMAIN f \in SUBSET AddressIds /\ \A a \in DOMAIN f : f[a] \in BOOLEAN
BY DEF Writes

LEMMA OneMoreWrite ==
  ASSUME NEW f \in Writes, NEW a \in AddressIds, NEW g,
         \/ g = [b \in DOMAIN f \cup {a} |-> IF b = a THEN TRUE ELSE f[b]]
         \/ g = [b \in DOMAIN f \cup {a} |-> IF b = a THEN FALSE ELSE f[b]]
  PROVE  g \in Writes
<1>1. DOMAIN f \in SUBSET AddressIds /\ \A b \in DOMAIN f : f[b] \in BOOLEAN
  BY WritesType
<1>2. g \in [DOMAIN f \cup {a} -> BOOLEAN]
  BY <1>1
<1> QED
  BY <1>1, <1>2, WritesType

LEMMA OneWrite ==
  ASSUME NEW a \in AddressIds, NEW v \in BOOLEAN
  PROVE  [b \in {a} |-> v] \in Writes /\ [b \in {} |-> v] \in Writes
<1>1. [b \in {a} |-> v] \in [{a} -> BOOLEAN] /\ [b \in {} |-> v] \in [{} -> BOOLEAN]
  OBVIOUS
<1>2. {a} \in SUBSET AddressIds /\ {} \in SUBSET AddressIds
  OBVIOUS
<1> QED
  BY <1>1, <1>2, WritesType

LEMMA OpenNotNone == None \notin Open
BY DEF None, Open

-----------------------------------------------------------------------------
(* The steps of a transaction on its record.                               *)

LEMMA GoesTo ==
  ASSUME NEW w \in Open, NEW place \in {"clear", "clearing", "set", "commit"}
  PROVE  /\ [w EXCEPT !.at = place] \in Open
         /\ [w EXCEPT !.at = place].at = place
         /\ [w EXCEPT !.at = place].op = w.op
         /\ [w EXCEPT !.at = place].address = w.address
         /\ [w EXCEPT !.at = place].type = w.type
         /\ [w EXCEPT !.at = place].writes = w.writes
         /\ [w EXCEPT !.at = place].todo = w.todo
BY DEF Open

LEMMA Finds ==
  ASSUME NEW w \in Open, NEW S \in SUBSET AddressIds
  PROVE  LET v == [w EXCEPT !.at = "clearing", !.todo = S]
         IN /\ v \in Open /\ v.at = "clearing" /\ v.op = w.op /\ v.address = w.address
            /\ v.type = w.type /\ v.writes = w.writes /\ v.todo = S
BY DEF Open

LEMMA Clears ==
  ASSUME NEW w \in Open, NEW S \in SUBSET AddressIds, NEW f \in Writes
  PROVE  LET v == [w EXCEPT !.todo = S, !.writes = f]
         IN /\ v \in Open /\ v.at = w.at /\ v.op = w.op /\ v.address = w.address
            /\ v.type = w.type /\ v.writes = f /\ v.todo = S
BY DEF Open

LEMMA Sets ==
  ASSUME NEW w \in Open, NEW f \in Writes
  PROVE  LET v == [w EXCEPT !.at = "commit", !.writes = f]
         IN /\ v \in Open /\ v.at = "commit" /\ v.op = w.op /\ v.address = w.address
            /\ v.type = w.type /\ v.writes = f /\ v.todo = w.todo
BY DEF Open

-----------------------------------------------------------------------------
(* One step: t moves from its record to w, or ends.                        *)

OnlyMoves(t, w) ==
  /\ trx' \in [Transactions -> {None} \cup Open]
  /\ trx'[t] = w
  /\ \A u \in Transactions : u # t => trx'[u] = trx[u]

LEMMA Moves ==
  ASSUME TypeOK, NEW t \in Transactions, NEW w \in {None} \cup Open,
         trx' = [trx EXCEPT ![t] = w]
  PROVE  OnlyMoves(t, w)
BY DEF OnlyMoves, TypeOK, Open

\* A transaction that goes on.
LEMMA GoOn ==
  ASSUME IInv, NEW t \in Transactions, trx[t] # None, NEW w \in Open, OnlyMoves(t, w),
         UNCHANGED <<row, overlapped>>, OfItsType(w),
         ~overlapped => InOrder(w, row)
  PROVE  IInv'
<1> USE DEF OnlyMoves
<1>1. TypeOK'
  BY DEF IInv, TypeOK, Open
<1>2. WritesOfType'
  BY DEF IInv, WritesOfType
<1>3. OneByOne'
  <2> SUFFICES ASSUME ~overlapped
               PROVE  /\ Alone' /\ \A type \in AddressTypes : AtMostOne(DefaultsIn(row, type))
                      /\ \A u \in Transactions : trx'[u] # None => InOrder(trx'[u], row)
    BY DEF OneByOne
  <2>1. Alone /\ \A type \in AddressTypes : AtMostOne(DefaultsIn(row, type))
    BY DEF IInv, OneByOne
  <2>2. \A u \in Transactions : trx'[u] # None => trx[u] # None
    OBVIOUS
  <2>3. Alone'
    BY <2>1, <2>2 DEF Alone
  <2>4. \A u \in Transactions : trx'[u] # None => u = t
    BY <2>1, <2>2 DEF Alone
  <2> QED
    BY <2>1, <2>3, <2>4
<1> QED
  BY <1>1, <1>2, <1>3 DEF IInv

LEMMA RowType ==
  ASSUME TypeOK, NEW a \in AddressIds
  PROVE  row[a] \in BOOLEAN \cup {Absent}
BY DEF TypeOK

LEMMA BeginStep ==
  ASSUME IInv, NEW t \in Transactions, NEW op \in {"create", "set"}, NEW a \in AddressIds,
         NEW type \in AddressTypes, NEW isDefault \in BOOLEAN,
         NEW place \in {"clear", "commit"}, NEW writes \in Writes,
         Begin(t, op, a, type, isDefault, place, writes),
         op = "set" => place = "clear" /\ writes = [b \in {} |-> TRUE],
         op = "create" => /\ writes = [b \in {a} |-> isDefault] /\ type = TypeOf[a]
                          /\ isDefault <=> place = "clear"
  PROVE  IInv'
<1>1. PICK w : w = [at |-> place, op |-> op, address |-> a, type |-> type,
                    isDefault |-> isDefault, writes |-> writes, todo |-> {}]
  OBVIOUS
<1>2. w \in Open
  BY <1>1 DEF Open
<1>3. /\ w.at = place /\ w.op = op /\ w.address = a /\ w.type = type /\ w.writes = writes
      /\ w.todo = {}
  BY <1>1
<1>4. trx' = [trx EXCEPT ![t] = w] /\ trx[t] = None /\ row' = row
      /\ overlapped' = (overlapped \/ \E u \in Transactions : trx[u] # None)
  BY <1>1 DEF Begin
<1>5. OnlyMoves(t, w)
  BY <1>2, <1>4, Moves DEF IInv
<1>6. TypeOK'
  BY <1>4, <1>5 DEF OnlyMoves, IInv, TypeOK, Open
<1>7. OfItsType(w)
  BY <1>3 DEF OfItsType
<1>8. WritesOfType'
  BY <1>5, <1>7 DEF OnlyMoves, IInv, WritesOfType
<1>9. OneByOne'
  <2> SUFFICES ASSUME ~overlapped'
               PROVE  /\ Alone' /\ \A k \in AddressTypes : AtMostOne(DefaultsIn(row, k))
                      /\ \A u \in Transactions : trx'[u] # None => InOrder(trx'[u], row)
    BY <1>4 DEF OneByOne
  <2>1. ~overlapped /\ \A u \in Transactions : trx[u] = None
    BY <1>4 DEF IInv, TypeOK
  <2>2. \A k \in AddressTypes : AtMostOne(DefaultsIn(row, k))
    BY <2>1 DEF IInv, OneByOne
  <2>3. \A u \in Transactions : trx'[u] # None => u = t
    BY <1>5, <2>1 DEF OnlyMoves
  <2>4. Alone'
    BY <2>3 DEF Alone
  <2>5. ASSUME NEW k \in AddressTypes, k # type \/ (op = "create" /\ ~isDefault)
        PROVE  DefaultsBy(w, row, k) \subseteq DefaultsIn(row, k)
    <3> SUFFICES ASSUME NEW b \in AddressIds, TypeOf[b] = k, SeenBy(w, row, b) = TRUE
                 PROVE  row[b] = TRUE
      BY DEF DefaultsBy, DefaultsIn
    <3>1. CASE op = "set"
      BY <1>3, <3>1 DEF SeenBy
    <3>2. CASE op = "create"
      BY <1>3, <2>5, <3>2 DEF SeenBy
    <3> QED
      BY <3>1, <3>2
  <2>6. InOrder(w, row)
    <3>1. CASE place = "clear"
      BY <1>3, <2>5, <3>1 DEF InOrder
    <3>2. CASE place = "commit"
      <4>1. op = "create" /\ ~isDefault
        BY <3>2
      <4> QED
        BY <1>3, <2>2, <2>5, <3>2, <4>1 DEF InOrder, AtMostOne
    <3> QED
      BY <3>1, <3>2
  <2> QED
    BY <1>5, <2>2, <2>3, <2>4, <2>6 DEF OnlyMoves
<1> QED
  BY <1>6, <1>8, <1>9 DEF IInv

\* What is known of an open transaction.
LEMMA OpenParts ==
  ASSUME IInv, NEW t \in Transactions, trx[t] # None
  PROVE  /\ trx[t] \in Open /\ OfItsType(trx[t])
         /\ trx[t].writes \in Writes /\ trx[t].type \in AddressTypes
         /\ trx[t].address \in AddressIds /\ trx[t].todo \in SUBSET AddressIds
         /\ ~overlapped => InOrder(trx[t], row)
         /\ \A a : Seen(t, a) = SeenBy(trx[t], row, a)
         /\ \A a \in AddressIds : Seen(t, a) \in BOOLEAN \cup {Absent}
<1>1. trx[t] \in Open
  BY DEF IInv, TypeOK, Open
<1>2. \A a : Seen(t, a) = SeenBy(trx[t], row, a)
  BY DEF Seen, SeenBy, Locked
<1>3. trx[t].writes \in Writes /\ trx[t].type \in AddressTypes
      /\ trx[t].address \in AddressIds /\ trx[t].todo \in SUBSET AddressIds
  BY <1>1 DEF Open
<1>4. \A a \in AddressIds : SeenBy(trx[t], row, a) \in BOOLEAN \cup {Absent}
  BY <1>3, WritesType, RowType DEF SeenBy, IInv
<1> QED
  BY <1>1, <1>2, <1>3, <1>4 DEF IInv, WritesOfType, OneByOne

LEMMA AtPlaces == \A t \in Transactions : trx[t].at # "none" => trx[t] # None
BY DEF None

LEMMA ClearStep ==
  ASSUME IInv, NEW t \in Transactions, ClearAddressTypeDefault(t)
  PROVE  IInv'
<1>1. trx[t] # None /\ trx[t].at = "clear"
  BY AtPlaces DEF ClearAddressTypeDefault
<1>2. PICK v : v = trx[t]
  OBVIOUS
<1>3. PICK S : S = ToClear(t)
  OBVIOUS
<1>4. /\ v \in Open /\ OfItsType(v) /\ v.at = "clear"
      /\ ~overlapped => InOrder(v, row)
      /\ S \in SUBSET AddressIds /\ S = DefaultsBy(v, row, v.type)
  BY <1>1, <1>2, <1>3, OpenParts DEF ToClear, DefaultsBy
<1>5. PICK w : w = [v EXCEPT !.at = "clearing", !.todo = S]
  OBVIOUS
<1>6. /\ w \in Open /\ w.at = "clearing" /\ w.op = v.op /\ w.address = v.address
      /\ w.type = v.type /\ w.writes = v.writes /\ w.todo = S
  BY <1>4, <1>5, Finds
<1>7. trx' = [trx EXCEPT ![t] = w]
  BY <1>2, <1>3, <1>5 DEF ClearAddressTypeDefault, IInv, TypeOK
<1>8. OnlyMoves(t, w)
  BY <1>6, <1>7, Moves DEF IInv
<1>9. OfItsType(w)
  BY <1>4, <1>6 DEF OfItsType, DefaultsBy
<1>10. \A k : DefaultsBy(w, row, k) = DefaultsBy(v, row, k)
  BY <1>6 DEF DefaultsBy, SeenBy
<1>11. ~overlapped => InOrder(w, row)
  BY <1>4, <1>6, <1>10 DEF InOrder
<1> QED
  BY <1>1, <1>6, <1>8, <1>9, <1>11, GoOn DEF ClearAddressTypeDefault

LEMMA ClearRowStep ==
  ASSUME IInv, NEW t \in Transactions, ClearRow(t)
  PROVE  IInv'
<1>1. trx[t] # None /\ trx[t].at = "clearing"
  BY AtPlaces DEF ClearRow
<1>2. PICK v : v = trx[t]
  OBVIOUS
<1>3. PICK a \in v.todo :
        trx' = [trx EXCEPT ![t].todo = @ \ {a},
                           ![t].writes = IF Seen(t, a) THEN With(@, a, FALSE) ELSE @]
  BY <1>2 DEF ClearRow
<1>4. /\ v \in Open /\ OfItsType(v) /\ v.at = "clearing" /\ v.writes \in Writes
      /\ v.todo \in SUBSET AddressIds /\ a \in AddressIds /\ TypeOf[a] = v.type
      /\ ~overlapped => InOrder(v, row)
      /\ Seen(t, a) = SeenBy(v, row, a) /\ Seen(t, a) \in BOOLEAN \cup {Absent}
  BY <1>1, <1>2, OpenParts DEF OfItsType
<1>5. PICK f : f = IF Seen(t, a) THEN With(v.writes, a, FALSE) ELSE v.writes
  OBVIOUS
<1>6. /\ f \in Writes /\ DOMAIN f \subseteq DOMAIN v.writes \cup {a}
      /\ DOMAIN v.writes \subseteq DOMAIN f
      /\ \A b \in DOMAIN v.writes : b # a => f[b] = v.writes[b]
      /\ SeenBy(v, row, a) = TRUE => a \in DOMAIN f /\ f[a] = FALSE
      /\ SeenBy(v, row, a) # TRUE => f = v.writes \/ (a \in DOMAIN f /\ f[a] = FALSE)
  <2>1. CASE f = With(v.writes, a, FALSE)
    <3>1. v.writes \in Writes /\ a \in AddressIds
      BY <1>4
    <3>2. f = [b \in DOMAIN v.writes \cup {a} |-> IF b = a THEN FALSE ELSE v.writes[b]]
      BY <2>1 DEF With
    <3>3. f \in Writes
      BY <3>1, <3>2, OneMoreWrite
    <3> QED
      BY <3>2, <3>3
  <2>2. CASE f = v.writes /\ ~Seen(t, a)
    BY <1>4, <2>2
  <2> QED
    BY <1>5, <2>1, <2>2
<1>7. PICK S \in SUBSET AddressIds : S = v.todo \ {a}
  BY <1>4
<1>8. PICK w : w = [v EXCEPT !.todo = S, !.writes = f]
  OBVIOUS
<1>9. /\ w \in Open /\ w.at = v.at /\ w.op = v.op /\ w.address = v.address
      /\ w.type = v.type /\ w.writes = f /\ w.todo = S
  <2>1. v \in Open /\ f \in Writes
    BY <1>4, <1>6
  <2> QED
    BY <1>8, <2>1 DEF Open
<1>10. trx' = [trx EXCEPT ![t] = w]
  BY <1>2, <1>3, <1>5, <1>7, <1>8
<1>11. OnlyMoves(t, w)
  BY <1>9, <1>10, Moves DEF IInv
<1>12. OfItsType(w)
  BY <1>4, <1>6, <1>7, <1>9 DEF OfItsType
<1>13. \A k : DefaultsBy(w, row, k) \subseteq DefaultsBy(v, row, k) \ {a}
  <2> SUFFICES ASSUME NEW b \in AddressIds, SeenBy(w, row, b) = TRUE
               PROVE  b # a /\ SeenBy(v, row, b) = TRUE
    BY DEF DefaultsBy
  <2>1. CASE b = a
    BY <1>6, <1>9, <2>1 DEF SeenBy
  <2>2. CASE b # a
    BY <1>6, <1>9, <2>2 DEF SeenBy
  <2> QED
    BY <2>1, <2>2
<1>14. ~overlapped => InOrder(w, row)
  BY <1>4, <1>7, <1>9, <1>13 DEF InOrder
<1> QED
  BY <1>1, <1>9, <1>11, <1>12, <1>14, GoOn DEF ClearRow

LEMMA ClearedStep ==
  ASSUME IInv, NEW t \in Transactions, Cleared(t)
  PROVE  IInv'
<1>1. trx[t] # None /\ trx[t].at = "clearing" /\ trx[t].todo = {}
  BY AtPlaces DEF Cleared
<1>2. PICK v : v = trx[t]
  OBVIOUS
<1>3. /\ v \in Open /\ OfItsType(v) /\ v.at = "clearing" /\ v.todo = {}
      /\ ~overlapped => InOrder(v, row)
  BY <1>1, <1>2, OpenParts
<1>4. PICK place \in {"set", "commit"} : place = IF v.op = "set" THEN "set" ELSE "commit"
  OBVIOUS
<1>5. PICK w : w = [v EXCEPT !.at = place]
  OBVIOUS
<1>6. /\ w \in Open /\ w.at = place /\ w.op = v.op /\ w.address = v.address
      /\ w.type = v.type /\ w.writes = v.writes /\ w.todo = v.todo
  <2>1. place \in {"clear", "clearing", "set", "commit"}
    OBVIOUS
  <2> QED
    BY <1>3, <1>5, <2>1, GoesTo
<1>7. trx' = [trx EXCEPT ![t] = w]
  BY <1>2, <1>4, <1>5 DEF Cleared, Goto
<1>8. OnlyMoves(t, w)
  BY <1>6, <1>7, Moves DEF IInv
<1>9. OfItsType(w)
  BY <1>3, <1>4, <1>6 DEF OfItsType
<1>10. \A k : DefaultsBy(w, row, k) = DefaultsBy(v, row, k)
  BY <1>6 DEF DefaultsBy, SeenBy
<1>11. ASSUME ~overlapped PROVE InOrder(w, row)
  <2>1. /\ DefaultsBy(w, row, w.type) = {}
        /\ \A k \in AddressTypes \ {w.type} : DefaultsBy(w, row, k) \subseteq DefaultsIn(row, k)
    BY <1>3, <1>6, <1>10, <1>11 DEF InOrder
  <2>2. \A k \in AddressTypes : AtMostOne(DefaultsIn(row, k))
    BY <1>11 DEF IInv, OneByOne
  <2>3. \A k \in AddressTypes : AtMostOne(DefaultsBy(w, row, k))
    BY <2>1, <2>2 DEF AtMostOne
  <2> QED
    BY <1>4, <1>6, <2>1, <2>3 DEF InOrder
<1> QED
  BY <1>1, <1>6, <1>8, <1>9, <1>11, GoOn DEF Cleared

LEMMA SetStep ==
  ASSUME IInv, NEW t \in Transactions, SetAddressAsDefault(t)
  PROVE  IInv'
<1>1. trx[t] # None /\ trx[t].at = "set" /\ TypeOf[trx[t].address] = trx[t].type
  BY AtPlaces DEF SetAddressAsDefault
<1>2. PICK v : v = trx[t]
  OBVIOUS
<1>3. PICK a : a = v.address
  OBVIOUS
<1>4. /\ v \in Open /\ OfItsType(v) /\ v.at = "set" /\ v.writes \in Writes
      /\ a \in AddressIds /\ TypeOf[a] = v.type
      /\ ~overlapped => InOrder(v, row)
  BY <1>1, <1>2, <1>3, OpenParts
<1>5. PICK f : f = With(v.writes, a, TRUE)
  OBVIOUS
<1>6. /\ f \in Writes /\ DOMAIN f = DOMAIN v.writes \cup {a} /\ f[a] = TRUE
      /\ \A b \in DOMAIN v.writes : b # a => f[b] = v.writes[b]
  <2>1. f = [b \in DOMAIN v.writes \cup {a} |-> IF b = a THEN TRUE ELSE v.writes[b]]
    BY <1>5 DEF With
  <2>2. f \in Writes
    BY <1>4, <2>1, OneMoreWrite
  <2> QED
    BY <2>1, <2>2
<1>7. PICK w : w = [v EXCEPT !.at = "commit", !.writes = f]
  OBVIOUS
<1>8. /\ w \in Open /\ w.at = "commit" /\ w.op = v.op /\ w.address = v.address
      /\ w.type = v.type /\ w.writes = f /\ w.todo = v.todo
  BY <1>4, <1>6, <1>7, Sets
<1>9. trx' = [trx EXCEPT ![t] = w]
  BY <1>2, <1>3, <1>5, <1>7 DEF SetAddressAsDefault
<1>10. OnlyMoves(t, w)
  BY <1>8, <1>9, Moves DEF IInv
<1>11. OfItsType(w)
  BY <1>3, <1>4, <1>6, <1>8 DEF OfItsType
<1>12. ASSUME ~overlapped PROVE InOrder(w, row)
  <2>1. \A k : DefaultsBy(w, row, k) \subseteq DefaultsBy(v, row, k) \cup {a}
    BY <1>6, <1>8 DEF DefaultsBy, SeenBy
  <2>2. DefaultsBy(v, row, v.type) = {}
    BY <1>4, <1>12 DEF InOrder
  <2>3. \A k \in AddressTypes \ {v.type} :
          a \notin DefaultsBy(w, row, k) /\ DefaultsBy(v, row, k) \subseteq DefaultsIn(row, k)
    BY <1>4, <1>12 DEF InOrder, DefaultsBy
  <2>4. \A k \in AddressTypes : AtMostOne(DefaultsIn(row, k))
    BY <1>12 DEF IInv, OneByOne
  <2>5. \A k \in AddressTypes : AtMostOne(DefaultsBy(w, row, k))
    BY <2>1, <2>2, <2>3, <2>4 DEF AtMostOne
  <2> QED
    BY <1>8, <2>5 DEF InOrder
<1> QED
  BY <1>1, <1>8, <1>10, <1>11, <1>12, GoOn DEF SetAddressAsDefault

\* A transaction that ends takes nothing from the others.
LEMMA EndStep ==
  ASSUME IInv, NEW t \in Transactions, trx[t] # None, trx' = [trx EXCEPT ![t] = None],
         overlapped' = overlapped, row' \in [AddressIds -> BOOLEAN \cup {Absent}],
         ~overlapped => \A k \in AddressTypes : AtMostOne(DefaultsIn(row', k))
  PROVE  IInv'
<1>1. OnlyMoves(t, None)
  BY Moves DEF IInv
<1>2. TypeOK'
  BY <1>1 DEF OnlyMoves, IInv, TypeOK, Open
<1>3. WritesOfType'
  BY <1>1 DEF OnlyMoves, IInv, WritesOfType
<1>4. OneByOne'
  <2> SUFFICES ASSUME ~overlapped
               PROVE  /\ Alone' /\ \A k \in AddressTypes : AtMostOne(DefaultsIn(row', k))
                      /\ \A u \in Transactions : trx'[u] # None => InOrder(trx'[u], row')
    BY DEF OneByOne
  <2>1. \A u \in Transactions : trx'[u] = None
    BY <1>1 DEF OnlyMoves, IInv, OneByOne, Alone
  <2> QED
    BY <2>1 DEF Alone
<1> QED
  BY <1>2, <1>3, <1>4 DEF IInv

\* The rows that a commit leaves.
LEMMA Committed ==
  ASSUME IInv, NEW t \in Transactions, Commit(t)
  PROVE  /\ trx[t] # None /\ trx[t].at = "commit"
         /\ row' \in [AddressIds -> BOOLEAN \cup {Absent}]
         /\ \A k : DefaultsIn(row', k) = DefaultsBy(trx[t], row, k)
<1>1. trx[t] # None /\ trx[t].at = "commit"
  BY AtPlaces DEF Commit
<1>2. row' = [a \in AddressIds |-> SeenBy(trx[t], row, a)]
  BY <1>1, OpenParts DEF Commit
<1>3. row' \in [AddressIds -> BOOLEAN \cup {Absent}]
  BY <1>1, <1>2, OpenParts
<1> QED
  BY <1>1, <1>2, <1>3 DEF DefaultsIn, DefaultsBy

-----------------------------------------------------------------------------
LEMMA InitIInv == Init => IInv
<1> SUFFICES ASSUME Init PROVE IInv
  OBVIOUS
<1>1. TypeOK /\ WritesOfType
  BY DEF Init, TypeOK, WritesOfType
<1>2. Alone /\ \A t \in Transactions : trx[t] = None
  BY DEF Init, Alone
<1>3. \A k \in AddressTypes : AtMostOne(DefaultsIn(row, k))
  <2> SUFFICES ASSUME NEW k \in AddressTypes PROVE AtMostOne(DefaultsIn(row, k))
    OBVIOUS
  <2>1. Defaults(k) = DefaultsIn(row, k) /\ Defaults(k) \in SUBSET AddressIds
    BY DEF Defaults, DefaultsIn
  <2>2. Cardinality(Defaults(k)) <= 1
    BY DEF Init
  <2> QED
    BY <2>1, <2>2, OneIsOne
<1> QED
  BY <1>1, <1>2, <1>3 DEF IInv, OneByOne

LEMMA NextIInv == IInv /\ [Next]_vars => IInv'
<1> SUFFICES ASSUME IInv, [Next]_vars PROVE IInv'
  OBVIOUS
<1>1. ASSUME NEW t \in Transactions, NEW a \in AddressIds, NEW isDefault \in BOOLEAN,
             CreateAddress(t, a, isDefault)
      PROVE  IInv'
  <2>1. PICK place : place = IF isDefault THEN "clear" ELSE "commit"
    OBVIOUS
  <2>2. PICK writes : writes = [b \in {a} |-> isDefault]
    OBVIOUS
  <2>3. Begin(t, "create", a, TypeOf[a], isDefault, place, writes)
    BY <1>1, <2>1, <2>2 DEF CreateAddress
  <2>4. /\ TypeOf[a] \in AddressTypes /\ writes \in Writes /\ place \in {"clear", "commit"}
        /\ isDefault <=> place = "clear"
    BY <2>1, <2>2, OneWrite, AddressAssumptions
  <2> QED
    BY <2>2, <2>3, <2>4, BeginStep
<1>2. ASSUME NEW t \in Transactions, NEW a \in AddressIds, NEW type \in AddressTypes,
             SetDefault(t, a, type)
      PROVE  IInv'
  <2>1. PICK writes : writes = [b \in {} |-> TRUE]
    OBVIOUS
  <2>2. Begin(t, "set", a, type, TRUE, "clear", writes)
    BY <1>2, <2>1 DEF SetDefault
  <2>3. writes \in Writes
    BY <2>1, OneWrite
  <2> QED
    BY <2>1, <2>2, <2>3, BeginStep
<1>3. ASSUME NEW t \in Transactions, Commit(t) PROVE IInv'
  <2>1. /\ trx[t] # None /\ row' \in [AddressIds -> BOOLEAN \cup {Absent}]
        /\ \A k : DefaultsIn(row', k) = DefaultsBy(trx[t], row, k)
        /\ trx[t].at = "commit"
    BY <1>3, Committed
  <2>2. ~overlapped => \A k \in AddressTypes : AtMostOne(DefaultsIn(row', k))
    BY <2>1, OpenParts DEF InOrder
  <2> QED
    BY <1>3, <2>1, <2>2, EndStep DEF Commit
<1>4. ASSUME NEW t \in Transactions, Rollback(t) PROVE IInv'
  <2>1. row' \in [AddressIds -> BOOLEAN \cup {Absent}]
        /\ (~overlapped => \A k \in AddressTypes : AtMostOne(DefaultsIn(row', k)))
    BY <1>4 DEF Rollback, IInv, TypeOK, OneByOne
  <2> QED
    BY <1>4, <2>1, EndStep DEF Rollback
<1>5. CASE UNCHANGED vars
  BY <1>5 DEF vars, IInv, TypeOK, WritesOfType, OneByOne, Alone
<1> QED
  BY <1>1, <1>2, <1>3, <1>4, <1>5, ClearStep, ClearRowStep, ClearedStep, SetStep DEF Next

\* The invariant holds for any addresses and any number of transactions.
THEOREM Invariance == Spec => []IInv
<1> QED
  BY InitIInv, NextIInv, PTL DEF Spec

\* One transaction after another, Create and SetDefault leave at most one
\* default address per type.
THEOREM OneDefault == Spec => []AtMostOneDefault
<1>1. IInv => AtMostOneDefault
  <2> SUFFICES ASSUME IInv, ~overlapped, NEW k \in AddressTypes
               PROVE  Cardinality(Defaults(k)) <= 1
    BY DEF IInv, AtMostOneDefault
  <2>1. Defaults(k) = DefaultsIn(row, k) /\ Defaults(k) \in SUBSET AddressIds
    BY DEF Defaults, DefaultsIn
  <2>2. AtMostOne(Defaults(k))
    BY <2>1 DEF IInv, OneByOne
  <2> QED
    BY <2>1, <2>2, OneIsOne
<1> QED
  BY <1>1, Invariance, PTL

\* However transactions overlap, SetDefault leaves no type without a default
\* that had one.
THEOREM DefaultsAreKept == Spec => DefaultIsKept
<1>1. ASSUME IInv, [Next]_vars, NEW k \in AddressTypes, Defaults(k) # {}, Defaults(k)' = {}
      PROVE  \E t \in Transactions : trx[t] # None /\ trx[t].op = "create" /\ trx'[t] = None
  <2>1. PICK t \in Transactions : Commit(t)
    <3>1. \/ \E t \in Transactions : Commit(t)
          \/ row' = row
      BY <1>1 DEF Next, vars, CreateAddress, SetDefault, Begin, ClearAddressTypeDefault,
         ClearRow, Cleared, SetAddressAsDefault, Rollback
    <3> QED
      BY <1>1, <3>1 DEF Defaults
  <2>2. PICK w : w = trx[t]
    OBVIOUS
  <2>3. /\ w # None /\ w.at = "commit" /\ w \in Open /\ OfItsType(w)
        /\ w.address \in AddressIds
        /\ DefaultsIn(row', k) = DefaultsBy(w, row, k)
    BY <1>1, <2>1, <2>2, Committed, OpenParts
  <2>4. DefaultsBy(w, row, k) = {} /\ DefaultsIn(row, k) # {}
    BY <1>1, <2>3 DEF Defaults, DefaultsIn
  <2>5. w.op # "set"
    <3> SUFFICES ASSUME w.op = "set" PROVE FALSE
      OBVIOUS
    <3>1. /\ w.address \in DOMAIN w.writes /\ w.writes[w.address] = TRUE
          /\ \A b \in DOMAIN w.writes : TypeOf[b] = w.type
      BY <2>3 DEF OfItsType
    <3>2. CASE w.type = k
      BY <2>3, <2>4, <3>1, <3>2 DEF DefaultsBy, SeenBy
    <3>3. CASE w.type # k
      BY <2>4, <3>1, <3>3 DEF DefaultsBy, DefaultsIn, SeenBy
    <3> QED
      BY <3>2, <3>3
  <2>6. w.op = "create"
    BY <2>3, <2>5 DEF Open
  <2>7. trx'[t] = None
    BY <1>1, <2>1 DEF Commit, IInv, TypeOK
  <2> QED
    BY <2>2, <2>3, <2>6, <2>7
<1> DEFINE Kept(type) ==
             Defaults(type) # {} /\ Defaults(type)' = {} =>
               \E t \in Transactions : trx[t] # None /\ trx[t].op = "create" /\ trx'[t] = None
<1>2. IInv /\ [Next]_vars => [\A type \in AddressTypes : Kept(type)]_vars
  BY <1>1
<1>3. DefaultIsKept <=> [][\A type \in AddressTypes : Kept(type)]_vars
  BY DEF DefaultIsKept
<1> HIDE DEF Kept
<1> QED
  BY <1>2, <1>3, Invariance, PTL DEF Spec
=============================================================================
