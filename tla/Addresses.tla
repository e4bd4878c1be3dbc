----------------------------- MODULE Addresses -----------------------------
(***************************************************************************)
(* The addresses of one user and their default flag.                       *)
(*                                                                         *)
(* Creating a default address and changing the default are transactions    *)
(* of several statements under READ COMMITTED, PostgreSQL's default: a     *)
(* statement finds its rows in what was committed when it began, locks     *)
(* them one by one, waiting for a transaction that holds one, and looks    *)
(* at each again once it has it.  Addresses are never deleted.             *)
(***************************************************************************)
EXTENDS Naturals, FiniteSets

CONSTANTS AddressIds,
          AddressTypes,   \* billing, shipping
          TypeOf,         \* TypeOf[a]: address_type of a
          Transactions,
          Absent

ASSUME AddressAssumptions ==
  /\ IsFiniteSet(AddressIds)
  /\ TypeOf \in [AddressIds -> AddressTypes]
  /\ Absent \notin BOOLEAN

VARIABLES
  row,   \* row[a]: the committed is_default of address a, or Absent
  trx,   \* trx[t]: an open transaction and its uncommitted writes
  overlapped  \* two transactions have ever been open at once

vars == <<row, trx, overlapped>>

None == [at |-> "none"]

Defaults(type) == {a \in AddressIds : TypeOf[a] = type /\ row[a] = TRUE}

\* A user's addresses before the first step: at most one default per type.
Init ==
  /\ row \in [AddressIds -> BOOLEAN \cup {Absent}]
  /\ \A type \in AddressTypes : Cardinality(Defaults(type)) <= 1
  /\ trx = [t \in Transactions |-> None]
  /\ overlapped = FALSE

\* The rows a transaction has written are locked until it ends.
Locked(t)  == IF trx[t] = None THEN {} ELSE DOMAIN trx[t].writes
Free(t, a) == \A u \in Transactions \ {t} : a \notin Locked(u)

\* What t sees of a: its own write, or else what is committed.
Seen(t, a) == IF a \in Locked(t) THEN trx[t].writes[a] ELSE row[a]

With(f, a, value) == [b \in DOMAIN f \cup {a} |-> IF b = a THEN value ELSE f[b]]

Goto(t, place) == trx' = [trx EXCEPT ![t].at = place]

Begin(t, op, a, type, isDefault, place, writes) ==
  /\ trx[t] = None
  /\ trx' = [trx EXCEPT ![t] = [at |-> place, op |-> op, address |-> a, type |-> type,
                                isDefault |-> isDefault, writes |-> writes, todo |-> {}]]
  /\ overlapped' = (overlapped \/ \E u \in Transactions : trx[u] # None)
  /\ UNCHANGED row

\* Mutant: the defaults are not cleared.
CreateAddressOnly(t, a, isDefault) ==
  /\ row[a] = Absent /\ Free(t, a)
  /\ Begin(t, "create", a, TypeOf[a], isDefault, "commit", [b \in {a} |-> isDefault])

\* createAddress, the first statement of Create; the id is fresh.
CreateAddress(t, a, isDefault) ==
  /\ row[a] = Absent /\ Free(t, a)
  /\ Begin(t, "create", a, TypeOf[a], isDefault, IF isDefault THEN "clear" ELSE "commit",
           [b \in {a} |-> isDefault])

\* SetDefault begins; the type is the request's, whatever the address's is.
SetDefault(t, a, type) == Begin(t, "set", a, type, TRUE, "clear", [b \in {} |-> TRUE])

\* WHERE user_id = $1 AND address_type = $2 AND is_default = true
ToClear(t) == {a \in AddressIds : TypeOf[a] = trx[t].type /\ Seen(t, a) = TRUE}

\* clearAddressTypeDefault begins, and goes through its rows.
ClearAddressTypeDefault(t) ==
  /\ trx[t].at = "clear"
  /\ trx' = [trx EXCEPT ![t].at = "clearing", ![t].todo = ToClear(t)]
  /\ UNCHANGED <<row, overlapped>>

ClearRow(t) ==
  /\ trx[t].at = "clearing"
  /\ \E a \in trx[t].todo :
       /\ Free(t, a)
       /\ trx' = [trx EXCEPT ![t].todo = @ \ {a},
                             ![t].writes = IF Seen(t, a) THEN With(@, a, FALSE) ELSE @]
  /\ UNCHANGED <<row, overlapped>>

Cleared(t) ==
  /\ trx[t].at = "clearing" /\ trx[t].todo = {}
  /\ Goto(t, IF trx[t].op = "set" THEN "set" ELSE "commit")
  /\ UNCHANGED <<row, overlapped>>

\* Mutant: no rows affected is not an error.
SetAddressAsDefaultUnchecked(t) ==
  LET a == trx[t].address
  IN /\ trx[t].at = "set"
     /\ Free(t, a)
     /\ trx' = [trx EXCEPT ![t].at = "commit",
                           ![t].writes = IF row[a] # Absent /\ TypeOf[a] = trx[t].type
                                         THEN With(@, a, TRUE) ELSE @]
     /\ UNCHANGED <<row, overlapped>>

\* Without a row to set, the transaction is rolled back: see Rollback.
SetAddressAsDefault(t) ==
  LET a == trx[t].address
  IN /\ trx[t].at = "set"
     /\ row[a] # Absent /\ TypeOf[a] = trx[t].type /\ Free(t, a)
     /\ trx' = [trx EXCEPT ![t].at = "commit", ![t].writes = With(@, a, TRUE)]
     /\ UNCHANGED <<row, overlapped>>

Commit(t) ==
  /\ trx[t].at = "commit"
  /\ row' = [a \in AddressIds |-> Seen(t, a)]
  /\ trx' = [trx EXCEPT ![t] = None]
  /\ UNCHANGED overlapped

\* A statement fails or times out, no row is affected, or the database breaks
\* a deadlock.
Rollback(t) ==
  /\ trx[t] # None
  /\ trx' = [trx EXCEPT ![t] = None]
  /\ UNCHANGED <<row, overlapped>>

Next ==
  \E t \in Transactions :
    \/ \E a \in AddressIds : \/ \E isDefault \in BOOLEAN : CreateAddress(t, a, isDefault)
                             \/ \E type \in AddressTypes : SetDefault(t, a, type)
    \/ ClearAddressTypeDefault(t) \/ ClearRow(t) \/ Cleared(t)
    \/ SetAddressAsDefault(t) \/ Commit(t) \/ Rollback(t)

Spec == Init /\ [][Next]_vars

-----------------------------------------------------------------------------
Writes == UNION {[S -> BOOLEAN] : S \in SUBSET AddressIds}

TypeOK ==
  /\ row \in [AddressIds -> BOOLEAN \cup {Absent}]
  /\ trx \in [Transactions ->
       {None} \cup [at : {"clear", "clearing", "set", "commit"}, op : {"create", "set"},
                    address : AddressIds, type : AddressTypes, isDefault : BOOLEAN,
                    writes : Writes, todo : SUBSET AddressIds]]
  /\ overlapped \in BOOLEAN

\* Changing the default never leaves a type without one, whichever transactions
\* overlap and wherever they stop: only the creation of an address can.
DefaultIsKept ==
  [][\A type \in AddressTypes :
       Defaults(type) # {} /\ Defaults(type)' = {} =>
         \E t \in Transactions : trx[t] # None /\ trx[t].op = "create" /\ trx'[t] = None]_vars

\* One transaction after another keeps at most one default per type, wherever
\* each of them stops.  Two that overlap may not: each clears the default that
\* was committed when its statement began, and both set their own.
AtMostOneDefault ==
  /\ TypeOK
  /\ ~overlapped => \A type \in AddressTypes : Cardinality(Defaults(type)) <= 1
=============================================================================
