----------------------------- MODULE OptionTypes -----------------------------
(***************************************************************************)
(* Option types (colour, size) and their values.  A type is stored with    *)
(* its first values in one transaction.                                    *)
(***************************************************************************)
EXTENDS ConnectionPool

CONSTANTS Types, Values,   \* ids
          Names            \* names of types and texts of values

VARIABLES
  optionType,    \* option_types: id -> name
  optionValue,   \* option_values: id -> type and text
  asked          \* history: values that were asked for with a type and not deleted

optionVars == <<optionType, optionValue, asked>>

NoName  == "none"
NoValue == [type |-> "none"]

ASSUME OptionAssumption == NoName \notin Names

OptionInit ==
  /\ optionType = [t \in Types |-> NoName] /\ optionValue = [v \in Values |-> NoValue]
  /\ asked = {}

StoredTypes  == {t \in Types : optionType[t] # NoName}
StoredValues == {v \in Values : optionValue[v] # NoValue}

\* What open transactions have inserted.
OpenTypes  == InTx("insert values") \cup InTx("commit option")
OpenValues == InTx("commit option")
OpenIds == UNION {{request[o].tx.rows[n] : n \in DOMAIN request[o].tx.rows} : o \in OpenValues}

\* Names are unique among the types, texts among the values of all types; an
\* INSERT of what an open transaction has inserted waits for its end.
NameFree(n, of) ==
  /\ \A t \in StoredTypes \ of : optionType[t] # n
  /\ \A o \in OpenTypes : request[o].form.name # n
TextFree(n, of) ==
  /\ \A v \in StoredValues \ of : optionValue[v].text # n
  /\ \A o \in OpenValues : n \notin DOMAIN request[o].tx.rows

CreateOptionType(r) ==
  /\ request[r].at = "createOptionType"
  /\ BeginTx(r, "insert type")
  /\ UNCHANGED optionVars

InsertType(r) ==
  /\ request[r].at = "insert type"
  /\ NameFree(request[r].form.name, {})
  /\ \E t \in Types \ (StoredTypes \cup {request[o].tx.type : o \in OpenTypes}) :
       Inserts(r, "insert values", [type |-> t])
  /\ UNCHANGED optionVars

\* The rows, by text, under new ids.
InsertValues(r) ==
  /\ request[r].at = "insert values"
  /\ \A n \in request[r].form.texts : TextFree(n, {})
  /\ \E texts \in Inserted(request[r].form.texts) :
       \E rows \in [texts -> Values \ (StoredValues \cup OpenIds)] :
         /\ \A m, n \in texts : m # n => rows[m] # rows[n]
         /\ Inserts(r, "commit option", [type |-> request[r].tx.type, rows |-> rows])
  /\ UNCHANGED optionVars

CommitOption(r) ==
  LET t == request[r].tx.type   rows == request[r].tx.rows
      Text(v) == CHOOSE n \in DOMAIN rows : rows[n] = v
  IN /\ request[r].at = "commit option"
     /\ optionType' = [optionType EXCEPT ![t] = request[r].form.name]
     /\ optionValue' = [v \in Values |-> IF v \in {rows[n] : n \in DOMAIN rows}
                                          THEN [type |-> t, text |-> Text(v)] ELSE optionValue[v]]
     /\ asked' = asked \cup ({t} \X request[r].form.texts)
     /\ Ends(r)

-----------------------------------------------------------------------------
GetByID(t) == t \in StoredTypes

\* CreateOptionValues begins a transaction and calls itself in it: each level
\* takes one more connection, and when there is none left waits for one until
\* the request times out.  The values are never inserted.
CreateOptionValues(r) == BeginTx(r, "add values")

AddOptionValues(r) ==
  /\ \/ /\ Statement(r, "addOptionValues")
        /\ IF GetByID(request[r].form.type) THEN Moves(r, "add values") ELSE Ends(r)
     \/ /\ request[r].at = "add values"
        /\ CreateOptionValues(r)
  /\ UNCHANGED optionVars

Update(t, n) == [optionType EXCEPT ![t] = n]
UpdateOptionType(r) ==
  LET t == request[r].form.type   n == request[r].form.name
  IN /\ \/ /\ Statement(r, "updateOptionType")
           /\ IF GetByID(t) THEN Moves(r, "update type") ELSE Ends(r)
           /\ UNCHANGED optionType
        \/ /\ Statement(r, "update type")
           /\ NameFree(n, {t}) /\ optionType' = Update(t, n)
           /\ Ends(r)
     /\ UNCHANGED <<optionValue, asked>>

Pair(v) == <<optionValue[v].type, optionValue[v].text>>

UpdateValue(v, n) == IF v \in StoredValues THEN [optionValue EXCEPT ![v].text = n] ELSE optionValue
UpdateOptionValue(r) ==
  LET v == request[r].form.value   n == request[r].form.text
  IN /\ Statement(r, "updateOptionValue")
     /\ TextFree(n, {v}) /\ optionValue' = UpdateValue(v, n)
     /\ asked' = IF v \in StoredValues
                   THEN (asked \ {Pair(v)}) \cup {<<optionValue[v].type, n>>} ELSE asked
     /\ Ends(r)
     /\ UNCHANGED optionType

WithoutValue(v) == [optionValue EXCEPT ![v] = NoValue]
DeleteOptionValue(r) ==
  LET v == request[r].form.value
  IN /\ Statement(r, "deleteOptionValue")
     /\ optionValue' = WithoutValue(v)
     /\ asked' = IF v \in StoredValues THEN asked \ {Pair(v)} ELSE asked
     /\ Ends(r)
     /\ UNCHANGED optionType

ServeOptions(r) ==
  \/ CreateOptionType(r) \/ InsertType(r) \/ InsertValues(r) \/ CommitOption(r)
  \/ AddOptionValues(r) \/ UpdateOptionType(r)
  \/ UpdateOptionValue(r) \/ DeleteOptionValue(r)

-----------------------------------------------------------------------------
OptionTypesTypeOK ==
  /\ optionType \in [Types -> Names \cup {NoName}]
  /\ optionValue \in [Values -> [type : Types, text : Names] \cup {NoValue}]
  /\ asked \subseteq Types \X Names

\* The values that are stored are those that were asked for with a type that
\* is stored and that nobody has deleted: goroutines insert them on one
\* connection, any of them may fail, and none of the requests that add values
\* later gets to store one.
ValuesAsAsked ==
  /\ {Pair(v) : v \in StoredValues} = asked
  /\ \A pair \in asked : pair[1] \in StoredTypes
=============================================================================
