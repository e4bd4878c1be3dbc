--------------------------- MODULE ConnectionPool ---------------------------
(***************************************************************************)
(* Requests and the database connections they share.  A statement takes a  *)
(* connection for its own time only, which is one step here; a transaction *)
(* keeps one from BeginTx to Commit or Rollback.                           *)
(***************************************************************************)
CONSTANTS Requests, Connections   \* as many as SetMaxOpenConns

VARIABLE request   \* request[r]: where a request is, the connections it holds,
                   \* and in tx what its transaction has inserted

Idle == [at |-> "idle", held |-> {}]

Go(r, next) == request' = [request EXCEPT ![r] = next]
Ends(r)     == Go(r, Idle)   \* with whatever answer
Moves(r, at) == Go(r, [request[r] EXCEPT !.at = at])
Inserts(r, at, rows) == Go(r, [request[r] EXCEPT !.at = at, !.tx = rows])

Free == Connections \ UNION {request[r].held : r \in Requests}

\* A step that is one statement outside of any transaction.
Statement(r, at) == request[r].at = at /\ Free # {}

\* Connections are alike: a transaction gets one that is free.
BeginTx(r, at) ==
  /\ Free # {}
  /\ Go(r, [request[r] EXCEPT !.at = at, !.held = @ \cup {CHOOSE c \in Free : TRUE}])

InTx(at) == {r \in Requests : request[r].at = at}

\* Mutant: the errors in errCh are not returned.
InsertedSome(rows) == SUBSET rows

\* One goroutine per row runs its INSERT on the connection of the transaction;
\* the first error that any of them sends ends the transaction.
Inserted(rows) == {rows}

\* A request ends before its next step when its context does, 60 seconds after
\* it came or because its client has gone, when it waits five seconds for the
\* connection of a statement, and when a statement fails.  Whatever
\* transactions it has open are rolled back.
TimeOut(r) == request[r] # Idle /\ Ends(r)
=============================================================================
