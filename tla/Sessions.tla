------------------------------ MODULE Sessions ------------------------------
(***************************************************************************)
(* Login sessions and the refresh handler.                                 *)
(*                                                                         *)
(* A session row carries a version.  The refresh token names the session   *)
(* and the version it was issued for; refreshing past the midpoint of a    *)
(* remembered session extends the row with a compare-and-set on the        *)
(* version and issues a token for the next version.  refreshToken reads    *)
(* the row (ValidateSession) and writes it (InvalidateSession or           *)
(* ExtendSessionAndGenerateRefreshToken) in separate statements.           *)
(*                                                                         *)
(* Time is a counter of periods that are long compared with a handler: a   *)
(* handler may see the counter advance, but only once.                     *)
(***************************************************************************)
EXTENDS Naturals, Sequences, FiniteSets

CONSTANTS SessionIds,
          Requests,      \* concurrent executions of refreshToken
          AccessTTL,     \* AccessTokenTTL
          RefreshTTL,    \* RefreshTokenTTL, for sessions not remembered
          RememberTTL,   \* RememberMeTTL
          SixMonths,     \* AddDate(0, 6, 0)
          UserVersion,   \* users.version, which nothing in the code changes
          Epoch,         \* periods from the Unix epoch to the first sign-in
          Horizon,       \* bound: the clock stops here
          NoRow

\* Unix time is positive, and two REMEMBER_ME_TTL (30 days unless configured
\* otherwise) are shorter than AddDate(0, 6, 0).
ASSUME SessionAssumptions ==
  /\ {AccessTTL, RefreshTTL, RememberTTL, SixMonths, UserVersion} \subseteq Nat
  /\ 2 * RememberTTL < SixMonths
  /\ Epoch \in Nat \ {0} /\ Horizon \in Nat /\ Epoch <= Horizon

VARIABLES
  now,
  sessions,    \* sessions[s]: the row, or NoRow
  issued,      \* refresh tokens handed to clients: <<session, version>>
  accessUntil, \* accessUntil[s]: expiry of the latest access token of s
  request,     \* request[r]: what the handler knows between its statements
  spent        \* spent[s]: versions an extension was granted for, in order

vars == <<now, sessions, issued, accessUntil, request, spent>>

Rows == [created : Nat, updated : Nat, expires : Nat, version : Nat,
         remember : BOOLEAN, maxRenewal : Nat]

ASSUME NoRowAssumption == NoRow \notin Rows

Idle == [at |-> "idle"]

RequestStates ==
  {Idle} \cup [at : {"over"}, session : SessionIds, since : Nat]
         \cup [at : {"extend"}, session : SessionIds, since : Nat, row : Rows]

Init ==
  /\ now = Epoch
  /\ sessions = [s \in SessionIds |-> NoRow]
  /\ issued = {}
  /\ accessUntil = [s \in SessionIds |-> 0]
  /\ request = [r \in Requests |-> Idle]
  /\ spent = [s \in SessionIds |-> <<>>]

Exists(s)  == sessions[s] # NoRow

\* Mutant: a session is over a moment too early.
ExpiredOnTime(s) == now >= sessions[s].expires

Expired(s) == now > sessions[s].expires

\* max_renewal_duration holds the Unix time of the last renewal.
PastMaxRenewal(s) == sessions[s].remember /\ sessions[s].expires > sessions[s].maxRenewal

Tick ==
  /\ now < Horizon
  /\ ~\E r \in Requests : request[r] # Idle /\ request[r].since # now
  /\ now' = now + 1
  /\ UNCHANGED <<sessions, issued, accessUntil, request, spent>>

\* createUserSessionAndSetCookies; session ids are fresh.  Tokens carry an
\* expiry of their own, but ValidateRefreshToken does not look at it.
SignIn(s, remember) ==
  LET ttl == IF remember THEN RememberTTL ELSE RefreshTTL
  IN /\ ~Exists(s) /\ accessUntil[s] = 0
     /\ sessions' = [sessions EXCEPT ![s] =
                      [created |-> now, updated |-> now, expires |-> now + ttl,
                       version |-> UserVersion, remember |-> remember,
                       maxRenewal |-> IF remember THEN now + SixMonths ELSE 0]]
     /\ issued' = issued \cup {<<s, UserVersion>>}
     /\ accessUntil' = [accessUntil EXCEPT ![s] = now + AccessTTL]
     /\ UNCHANGED <<now, request, spent>>

\* The background update of every authenticated request: last_used is not
\* modelled, but the trigger on the table moves updated_at.
UpdateLastUsed(s) ==
  /\ now <= accessUntil[s]
  /\ Exists(s)
  /\ sessions' = [sessions EXCEPT ![s].updated = now]
  /\ UNCHANGED <<now, issued, accessUntil, request, spent>>

-----------------------------------------------------------------------------
(* refreshToken, with the token of version v of session s.  A refusal that *)
(* leaves everything as it was is a stuttering step.                       *)

\* ValidateSession finds the row over, and goes on to InvalidateSession.
FindOver(r, s, v) ==
  /\ request[r] = Idle
  /\ <<s, v>> \in issued
  /\ Exists(s) /\ sessions[s].version = v
  /\ Expired(s) \/ PastMaxRenewal(s)
  /\ request' = [request EXCEPT ![r] = [at |-> "over", session |-> s, since |-> now]]
  /\ UNCHANGED <<now, sessions, issued, accessUntil, spent>>

InvalidateSession(r) ==
  /\ request[r].at = "over"
  /\ sessions' = [sessions EXCEPT ![request[r].session] = NoRow]
  /\ request' = [request EXCEPT ![r] = Idle]
  /\ UNCHANGED <<now, issued, accessUntil, spent>>

\* Mutant: the session's version is not compared with the user's.
AcceptedWithoutUserVersion(s, v) ==
  /\ Exists(s) /\ sessions[s].version = v
  /\ ~Expired(s) /\ ~PastMaxRenewal(s)

\* Mutant: the row's expires_at is left to the token, which is never asked.
AcceptedAfterExpiry(s, v) ==
  /\ Exists(s) /\ sessions[s].version = v
  /\ ~PastMaxRenewal(s)
  /\ sessions[s].version = UserVersion

\* ValidateSession and the comparison with the user's version succeed.
Accepted(s, v) ==
  /\ Exists(s) /\ sessions[s].version = v
  /\ ~Expired(s) /\ ~PastMaxRenewal(s)
  /\ sessions[s].version = UserVersion

\* The current time is past the midpoint of updated_at and expires_at.
CanExtend(s) ==
  sessions[s].remember /\ 2 * now > sessions[s].updated + sessions[s].expires

GrantAccess(s) == accessUntil' = [accessUntil EXCEPT ![s] = now + AccessTTL]

\* Before the midpoint only an access token is issued.
Refresh(r, s, v) ==
  /\ request[r] = Idle
  /\ <<s, v>> \in issued
  /\ Accepted(s, v) /\ ~CanExtend(s)
  /\ GrantAccess(s)
  /\ UNCHANGED <<now, sessions, issued, request, spent>>

StartExtend(r, s, v) ==
  /\ request[r] = Idle
  /\ <<s, v>> \in issued
  /\ Accepted(s, v) /\ CanExtend(s)
  /\ request' = [request EXCEPT ![r] = [at |-> "extend", session |-> s, since |-> now,
                                        row |-> sessions[s]]]
  /\ UNCHANGED <<now, sessions, issued, accessUntil, spent>>

Least(a, b) == IF a < b THEN a ELSE b

\* maxRenewal is taken for a duration here.
NewExpiry(row) == Least(now + RememberTTL, row.created + row.maxRenewal)

\* Mutant: without AND version = $3.
UnchangedSinceAlways(row, s) == Exists(s)

\* The row is still the version that was read.
UnchangedSince(row, s) == Exists(s) /\ sessions[s].version = row.version

\* UPDATE ... WHERE version = $3, and the answer with the tokens, which may
\* be lost on its way.
Extend(r) ==
  LET s   == request[r].session
      row == request[r].row
      v   == sessions[s].version
  IN /\ request[r].at = "extend"
     /\ UnchangedSince(row, s)
     /\ sessions' = [sessions EXCEPT ![s].expires = NewExpiry(row),
                                     ![s].version = v + 1,
                                     ![s].updated = now]
     /\ spent' = [spent EXCEPT ![s] = Append(@, row.version)]
     /\ \/ issued' = issued \cup {<<s, v + 1>>} /\ GrantAccess(s)
        \/ UNCHANGED <<issued, accessUntil>>
     /\ request' = [request EXCEPT ![r] = Idle]
     /\ UNCHANGED now

\* The compare-and-set finds another version, or no row, and the answer is
\* 500; or the handler fails or is cut off between its statements.
GiveUp(r) ==
  /\ request[r] # Idle
  /\ request' = [request EXCEPT ![r] = Idle]
  /\ UNCHANGED <<now, sessions, issued, accessUntil, spent>>

RefreshStep(r) ==
  \/ InvalidateSession(r) \/ Extend(r) \/ GiveUp(r)
  \/ \E tok \in issued : \/ FindOver(r, tok[1], tok[2])
                         \/ Refresh(r, tok[1], tok[2])
                         \/ StartExtend(r, tok[1], tok[2])

Next == \/ Tick
        \/ \E s \in SessionIds : \/ \E remember \in BOOLEAN : SignIn(s, remember)
                                 \/ UpdateLastUsed(s)
        \/ \E r \in Requests : RefreshStep(r)

Spec == Init /\ [][Next]_vars

-----------------------------------------------------------------------------
TypeOK ==
  /\ now \in Epoch..Horizon
  /\ sessions \in [SessionIds -> Rows \cup {NoRow}]
  /\ issued \subseteq SessionIds \X Nat
  /\ accessUntil \in [SessionIds -> Nat]
  /\ request \in [Requests -> RequestStates]
  /\ spent \in [SessionIds -> Seq(Nat)]

\* However many requests present the same refresh token at once, at most one of
\* them extends the session and gets a token of the next version.
OneExtensionPerToken ==
  \A s \in SessionIds : \A i, j \in 1..Len(spent[s]) :
    spent[s][i] = spent[s][j] => i = j

\* A session that has expired is not revived: access granted by its refresh
\* token ends at most one access token lifetime after the session, although
\* neither token's own expiry is looked at by refreshToken.
AccessEndsWithSession ==
  \A s \in SessionIds :
    Exists(s) => accessUntil[s] <= sessions[s].expires + AccessTTL

\* A remembered session never outlives the six months it was given at sign-in,
\* although ExtendSessionAndGenerateRefreshToken misreads that limit: for as
\* long as one extension is all a session gets.
WithinMaxRenewal ==
  /\ TypeOK
  /\ \A s \in SessionIds : Exists(s) /\ sessions[s].remember
                             => sessions[s].expires <= sessions[s].maxRenewal

-----------------------------------------------------------------------------
(* The life of a session. *)

LifeOf(s) ==
  IF Exists(s) THEN IF sessions[s].version = UserVersion THEN "fresh" ELSE "extended"
  ELSE IF accessUntil[s] = 0 THEN "unborn" ELSE "ended"

Life == INSTANCE SessionLife WITH
  Lifetimes <- {RefreshTTL, RememberTTL},
  life      <- [s \in SessionIds |-> LifeOf(s)],
  limit     <- [s \in SessionIds |-> IF Exists(s) THEN sessions[s].expires ELSE 0],
  access    <- accessUntil

\* Sign-in, refreshToken and the deletions of overlapping requests keep a
\* session to one life: one extension, asked for in time; no access after that
\* one; no way back once the row is deleted; and although the DELETE of
\* InvalidateSession names nothing but the id, it ends only sessions that are
\* past their expiry or that were extended behind its back.
ImplementsLife == Life!LifeSpec
=============================================================================
