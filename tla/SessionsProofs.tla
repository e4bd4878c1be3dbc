---------------------------- MODULE SessionsProofs ----------------------------
(***************************************************************************)
(* Safety of the refresh handler for any sessions, any number of           *)
(* concurrent requests and any lifetimes that meet the assumptions.        *)
(***************************************************************************)
EXTENDS Sessions, TLAPS

\* A session id nobody has signed in with has no history.
FreshIds ==
  \A s \in SessionIds : accessUntil[s] = 0 => sessions[s] = NoRow /\ spent[s] = <<>>

\* The version of a row is past every version it was extended from: this is
\* what the compare-and-set maintains.
SpentBelow ==
  \A s \in SessionIds : Exists(s) =>
    \A i \in 1..Len(spent[s]) : spent[s][i] < sessions[s].version

\* No access token is granted for longer than AccessTTL.
AccessRecent ==
  \A s \in SessionIds : accessUntil[s] <= now + AccessTTL

\* A row that was never extended still has the limits it was given at sign-in.
RememberedRow(row) ==
  /\ row.remember
  /\ row.created \in Epoch..now
  /\ row.maxRenewal = row.created + SixMonths
  /\ row.version = UserVersion => row.expires = row.created + RememberTTL

RememberedRows ==
  \A s \in SessionIds : Exists(s) /\ sessions[s].remember => RememberedRow(sessions[s])

\* What a handler read a moment ago: a remembered row, not extended and not over,
\* that differs from the stored one at most in what an extension changes.
ReadRow(row, s, since) ==
  /\ accessUntil[s] > 0
  /\ RememberedRow(row) /\ row.version = UserVersion
  /\ since <= row.expires /\ now <= since + 1
  /\ Exists(s) => sessions[s].remember /\ sessions[s].created = row.created

ReadRows ==
  \A r \in Requests : request[r].at = "extend" =>
    ReadRow(request[r].row, request[r].session, request[r].since)

\* The part of WithinMaxRenewal that is not about types.
Limited ==
  \A s \in SessionIds : Exists(s) /\ sessions[s].remember
                          => sessions[s].expires <= sessions[s].maxRenewal

IInv == /\ TypeOK
        /\ FreshIds
        /\ SpentBelow
        /\ OneExtensionPerToken
        /\ AccessRecent
        /\ AccessEndsWithSession
        /\ RememberedRows
        /\ ReadRows
        /\ Limited

-----------------------------------------------------------------------------
LEMMA Constants ==
  /\ AccessTTL \in Nat /\ RefreshTTL \in Nat /\ RememberTTL \in Nat /\ SixMonths \in Nat
  /\ UserVersion \in Nat /\ Epoch \in Nat /\ Horizon \in Nat
  /\ 2 * RememberTTL < SixMonths /\ 0 < Epoch /\ Epoch <= Horizon
BY SessionAssumptions

USE Constants

LEMMA InitIInv == Init => IInv
<1> SUFFICES ASSUME Init PROVE IInv
  OBVIOUS
<1> USE DEF Init
<1>1. TypeOK
  BY DEF TypeOK, RequestStates
<1>2. FreshIds /\ SpentBelow /\ OneExtensionPerToken
  BY DEF FreshIds, SpentBelow, Exists, OneExtensionPerToken
<1>3. AccessRecent /\ AccessEndsWithSession /\ RememberedRows /\ Limited
  BY DEF AccessRecent, AccessEndsWithSession, RememberedRows, Exists, Limited
<1>4. ReadRows
  BY DEF ReadRows, Idle
<1> QED
  BY <1>1, <1>2, <1>3, <1>4 DEF IInv

\* The three states of a request.
LEMMA RequestType ==
  ASSUME TypeOK, NEW r \in Requests
  PROVE  /\ request[r] # Idle => request[r].session \in SessionIds /\ request[r].since \in Nat
         /\ request[r].at = "extend" => request[r].row \in Rows
         /\ request[r].at # "idle" => request[r] # Idle
BY DEF TypeOK, RequestStates, Idle

\* The row an extension leaves.
ExtendedRow(row, expires) ==
  [row EXCEPT !.expires = expires, !.version = row.version + 1, !.updated = now]

LEMMA RowWrites ==
  ASSUME NEW row \in Rows, NEW expires \in Nat, now \in Nat
  PROVE  /\ [row EXCEPT !.updated = now] \in Rows
         /\ ExtendedRow(row, expires) \in Rows
<1>1. [row EXCEPT !.updated = now] \in Rows
  BY DEF Rows
<1>2. ASSUME NEW v \in Nat
      PROVE [row EXCEPT !.expires = expires, !.version = v, !.updated = now] \in Rows
  BY DEF Rows
<1>3. row.version + 1 \in Nat
  BY DEF Rows
<1> QED
  BY <1>1, <1>2, <1>3 DEF ExtendedRow

LEMMA ExtendWrites ==
  ASSUME TypeOK, NEW r \in Requests, Extend(r)
  PROVE  sessions' = [sessions EXCEPT ![request[r].session] =
                       ExtendedRow(sessions[request[r].session], NewExpiry(request[r].row))]
BY DEF Extend, ExtendedRow

LEMMA NextTypeOK == TypeOK /\ [Next]_vars => TypeOK'
<1> SUFFICES ASSUME TypeOK, [Next]_vars PROVE TypeOK'
  OBVIOUS
<1>t. /\ now \in Nat
      /\ \A s \in SessionIds : Exists(s) => sessions[s] \in Rows
  BY DEF TypeOK, Exists
<1>1. ASSUME Tick PROVE TypeOK'
  BY <1>1 DEF TypeOK, Tick
<1>2. ASSUME NEW s \in SessionIds, NEW remember \in BOOLEAN, SignIn(s, remember)
      PROVE TypeOK'
  <2>1. [created |-> now, updated |-> now,
         expires |-> now + IF remember THEN RememberTTL ELSE RefreshTTL,
         version |-> UserVersion, remember |-> remember,
         maxRenewal |-> IF remember THEN now + SixMonths ELSE 0] \in Rows
    BY <1>t DEF Rows
  <2>2. sessions' \in [SessionIds -> Rows \cup {NoRow}]
    BY <1>2, <2>1 DEF SignIn, TypeOK
  <2> QED
    BY <1>2, <2>2 DEF SignIn, TypeOK
<1>3. ASSUME NEW s \in SessionIds, UpdateLastUsed(s) PROVE TypeOK'
  <2>1. [sessions[s] EXCEPT !.updated = now] \in Rows
    BY <1>3, <1>t, RowWrites, Constants DEF UpdateLastUsed
  <2>2. sessions' = [sessions EXCEPT ![s] = [sessions[s] EXCEPT !.updated = now]]
    BY <1>3 DEF UpdateLastUsed
  <2> QED
    BY <1>3, <2>1, <2>2 DEF UpdateLastUsed, TypeOK
<1>4. ASSUME NEW r \in Requests, NEW tok \in issued, FindOver(r, tok[1], tok[2])
      PROVE TypeOK'
  <2>1. [at |-> "over", session |-> tok[1], since |-> now] \in RequestStates
    BY <1>t DEF RequestStates, TypeOK
  <2> QED
    BY <1>4, <2>1 DEF FindOver, TypeOK
<1>5. ASSUME NEW r \in Requests, InvalidateSession(r) PROVE TypeOK'
  BY <1>5, RequestType DEF InvalidateSession, TypeOK, RequestStates
<1>6. ASSUME NEW r \in Requests, NEW tok \in issued, Refresh(r, tok[1], tok[2])
      PROVE TypeOK'
  BY <1>6, <1>t DEF Refresh, GrantAccess, TypeOK
<1>7. ASSUME NEW r \in Requests, NEW tok \in issued, StartExtend(r, tok[1], tok[2])
      PROVE TypeOK'
  <2>1. tok[1] \in SessionIds /\ sessions[tok[1]] \in Rows
    BY <1>7, <1>t DEF StartExtend, Accepted, TypeOK
  <2>2. [at |-> "extend", session |-> tok[1], since |-> now, row |-> sessions[tok[1]]]
          \in RequestStates
    BY <1>t, <2>1 DEF RequestStates
  <2> QED
    BY <1>7, <2>2 DEF StartExtend, TypeOK
<1>8. ASSUME NEW r \in Requests, Extend(r) PROVE TypeOK'
  <2> DEFINE id  == request[r].session
             row == request[r].row
  <2>1. id \in SessionIds /\ row \in Rows /\ sessions[id] \in Rows
    BY <1>8, <1>t, RequestType DEF Extend, UnchangedSince
  <2>2. /\ sessions[id].version \in Nat /\ row.version \in Nat
        /\ row.created \in Nat /\ row.maxRenewal \in Nat
    BY <2>1 DEF Rows
  <2>3. NewExpiry(row) \in Nat
    BY <1>t, <2>2 DEF NewExpiry, Least
  <2>4. sessions' \in [SessionIds -> Rows \cup {NoRow}]
    <3>1. ExtendedRow(sessions[id], NewExpiry(row)) \in Rows
      BY <1>t, <2>1, <2>3, RowWrites
    <3> QED
      BY <1>8, <2>1, <3>1, ExtendWrites DEF TypeOK
  <2>5. spent' \in [SessionIds -> Seq(Nat)]
    <3>1. Append(spent[id], row.version) \in Seq(Nat)
      BY <2>1, <2>2 DEF TypeOK
    <3>2. spent' = [spent EXCEPT ![id] = Append(spent[id], row.version)]
      BY <1>8 DEF Extend
    <3> QED
      BY <3>1, <3>2 DEF TypeOK
  <2>6. issued' \subseteq SessionIds \X Nat
    <3>1. <<id, sessions[id].version + 1>> \in SessionIds \X Nat
      BY <2>1, <2>2
    <3>2. \/ issued' = issued \cup {<<id, sessions[id].version + 1>>}
          \/ issued' = issued
      BY <1>8 DEF Extend
    <3> QED
      BY <3>1, <3>2 DEF TypeOK
  <2>7. accessUntil' \in [SessionIds -> Nat]
    <3>1. accessUntil' = accessUntil \/ GrantAccess(id)
      BY <1>8 DEF Extend
    <3>2. now + AccessTTL \in Nat
      BY <1>t
    <3> QED
      BY <3>1, <3>2 DEF GrantAccess, TypeOK
  <2>8. request' \in [Requests -> RequestStates] /\ now' = now
    BY <1>8 DEF Extend, RequestStates, TypeOK
  <2> QED
    BY <2>4, <2>5, <2>6, <2>7, <2>8 DEF TypeOK
<1>9. ASSUME NEW r \in Requests, GiveUp(r) PROVE TypeOK'
  BY <1>9 DEF GiveUp, TypeOK, RequestStates
<1>10. CASE UNCHANGED vars
  BY <1>10 DEF vars, TypeOK
<1> QED
  BY <1>1, <1>2, <1>3, <1>4, <1>5, <1>6, <1>7, <1>8, <1>9, <1>10 DEF Next, RefreshStep

-----------------------------------------------------------------------------
Safe == /\ FreshIds
        /\ SpentBelow
        /\ OneExtensionPerToken
        /\ AccessRecent
        /\ AccessEndsWithSession
        /\ RememberedRows
        /\ ReadRows
        /\ Limited

LEMMA TickStep == IInv /\ Tick => Safe'
<1> SUFFICES ASSUME IInv, Tick PROVE Safe'
  OBVIOUS
<1>1. /\ now' = now + 1 /\ now \in Nat
      /\ UNCHANGED <<sessions, accessUntil, request, spent>>
      /\ accessUntil \in [SessionIds -> Nat]
      /\ \A r \in Requests : request[r] # Idle => request[r].since = now
  BY DEF Tick, IInv, TypeOK
<1>2. FreshIds' /\ SpentBelow' /\ OneExtensionPerToken' /\ AccessEndsWithSession' /\ Limited'
  BY <1>1 DEF IInv, FreshIds, SpentBelow, OneExtensionPerToken, AccessEndsWithSession,
              Limited, Exists
<1>3. AccessRecent'
  BY <1>1 DEF IInv, AccessRecent
<1>4. \A row : RememberedRow(row) => RememberedRow(row)'
  BY <1>1 DEF RememberedRow
<1>5. RememberedRows'
  BY <1>1, <1>4 DEF IInv, RememberedRows, Exists
<1>6. ReadRows'
  <2> SUFFICES ASSUME NEW r \in Requests, request[r].at = "extend"
               PROVE  now' <= request[r].since + 1
    BY <1>1, <1>4 DEF IInv, ReadRows, ReadRow, Exists
  <2> QED
    BY <1>1, RequestType DEF IInv
<1> QED
  BY <1>2, <1>3, <1>5, <1>6 DEF Safe

LEMMA SignInStep ==
  ASSUME IInv, NEW s \in SessionIds, NEW remember \in BOOLEAN, SignIn(s, remember), TypeOK'
  PROVE  Safe'
<1> DEFINE row == sessions'[s]
<1>1. /\ sessions[s] = NoRow /\ accessUntil[s] = 0 /\ spent[s] = <<>>
      /\ now \in Nat /\ now \in Epoch..now
      /\ now' = now /\ spent' = spent /\ request' = request
  BY DEF SignIn, Exists, IInv, FreshIds, TypeOK
<1>2. \A t \in SessionIds : t # s => /\ sessions'[t] = sessions[t]
                                    /\ accessUntil'[t] = accessUntil[t]
  BY DEF SignIn, IInv, TypeOK
<1>3. /\ row = [created |-> now, updated |-> now,
                expires |-> now + (IF remember THEN RememberTTL ELSE RefreshTTL),
                version |-> UserVersion, remember |-> remember,
                maxRenewal |-> IF remember THEN now + SixMonths ELSE 0]
      /\ accessUntil'[s] = now + AccessTTL
  BY DEF SignIn, IInv, TypeOK
<1>4. /\ now <= row.expires /\ row.expires \in Nat
      /\ remember => row.expires = now + RememberTTL /\ row.maxRenewal = now + SixMonths
      /\ row.created = now /\ row.remember = remember
  BY <1>1, <1>3
<1>5. FreshIds'
  BY <1>1, <1>2, <1>3 DEF IInv, FreshIds
<1>6. SpentBelow' /\ OneExtensionPerToken'
  BY <1>1, <1>2 DEF IInv, SpentBelow, OneExtensionPerToken, Exists
<1>7. AccessRecent' /\ AccessEndsWithSession'
  BY <1>1, <1>2, <1>3, <1>4 DEF IInv, AccessRecent, AccessEndsWithSession, Exists
<1>8. remember => RememberedRow(sessions[s])'
  BY <1>1, <1>4 DEF RememberedRow
<1>9. RememberedRows'
  BY <1>1, <1>2, <1>4, <1>8 DEF IInv, RememberedRows, RememberedRow, Exists
<1>10. Limited'
  BY <1>1, <1>2, <1>4 DEF IInv, Limited, Exists
<1>11. ReadRows'
  <2> SUFFICES ASSUME NEW r \in Requests, request[r].at = "extend"
               PROVE  request[r].session # s
    BY <1>1, <1>2, RequestType DEF IInv, ReadRows, ReadRow, RememberedRow, Exists
  <2> QED
    BY <1>1 DEF IInv, ReadRows, ReadRow
<1> QED
  BY <1>5, <1>6, <1>7, <1>9, <1>10, <1>11 DEF Safe

\* Steps that leave every row in place, but for its updated_at.
LEMMA RowsKept ==
  ASSUME IInv, TypeOK', UNCHANGED <<now, spent>>,
         \A s \in SessionIds :
           \/ sessions'[s] = sessions[s]
           \/ Exists(s) /\ sessions'[s] = [sessions[s] EXCEPT !.updated = now],
         \A s \in SessionIds :
           \/ accessUntil'[s] = accessUntil[s]
           \/ /\ Exists(s) /\ now <= sessions[s].expires
              /\ accessUntil'[s] = now + AccessTTL,
         \A r \in Requests :
           \/ request'[r] = request[r]
           \/ request'[r].at # "extend"
           \/ \E s \in SessionIds :
                /\ Exists(s) /\ sessions[s].remember /\ now <= sessions[s].expires
                /\ sessions[s].version = UserVersion
                /\ request'[r] = [at |-> "extend", session |-> s, since |-> now,
                                  row |-> sessions[s]]
  PROVE  Safe'
<1>1. /\ now \in Nat
      /\ \A s \in SessionIds : /\ Exists(s) => sessions[s] \in Rows
                              /\ accessUntil[s] \in Nat /\ accessUntil'[s] \in Nat
  BY DEF IInv, TypeOK, Exists
<1>2. \A s \in SessionIds : Exists(s)' <=> Exists(s)
  <2> SUFFICES ASSUME NEW s \in SessionIds, Exists(s),
                      sessions'[s] = [sessions[s] EXCEPT !.updated = now]
               PROVE  sessions'[s] # NoRow
    BY DEF Exists
  <2> QED
    BY <1>1, RowWrites, NoRowAssumption
<1>3. \A s \in SessionIds : Exists(s) =>
        /\ sessions'[s].created = sessions[s].created
        /\ sessions'[s].expires = sessions[s].expires
        /\ sessions'[s].version = sessions[s].version
        /\ sessions'[s].remember = sessions[s].remember
        /\ sessions'[s].maxRenewal = sessions[s].maxRenewal
  <2> SUFFICES ASSUME NEW s \in SessionIds, Exists(s),
                      sessions'[s] = [sessions[s] EXCEPT !.updated = now]
               PROVE  /\ sessions'[s].created = sessions[s].created
                      /\ sessions'[s].expires = sessions[s].expires
                      /\ sessions'[s].version = sessions[s].version
                      /\ sessions'[s].remember = sessions[s].remember
                      /\ sessions'[s].maxRenewal = sessions[s].maxRenewal
    OBVIOUS
  <2>1. sessions[s] \in Rows
    BY <1>1
  <2> QED
    BY <2>1 DEF Rows
<1>4. \A s \in SessionIds : accessUntil[s] > 0 => accessUntil'[s] > 0
  <2> SUFFICES ASSUME NEW s \in SessionIds, Exists(s), accessUntil'[s] = now + AccessTTL
               PROVE  accessUntil'[s] > 0
    OBVIOUS
  <2> QED
    BY <1>1 DEF IInv, TypeOK
<1>5. \A s \in SessionIds : Exists(s) => accessUntil[s] > 0
  BY <1>1 DEF IInv, FreshIds, Exists
<1>6. FreshIds'
  BY <1>1, <1>2, <1>4, <1>5 DEF IInv, FreshIds, Exists
<1>7. SpentBelow' /\ OneExtensionPerToken'
  BY <1>2, <1>3 DEF IInv, SpentBelow, OneExtensionPerToken
<1>8. AccessRecent'
  BY <1>1 DEF IInv, AccessRecent
<1>9. AccessEndsWithSession'
  BY <1>1, <1>2, <1>3 DEF IInv, AccessEndsWithSession, Rows
<1>10. Limited'
  BY <1>2, <1>3 DEF IInv, Limited
<1>11. RememberedRows'
  BY <1>2, <1>3 DEF IInv, RememberedRows, RememberedRow
<1>12. ReadRows'
  <2> SUFFICES ASSUME NEW r \in Requests, request'[r].at = "extend"
               PROVE  ReadRow(request[r].row, request[r].session, request[r].since)'
    BY DEF ReadRows
  <2>1. CASE request'[r] = request[r]
    <3>1. request[r].session \in SessionIds
      BY <2>1, RequestType DEF IInv
    <3>2. ReadRow(request[r].row, request[r].session, request[r].since)
      BY <2>1 DEF IInv, ReadRows
    <3> QED
      BY <2>1, <3>1, <3>2, <1>2, <1>3, <1>4 DEF ReadRow, RememberedRow
  <2>2. ASSUME NEW s \in SessionIds,
               Exists(s), sessions[s].remember, now <= sessions[s].expires,
               sessions[s].version = UserVersion,
               request'[r] = [at |-> "extend", session |-> s, since |-> now,
                              row |-> sessions[s]]
        PROVE  ReadRow(request[r].row, request[r].session, request[r].since)'
    <3>1. RememberedRow(sessions[s])
      BY <2>2 DEF IInv, RememberedRows
    <3>2. accessUntil'[s] > 0
      BY <2>2, <1>4, <1>5
    <3>3. now <= now + 1
      BY <1>1
    <3>4. /\ request'[r].row = sessions[s] /\ request'[r].session = s
          /\ request'[r].since = now
      BY <2>2
    <3> QED
      BY <2>2, <3>1, <3>2, <3>3, <3>4, <1>3 DEF ReadRow, RememberedRow
  <2> QED
    BY <2>1, <2>2
<1> QED
  BY <1>6, <1>7, <1>8, <1>9, <1>10, <1>11, <1>12 DEF Safe

\* The expired row is deleted, or another row that has taken its id since.
LEMMA InvalidateStep ==
  ASSUME IInv, NEW r \in Requests, InvalidateSession(r)
  PROVE  Safe'
<1>1. /\ UNCHANGED <<now, accessUntil, spent>>
      /\ \A s \in SessionIds : sessions'[s] = sessions[s] \/ sessions'[s] = NoRow
      /\ \A q \in Requests : request'[q] = request[q] \/ request'[q] = Idle
  BY DEF InvalidateSession, IInv, TypeOK
<1>2. FreshIds' /\ SpentBelow' /\ OneExtensionPerToken'
  BY <1>1 DEF IInv, FreshIds, SpentBelow, OneExtensionPerToken, Exists
<1>3. AccessRecent' /\ AccessEndsWithSession' /\ Limited'
  BY <1>1 DEF IInv, AccessRecent, AccessEndsWithSession, Limited, Exists
<1>4. RememberedRows'
  BY <1>1 DEF IInv, RememberedRows, RememberedRow, Exists
<1>5. ReadRows'
  <2> SUFFICES ASSUME NEW q \in Requests, request'[q].at = "extend"
               PROVE  ReadRow(request[q].row, request[q].session, request[q].since)'
    BY DEF ReadRows
  <2>1. request'[q] = request[q] /\ request[q].at # "idle"
    BY <1>1 DEF Idle
  <2>2. request[q].session \in SessionIds
    BY <2>1, RequestType DEF IInv
  <2>3. ReadRow(request[q].row, request[q].session, request[q].since)
    BY <2>1 DEF IInv, ReadRows
  <2> QED
    BY <1>1, <2>1, <2>2, <2>3 DEF ReadRow, RememberedRow, Exists
<1> QED
  BY <1>2, <1>3, <1>4, <1>5 DEF Safe

LEMMA AppendFacts ==
  ASSUME NEW sq \in Seq(Nat), NEW v \in Nat
  PROVE  /\ Len(sq) \in Nat
         /\ Len(Append(sq, v)) = Len(sq) + 1
         /\ Append(sq, v)[Len(sq) + 1] = v
         /\ \A i \in 1..Len(sq) : Append(sq, v)[i] = sq[i] /\ sq[i] \in Nat
OBVIOUS

\* The compare-and-set succeeds: the row is the one that was read, its version
\* moves past every version spent, and the new expiry is neither before now nor
\* past the six months.
LEMMA ExtendStep ==
  ASSUME IInv, NEW r \in Requests, Extend(r), TypeOK',
         NEW s, s = request[r].session, NEW row, row = request[r].row
  PROVE  Safe'
<1> DEFINE v == sessions[s].version
<1>1. /\ s \in SessionIds /\ row \in Rows /\ sessions[s] \in Rows
      /\ Exists(s) /\ v = row.version /\ request[r].since \in Nat
      /\ ReadRow(row, s, request[r].since)
  BY RequestType DEF Extend, UnchangedSince, Exists, IInv, TypeOK, ReadRows
<1>2. now \in Nat /\ now' = now
  BY DEF Extend, IInv, TypeOK
<1>3. /\ sessions[s].remember /\ sessions[s].created = row.created
      /\ sessions[s].maxRenewal = row.maxRenewal
      /\ row.maxRenewal = row.created + SixMonths
      /\ row.expires = row.created + RememberTTL
      /\ row.created \in Epoch..now /\ now <= row.expires + 1
      /\ row.version = UserVersion
  BY <1>1, <1>2 DEF ReadRow, RememberedRow, Rows, IInv, RememberedRows
<1>4. /\ NewExpiry(row) \in Nat
      /\ now <= NewExpiry(row) /\ NewExpiry(row) <= row.maxRenewal
  BY <1>1, <1>2, <1>3 DEF NewExpiry, Least, Rows
<1>5. /\ sessions'[s] = ExtendedRow(sessions[s], NewExpiry(row))
      /\ \A t \in SessionIds : t # s => /\ sessions'[t] = sessions[t]
                                       /\ accessUntil'[t] = accessUntil[t]
                                       /\ spent'[t] = spent[t]
  <2>1. accessUntil' = accessUntil \/ accessUntil' = [accessUntil EXCEPT ![s] = now + AccessTTL]
    BY DEF Extend, GrantAccess
  <2>2. spent' = [spent EXCEPT ![s] = Append(spent[s], row.version)]
    BY DEF Extend
  <2> QED
    BY <1>1, <2>1, <2>2, ExtendWrites DEF IInv, TypeOK
<1>6. /\ sessions'[s].expires = NewExpiry(row) /\ sessions'[s].version = v + 1
      /\ sessions'[s].created = row.created /\ sessions'[s].remember
      /\ sessions'[s].maxRenewal = row.maxRenewal
  BY <1>1, <1>3, <1>5 DEF ExtendedRow, Rows
<1>7. Exists(s)' /\ v \in Nat
  <2>1. ExtendedRow(sessions[s], NewExpiry(row)) \in Rows
    BY <1>1, <1>2, <1>4, RowWrites
  <2>2. v \in Nat
    BY <1>1 DEF Rows
  <2> QED
    BY <1>5, <2>1, <2>2, NoRowAssumption DEF Exists
<1>8. /\ accessUntil[s] \in Nat /\ accessUntil[s] > 0 /\ accessUntil'[s] > 0
      /\ accessUntil'[s] = accessUntil[s] \/ accessUntil'[s] = now + AccessTTL
  <2>1. accessUntil' = accessUntil \/ accessUntil' = [accessUntil EXCEPT ![s] = now + AccessTTL]
    BY DEF Extend, GrantAccess
  <2>2. now > 0 /\ accessUntil \in [SessionIds -> Nat]
    BY DEF IInv, TypeOK
  <2> QED
    BY <2>1, <2>2, <1>1, <1>2 DEF ReadRow
<1>9. /\ spent'[s] = Append(spent[s], v)
      /\ spent[s] \in Seq(Nat)
  BY <1>1 DEF Extend, IInv, TypeOK
<1>10. FreshIds'
  BY <1>5, <1>8 DEF IInv, FreshIds
<1>11. SpentBelow' /\ OneExtensionPerToken'
  <2>1. /\ Len(spent'[s]) = Len(spent[s]) + 1 /\ Len(spent[s]) \in Nat
        /\ spent'[s][Len(spent[s]) + 1] = v
        /\ \A i \in 1..Len(spent[s]) : spent'[s][i] = spent[s][i] /\ spent[s][i] \in Nat
    BY <1>7, <1>9, AppendFacts
  <2>2. \A i \in 1..Len(spent[s]) : spent[s][i] < v
    BY <1>1 DEF IInv, SpentBelow
  <2>3. \A i \in 1..Len(spent'[s]) : spent'[s][i] < v + 1
    <3> SUFFICES ASSUME NEW i \in 1..Len(spent'[s]) PROVE spent'[s][i] < v + 1
      OBVIOUS
    <3>1. CASE i = Len(spent[s]) + 1
      BY <2>1, <3>1, <1>7
    <3>2. CASE i \in 1..Len(spent[s])
      <4>1. spent'[s][i] \in Nat /\ spent'[s][i] < v
        BY <2>1, <2>2, <3>2
      <4> QED
        BY <4>1, <1>7
    <3> QED
      BY <2>1, <3>1, <3>2
  <2>4. \A i, j \in 1..Len(spent'[s]) : spent'[s][i] = spent'[s][j] => i = j
    <3>1. \A i, j \in 1..Len(spent[s]) : spent[s][i] = spent[s][j] => i = j
      BY <1>1 DEF IInv, OneExtensionPerToken
    <3>2. \A i \in 1..Len(spent'[s]) : i \in 1..Len(spent[s]) \/ i = Len(spent[s]) + 1
      BY <2>1
    <3>3. \A i \in 1..Len(spent[s]) : spent'[s][i] # v
      BY <2>1, <2>2, <1>7
    <3>4. spent'[s][Len(spent[s]) + 1] = v
      BY <2>1
    <3>5. \A i \in 1..Len(spent[s]) : spent'[s][i] = spent[s][i]
      BY <2>1
    <3> QED
      BY <3>1, <3>2, <3>3, <3>4, <3>5
  <2>5. SpentBelow'
    BY <2>3, <1>5, <1>6 DEF IInv, SpentBelow, Exists
  <2>6. OneExtensionPerToken'
    BY <2>4, <1>5 DEF IInv, OneExtensionPerToken
  <2> QED
    BY <2>5, <2>6
<1>12. AccessRecent'
  BY <1>2, <1>5, <1>8 DEF IInv, AccessRecent
<1>13. AccessEndsWithSession'
  <2>1. accessUntil'[s] <= now + AccessTTL
    BY <1>1, <1>2, <1>8 DEF IInv, AccessRecent
  <2>2. accessUntil'[s] <= sessions'[s].expires + AccessTTL
    BY <2>1, <1>2, <1>4, <1>6, <1>8
  <2> QED
    BY <2>2, <1>5 DEF IInv, AccessEndsWithSession, Exists
<1>14. Limited'
  BY <1>4, <1>5, <1>6 DEF IInv, Limited, Exists
<1>15. RememberedRows'
  <2>1. RememberedRow(sessions[s])'
    <3>1. sessions'[s].version # UserVersion
      BY <1>3, <1>6, <1>1
    <3> QED
      BY <1>2, <1>3, <1>6, <3>1 DEF RememberedRow
  <2>2. ASSUME NEW t \in SessionIds, t # s, Exists(t)', sessions'[t].remember
        PROVE  RememberedRow(sessions[t])'
    BY <2>2, <1>2, <1>5 DEF IInv, RememberedRows, RememberedRow, Exists
  <2> QED
    <3> SUFFICES ASSUME NEW t \in SessionIds, Exists(t)', sessions'[t].remember
                 PROVE  RememberedRow(sessions[t])'
      BY DEF RememberedRows
    <3> QED
      BY <2>1, <2>2
<1>16. ReadRows'
  <2> SUFFICES ASSUME NEW q \in Requests, request'[q].at = "extend"
               PROVE  ReadRow(request[q].row, request[q].session, request[q].since)'
    BY DEF ReadRows
  <2> DEFINE t == request[q].session
  <2>1. request'[q] = request[q] /\ request[q].at # "idle"
    BY DEF Extend, Idle, IInv, TypeOK
  <2>2. t \in SessionIds
    BY <2>1, RequestType DEF IInv
  <2>3. ReadRow(request[q].row, t, request[q].since)
    BY <2>1 DEF IInv, ReadRows
  <2>4. CASE t = s
    BY <2>1, <2>3, <2>4, <1>1, <1>2, <1>3, <1>6, <1>8 DEF ReadRow, RememberedRow
  <2>5. CASE t # s
    BY <2>1, <2>2, <2>3, <2>5, <1>2, <1>5 DEF ReadRow, RememberedRow, Exists
  <2> QED
    BY <2>4, <2>5
<1> QED
  BY <1>10, <1>11, <1>12, <1>13, <1>14, <1>15, <1>16 DEF Safe

LEMMA NextIInv == IInv /\ [Next]_vars => IInv'
<1> SUFFICES ASSUME IInv, [Next]_vars PROVE IInv'
  OBVIOUS
<1>1. TypeOK'
  BY NextTypeOK DEF IInv
<1>2. Safe'
  <2> USE DEF IInv, TypeOK
  <2>1. CASE Tick
    BY <2>1, TickStep
  <2>2. ASSUME NEW s \in SessionIds, NEW remember \in BOOLEAN, SignIn(s, remember)
        PROVE Safe'
    BY <2>2, <1>1, SignInStep
  <2>3. ASSUME NEW s \in SessionIds, UpdateLastUsed(s) PROVE Safe'
    BY <2>3, <1>1, RowsKept DEF UpdateLastUsed
  <2>4. ASSUME NEW r \in Requests, NEW tok \in issued, FindOver(r, tok[1], tok[2])
        PROVE Safe'
    BY <2>4, <1>1, RowsKept DEF FindOver
  <2>5. ASSUME NEW r \in Requests, InvalidateSession(r) PROVE Safe'
    BY <2>5, InvalidateStep
  <2>6. ASSUME NEW r \in Requests, NEW tok \in issued, Refresh(r, tok[1], tok[2])
        PROVE Safe'
    <3>1. /\ tok[1] \in SessionIds /\ Exists(tok[1])
          /\ accessUntil' = [accessUntil EXCEPT ![tok[1]] = now + AccessTTL]
      BY <2>6 DEF Refresh, GrantAccess, Accepted
    <3>2. now <= sessions[tok[1]].expires
      BY <2>6, <3>1 DEF Refresh, Accepted, Expired, Exists, Rows
    <3>3. /\ UNCHANGED <<now, spent, sessions, request>>
          /\ \A s \in SessionIds :
               \/ accessUntil'[s] = accessUntil[s]
               \/ s = tok[1] /\ accessUntil'[s] = now + AccessTTL
      BY <2>6, <3>1 DEF Refresh
    <3> QED
      BY <1>1, <3>1, <3>2, <3>3, RowsKept
  <2>7. ASSUME NEW r \in Requests, NEW tok \in issued, StartExtend(r, tok[1], tok[2])
        PROVE Safe'
    <3>1. /\ tok[1] \in SessionIds /\ Exists(tok[1])
          /\ sessions[tok[1]].remember /\ sessions[tok[1]].version = UserVersion
      BY <2>7 DEF StartExtend, Accepted, CanExtend
    <3>2. now <= sessions[tok[1]].expires
      BY <2>7, <3>1 DEF StartExtend, Accepted, Expired, Exists, Rows
    <3>3. /\ UNCHANGED <<now, spent, sessions, accessUntil>>
          /\ \A q \in Requests :
               \/ request'[q] = request[q]
               \/ request'[q] = [at |-> "extend", session |-> tok[1], since |-> now,
                                 row |-> sessions[tok[1]]]
      BY <2>7 DEF StartExtend
    <3> QED
      BY <1>1, <3>1, <3>2, <3>3, RowsKept
  <2>8. ASSUME NEW r \in Requests, Extend(r) PROVE Safe'
    BY <2>8, <1>1, ExtendStep
  <2>9. ASSUME NEW r \in Requests, GiveUp(r) PROVE Safe'
    BY <2>9, <1>1, RowsKept DEF GiveUp, Idle
  <2>10. CASE UNCHANGED vars
    BY <2>10, <1>1, RowsKept DEF vars
  <2> QED
    BY <2>1, <2>2, <2>3, <2>4, <2>5, <2>6, <2>7, <2>8, <2>9, <2>10 DEF Next, RefreshStep
<1> QED
  BY <1>1, <1>2 DEF IInv, Safe

THEOREM Invariance == Spec => []IInv
BY InitIInv, NextIInv, PTL DEF Spec

\* However many requests present one refresh token, at most one extends its
\* session: the compare-and-set of ExtendSessionAndGenerateRefreshToken.
THEOREM ExtendedOncePerToken == Spec => []OneExtensionPerToken
BY Invariance, PTL DEF IInv

\* Access granted by refreshToken ends at most AccessTTL after the session.
THEOREM AccessIsBounded == Spec => []AccessEndsWithSession
BY Invariance, PTL DEF IInv

\* Every state is well typed and no remembered session outlives six months,
\* although the extension misreads max_renewal_duration.
THEOREM RenewalIsBounded == Spec => []WithinMaxRenewal
<1>1. IInv => WithinMaxRenewal
  BY DEF IInv, Limited, WithinMaxRenewal
<1> QED
  BY Invariance, <1>1, PTL

-----------------------------------------------------------------------------
(* One session, one life.                                                  *)

\* What a handler that is about to delete a row found out: that the session is
\* past its expiry, unless it has been extended.
Late(s) == Exists(s) /\ sessions[s].version = UserVersion => now > sessions[s].expires

OverReads ==
  \A r \in Requests : request[r].at = "over" =>
    accessUntil[request[r].session] > 0 /\ Late(request[r].session)

Lives  == [s \in SessionIds |-> LifeOf(s)]
Limits == [s \in SessionIds |-> IF Exists(s) THEN sessions[s].expires ELSE 0]

\* A session that nothing happens to stays what it is.
LEMMA LifeKept ==
  ASSUME \A s \in SessionIds :
           /\ sessions'[s] = sessions[s] \/ (Exists(s) /\ sessions'[s] = [sessions[s] EXCEPT !.updated = now])
           /\ accessUntil'[s] = accessUntil[s] \/ (Exists(s) /\ accessUntil'[s] > 0),
         TypeOK, TypeOK'
  PROVE  /\ Lives' = Lives /\ Limits' = Limits
         /\ \A s \in SessionIds : Exists(s)' = Exists(s)
<1>1. \A s \in SessionIds : Exists(s) => sessions[s] \in Rows
  BY DEF TypeOK, Exists
<1>2. \A s \in SessionIds : Exists(s) =>
        /\ [sessions[s] EXCEPT !.updated = now].version = sessions[s].version
        /\ [sessions[s] EXCEPT !.updated = now].expires = sessions[s].expires
        /\ [sessions[s] EXCEPT !.updated = now] \in Rows
  <2> TAKE s \in SessionIds
  <2> HAVE Exists(s)
  <2>1. sessions[s] \in Rows /\ now \in Nat
    BY <1>1 DEF TypeOK
  <2>2. [sessions[s] EXCEPT !.updated = now] \in Rows
    BY <2>1, RowWrites
  <2> QED
    BY <2>1, <2>2 DEF Rows
<1>3. \A s \in SessionIds : Exists(s)' = Exists(s)
  BY <1>2, NoRowAssumption DEF Exists
<1>4. \A s \in SessionIds : LifeOf(s)' = LifeOf(s)
  BY <1>2, <1>3 DEF LifeOf, Exists
<1> QED
  BY <1>2, <1>3, <1>4 DEF Lives, Limits, Exists


LEMMA OverReadsKept ==
  ASSUME IInv, OverReads, TypeOK', now' >= now,
         \A s \in SessionIds : accessUntil[s] > 0 =>
           accessUntil'[s] > 0 /\ (Late(s) => Late(s)'),
         \A r \in Requests : request'[r].at = "over" =>
           \/ request'[r] = request[r]
           \/ \E s \in SessionIds : request'[r].session = s /\ accessUntil'[s] > 0 /\ Late(s)'
  PROVE  OverReads'
<1> SUFFICES ASSUME NEW r \in Requests, request'[r].at = "over"
             PROVE  (accessUntil[request[r].session] > 0 /\ Late(request[r].session))'
  BY DEF OverReads
<1>1. ASSUME NEW s \in SessionIds, request'[r].session = s, accessUntil'[s] > 0, Late(s)'
      PROVE  (accessUntil[request[r].session] > 0 /\ Late(request[r].session))'
  BY <1>1 DEF Late, Exists
<1>2. CASE request'[r] = request[r]
  <2>1. request[r].session \in SessionIds
    BY <1>2, RequestType DEF IInv, Idle
  <2>2. accessUntil[request[r].session] > 0 /\ Late(request[r].session)
    BY <1>2 DEF OverReads
  <2> QED
    BY <1>1, <1>2, <2>1, <2>2
<1> QED
  BY <1>1, <1>2

LEMMA OverReadsUsed ==
  ASSUME IInv, OverReads, TypeOK', now' = now, request' = request,
         \A s \in SessionIds : accessUntil[s] > 0 => accessUntil'[s] > 0,
         \A s \in SessionIds :
           \/ sessions'[s] = sessions[s]
           \/ Exists(s) /\ sessions'[s] = [sessions[s] EXCEPT !.updated = now]
  PROVE  OverReads'
<1>1. now \in Nat /\ \A s \in SessionIds : Exists(s) => sessions[s] \in Rows
  BY DEF IInv, TypeOK, Exists
<1>2. \A s \in SessionIds : Late(s) => Late(s)'
  BY <1>1 DEF Late, Exists, Rows
<1> QED
  BY <1>1, <1>2, OverReadsKept

LEMMA NextOverReads == IInv /\ IInv' /\ OverReads /\ [Next]_vars => OverReads'
<1> SUFFICES ASSUME IInv, IInv', OverReads, [Next]_vars PROVE OverReads'
  OBVIOUS
<1>t. /\ now \in Nat /\ \A s \in SessionIds : Exists(s) => sessions[s] \in Rows
      /\ TypeOK /\ TypeOK'
      /\ accessUntil \in [SessionIds -> Nat]
  BY DEF IInv, TypeOK, Exists
<1>1. CASE Tick
  <2>1. \A s \in SessionIds : Late(s) => Late(s)'
    BY <1>t, <1>1 DEF Tick, Late, Exists, Rows
  <2> QED
    BY <1>t, <1>1, <2>1, OverReadsKept DEF Tick
<1>2. ASSUME NEW s \in SessionIds, NEW remember \in BOOLEAN, SignIn(s, remember)
      PROVE  OverReads'
  <2>1. \A x \in SessionIds \ {s} : sessions'[x] = sessions[x] /\ accessUntil'[x] = accessUntil[x]
    BY <1>t, <1>2 DEF SignIn, IInv, TypeOK
  <2>2. accessUntil[s] = 0 /\ now' = now /\ request' = request
    BY <1>2 DEF SignIn
  <2> QED
    BY <1>t, <2>1, <2>2, OverReadsKept DEF Late, Exists
<1>3. ASSUME NEW s \in SessionIds, UpdateLastUsed(s) PROVE OverReads'
  BY <1>t, <1>3, OverReadsUsed DEF UpdateLastUsed
<1>4. ASSUME NEW r \in Requests, NEW tok \in issued, FindOver(r, tok[1], tok[2])
      PROVE  OverReads'
  <2> DEFINE s == tok[1]
  <2>1. s \in SessionIds
    BY DEF IInv, TypeOK
  <2>2. Exists(s) /\ accessUntil[s] > 0
    BY <1>4, <1>t, <2>1 DEF FindOver, IInv, FreshIds, Exists
  <2>3. Expired(s)
    BY <1>4, <1>t, <2>1, <2>2 DEF FindOver, IInv, Limited, PastMaxRenewal, Rows
  <2>4. /\ UNCHANGED <<now, sessions, accessUntil>>
        /\ \A q \in Requests : request'[q] = request[q] \/ request'[q].session = s
    BY <1>4 DEF FindOver, IInv, TypeOK
  <2>5. Late(s)' /\ \A x \in SessionIds : Late(x)' = Late(x)
    BY <2>3, <2>4 DEF Late, Expired, Exists
  <2> QED
    BY <1>t, <2>1, <2>2, <2>4, <2>5, OverReadsKept
<1>5. ASSUME NEW r \in Requests, InvalidateSession(r) PROVE OverReads'
  <2>1. /\ UNCHANGED <<now, accessUntil>>
        /\ \A s \in SessionIds : sessions'[s] = sessions[s] \/ sessions'[s] = NoRow
        /\ \A q \in Requests : request'[q] = request[q] \/ request'[q] = Idle
    BY <1>5 DEF InvalidateSession, IInv, TypeOK
  <2>2. \A s \in SessionIds : Late(s) => Late(s)'
    BY <2>1 DEF Late, Exists
  <2> QED
    BY <1>t, <2>1, <2>2, OverReadsKept DEF Idle
<1>6. ASSUME NEW r \in Requests, NEW tok \in issued, Refresh(r, tok[1], tok[2])
      PROVE  OverReads'
  <2>1. UNCHANGED <<now, request, sessions>>
    BY <1>6 DEF Refresh
  <2>2. \A s \in SessionIds : accessUntil[s] > 0 => accessUntil'[s] > 0
    BY <1>6, <1>t DEF Refresh, GrantAccess, IInv, TypeOK
  <2> QED
    BY <1>t, <2>1, <2>2, OverReadsUsed
<1>7. ASSUME NEW r \in Requests, NEW tok \in issued, StartExtend(r, tok[1], tok[2])
      PROVE  OverReads'
  <2>1. /\ UNCHANGED <<now, sessions, accessUntil>>
        /\ \A q \in Requests : request'[q] = request[q] \/ request'[q].at = "extend"
    BY <1>7 DEF StartExtend, IInv, TypeOK
  <2> QED
    BY <1>t, <2>1, OverReadsKept DEF Late, Exists
<1>8. ASSUME NEW r \in Requests, Extend(r) PROVE OverReads'
  <2> DEFINE s == request[r].session
             e == NewExpiry(request[r].row)
  <2>1. /\ s \in SessionIds /\ request[r].row.version = UserVersion
        /\ Exists(s) /\ sessions[s].version = UserVersion
    BY <1>8, <1>t, RequestType DEF Extend, UnchangedSince, IInv, ReadRows, ReadRow, Idle
  <2>2. /\ UNCHANGED now
        /\ \A x \in SessionIds \ {s} : sessions'[x] = sessions[x]
        /\ \A q \in Requests : request'[q] = request[q] \/ request'[q] = Idle
    BY <1>8, <1>t DEF Extend, IInv, TypeOK
  <2>3. sessions'[s] = ExtendedRow(sessions[s], e)
    BY <1>8, <1>t, <2>1, ExtendWrites DEF IInv, TypeOK
  <2>4. sessions'[s].version = UserVersion + 1
    BY <1>t, <2>1, <2>3 DEF ExtendedRow, Rows
  <2>5. \A x \in SessionIds : accessUntil[x] > 0 => accessUntil'[x] > 0
    <3>1. \/ accessUntil' = accessUntil
          \/ accessUntil' = [accessUntil EXCEPT ![s] = now + AccessTTL]
      BY <1>8 DEF Extend, GrantAccess
    <3>2. now > 0
      BY DEF IInv, TypeOK
    <3> QED
      BY <1>t, <2>1, <3>1, <3>2
  <2>6. \A x \in SessionIds : Late(x) => Late(x)'
    BY <2>2, <2>4 DEF Late, Exists
  <2> QED
    BY <1>t, <2>2, <2>5, <2>6, OverReadsKept DEF Idle
<1>9. ASSUME NEW r \in Requests, GiveUp(r) PROVE OverReads'
  <2>1. /\ UNCHANGED <<now, sessions, accessUntil>>
        /\ \A q \in Requests : request'[q] = request[q] \/ request'[q] = Idle
    BY <1>9 DEF GiveUp, IInv, TypeOK
  <2> QED
    BY <1>t, <2>1, OverReadsKept DEF Late, Exists, Idle
<1>10. CASE UNCHANGED vars
  BY <1>t, <1>10, OverReadsUsed DEF vars
<1> QED
  BY <1>1, <1>2, <1>3, <1>4, <1>5, <1>6, <1>7, <1>8, <1>9, <1>10 DEF Next, RefreshStep

-----------------------------------------------------------------------------
\* The steps of the handlers, and what they are in the life of the session.

\* All sessions but s stay what they are.
OthersLive(s) ==
  \A x \in SessionIds \ {s} : sessions'[x] = sessions[x] /\ accessUntil'[x] = accessUntil[x]

LEMMA OneLife ==
  ASSUME NEW s \in SessionIds, OthersLive(s),
         NEW l, l = LifeOf(s)', NEW e, e = Limits'[s]
  PROVE  Lives' = [Lives EXCEPT ![s] = l] /\ Limits' = [Limits EXCEPT ![s] = e]
<1>1. \A x \in SessionIds \ {s} : LifeOf(x)' = LifeOf(x) /\ Exists(x)' = Exists(x)
  BY DEF OthersLive, LifeOf, Exists
<1>2. Lives' = [Lives EXCEPT ![s] = l]
  BY <1>1 DEF Lives
<1>3. \A x \in SessionIds \ {s} : Limits'[x] = Limits[x]
  BY <1>1 DEF Limits, OthersLive
<1>4. Limits' = [Limits EXCEPT ![s] = e]
  BY <1>3 DEF Limits
<1> QED
  BY <1>2, <1>4

LEMMA SignInBegins ==
  ASSUME IInv, TypeOK', NEW s \in SessionIds, NEW remember \in BOOLEAN, SignIn(s, remember)
  PROVE  Life!Begin(s)
<1> DEFINE ttl == IF remember THEN RememberTTL ELSE RefreshTTL
<1>1. /\ now \in Nat /\ now' = now /\ OthersLive(s)
      /\ accessUntil' = [accessUntil EXCEPT ![s] = now + AccessTTL]
      /\ LifeOf(s) = "unborn"
  BY DEF SignIn, IInv, TypeOK, OthersLive, LifeOf, Exists
<1>2. sessions'[s].expires = now + ttl /\ sessions'[s].version = UserVersion
  BY DEF SignIn, IInv, TypeOK
<1>3. sessions'[s] \in Rows
  BY <1>1 DEF SignIn, IInv, TypeOK, Rows
<1>4. Exists(s)'
  BY <1>3, NoRowAssumption DEF Exists
<1>5. LifeOf(s)' = "fresh" /\ Limits'[s] = now + ttl
  BY <1>2, <1>4 DEF LifeOf, Limits, Exists
<1>6. Lives' = [Lives EXCEPT ![s] = "fresh"] /\ Limits' = [Limits EXCEPT ![s] = now + ttl]
  BY <1>1, <1>5, OneLife
<1>7. Lives[s] = "unborn" /\ ttl \in {RefreshTTL, RememberTTL}
  BY <1>1 DEF Lives
<1> QED
  BY <1>1, <1>6, <1>7 DEF Life!Begin, Life!Become, Life!Prolong, Life!Grant, Lives, Limits

LEMMA RefreshRefreshes ==
  ASSUME IInv, TypeOK', NEW r \in Requests, NEW tok \in issued, Refresh(r, tok[1], tok[2])
  PROVE  tok[1] \in SessionIds /\ Life!Refresh(tok[1])
<1> DEFINE s == tok[1]
<1>1. /\ s \in SessionIds /\ now \in Nat /\ TypeOK
      /\ UNCHANGED <<now, sessions>>
      /\ accessUntil' = [accessUntil EXCEPT ![s] = now + AccessTTL]
      /\ accessUntil \in [SessionIds -> Nat]
  BY DEF Refresh, GrantAccess, IInv, TypeOK
<1>2. Exists(s) /\ sessions[s].version = UserVersion /\ ~Expired(s)
  BY DEF Refresh, Accepted
<1>3. sessions[s].expires \in Nat
  BY <1>1, <1>2 DEF TypeOK, Exists, Rows
<1>4. Lives[s] = "fresh" /\ now <= Limits[s]
  BY <1>1, <1>2, <1>3 DEF Lives, Limits, LifeOf, Expired
<1>5. now > 0
  BY DEF IInv, TypeOK
<1>6. Lives' = Lives /\ Limits' = Limits
  BY <1>1, <1>2, <1>5, LifeKept
<1> QED
  BY <1>1, <1>4, <1>6 DEF Life!Refresh, Life!Grant, Lives, Limits

\* The limit misread as a duration is so far off that an extension always gives
\* a whole new lifetime.
LEMMA ExtensionIsWhole ==
  ASSUME IInv, NEW r \in Requests, Extend(r)
  PROVE  NewExpiry(request[r].row) = now + RememberTTL
<1> DEFINE row == request[r].row
           since == request[r].since
<1>1. request[r].at = "extend"
  BY DEF Extend
<1>2. row \in Rows /\ since \in Nat /\ now \in Nat
  BY <1>1, RequestType DEF IInv, TypeOK, Idle
<1>3. ReadRow(row, request[r].session, since)
  BY <1>1 DEF IInv, ReadRows
<1>4. /\ row.created \in Nat /\ row.expires \in Nat
      /\ row.maxRenewal = row.created + SixMonths
      /\ row.expires = row.created + RememberTTL
      /\ since <= row.expires /\ now <= since + 1
  BY <1>2, <1>3 DEF ReadRow, RememberedRow, Rows
<1>5. now + RememberTTL <= row.created + row.maxRenewal
  BY <1>2, <1>4
<1> QED
  BY <1>2, <1>4, <1>5 DEF NewExpiry, Least

LEMMA ExtendExtends ==
  ASSUME IInv, TypeOK', NEW r \in Requests, Extend(r), NEW s, s = request[r].session
  PROVE  s \in SessionIds /\ Life!Extend(s)
<1> DEFINE row == request[r].row
           since == request[r].since
<1>1. /\ request[r].at = "extend" /\ now \in Nat /\ TypeOK /\ now' = now
      /\ Exists(s) /\ sessions[s].version = row.version
  <2>1. request[r].at = "extend" /\ UnchangedSince(row, s) /\ now' = now
    BY DEF Extend
  <2>2. TypeOK
    BY DEF IInv
  <2>3. now \in Nat
    BY <2>2 DEF TypeOK
  <2> QED
    BY <2>1, <2>2, <2>3 DEF UnchangedSince
<1>2. s \in SessionIds /\ row \in Rows /\ since \in Nat
  BY <1>1, RequestType DEF Idle
<1>3. ReadRow(row, s, since)
  BY <1>1 DEF IInv, ReadRows
<1>4. sessions[s] \in Rows /\ row.version = UserVersion
  BY <1>1, <1>2, <1>3 DEF TypeOK, Exists, ReadRow
<1>5. RememberedRow(sessions[s]) /\ sessions[s].created = row.created
  BY <1>1, <1>2, <1>3 DEF IInv, RememberedRows, ReadRow
<1>6. sessions[s].expires = row.expires
  BY <1>1, <1>3, <1>4, <1>5 DEF ReadRow, RememberedRow
<1>7. now <= sessions[s].expires + 1 /\ sessions[s].expires \in Nat
  BY <1>1, <1>2, <1>3, <1>4, <1>6 DEF ReadRow, Rows
<1>8. Lives[s] = "fresh" /\ now <= Limits[s] + 1
  BY <1>1, <1>2, <1>4, <1>7 DEF Lives, Limits, LifeOf
<1>9. OthersLive(s) /\ (accessUntil' = [accessUntil EXCEPT ![s] = now + AccessTTL]
                          \/ UNCHANGED accessUntil)
  BY <1>1, <1>2 DEF Extend, GrantAccess, OthersLive, TypeOK
<1>10. sessions'[s] = ExtendedRow(sessions[s], now + RememberTTL)
  BY <1>1, <1>2, ExtendWrites, ExtensionIsWhole DEF TypeOK
<1>11. /\ sessions'[s].version = UserVersion + 1 /\ sessions'[s].expires = now + RememberTTL
       /\ sessions'[s] \in Rows
  <2>1. now + RememberTTL \in Nat
    BY <1>1
  <2>2. sessions'[s] \in Rows
    BY <1>1, <1>4, <1>10, <2>1, RowWrites
  <2> QED
    BY <1>1, <1>4, <1>10, <2>2 DEF ExtendedRow, Rows
<1>12. LifeOf(s)' = "extended" /\ Limits'[s] = now + RememberTTL
  BY <1>2, <1>11, NoRowAssumption DEF LifeOf, Limits, Exists
<1>13. /\ Lives' = [Lives EXCEPT ![s] = "extended"]
       /\ Limits' = [Limits EXCEPT ![s] = now + RememberTTL]
  BY <1>2, <1>9, <1>12, OneLife
<1> QED
  BY <1>1, <1>2, <1>8, <1>9, <1>13 DEF Life!Extend, Life!Become, Life!Prolong, Life!Grant, Lives, Limits

\* The deletion of a row that is already gone changes nothing.
LEMMA InvalidateEnds ==
  ASSUME IInv, OverReads, TypeOK', NEW r \in Requests, InvalidateSession(r),
         NEW s, s = request[r].session
  PROVE  /\ s \in SessionIds
         /\ Life!End(s) \/ UNCHANGED <<now, Lives, Limits, accessUntil>>
<1>1. /\ request[r].at = "over" /\ now \in Nat /\ TypeOK /\ UNCHANGED <<now, accessUntil>>
      /\ sessions' = [sessions EXCEPT ![s] = NoRow]
  BY DEF InvalidateSession, IInv, TypeOK
<1>2. s \in SessionIds
  BY <1>1, RequestType DEF Idle
<1>3. accessUntil[s] # 0 /\ Late(s)
  BY <1>1, <1>2 DEF OverReads, TypeOK
<1>4. CASE ~Exists(s)
  <2>1. sessions' = sessions
    BY <1>1, <1>2, <1>4 DEF Exists, TypeOK
  <2> QED
    BY <1>1, <1>2, <2>1 DEF Lives, Limits, LifeOf, Exists
<1>5. CASE Exists(s)
  <2>1. Lives[s] = "extended" \/ (Lives[s] = "fresh" /\ now > Limits[s])
    BY <1>2, <1>3, <1>5 DEF Lives, Limits, LifeOf, Late
  <2>2. OthersLive(s) /\ sessions'[s] = NoRow
    BY <1>1, <1>2 DEF OthersLive, TypeOK
  <2>3. LifeOf(s)' = "ended" /\ Limits'[s] = 0
    BY <1>1, <1>2, <1>3, <2>2 DEF LifeOf, Limits, Exists
  <2>4. Lives' = [Lives EXCEPT ![s] = "ended"] /\ Limits' = [Limits EXCEPT ![s] = 0]
    BY <1>2, <2>2, <2>3, OneLife
  <2> QED
    BY <1>1, <1>2, <2>1, <2>4 DEF Life!End, Life!Become, Lives, Limits
<1> QED
  BY <1>2, <1>4, <1>5

LEMMA LifeStep ==
  ASSUME IInv, IInv', OverReads, [Next]_vars
  PROVE  [Life!LifeNext]_Life!lifeVars
<1> DEFINE Stutter == UNCHANGED <<now, Lives, Limits, accessUntil>>
           Allowed == Stutter \/ Life!LifeNext
<1>t. TypeOK /\ TypeOK'
  BY DEF IInv
<1>1. ASSUME Tick PROVE Allowed
  <2>1. UNCHANGED <<Lives, Limits, accessUntil>> /\ now' = now + 1
    BY <1>1 DEF Tick, Lives, Limits, LifeOf, Exists
  <2>2. Life!TimePasses
    BY <2>1 DEF Life!TimePasses, Lives, Limits
  <2> QED
    BY <2>2 DEF Life!LifeNext
<1>2. ASSUME NEW s \in SessionIds,
             Life!Begin(s) \/ Life!Refresh(s) \/ Life!Extend(s) \/ Life!End(s)
      PROVE  Allowed
  BY <1>2 DEF Life!LifeNext
<1>3. ASSUME NEW s \in SessionIds, NEW remember \in BOOLEAN, SignIn(s, remember)
      PROVE  Allowed
  BY <1>t, <1>2, <1>3, SignInBegins
<1>4. ASSUME NEW s \in SessionIds, UpdateLastUsed(s) PROVE Allowed
  <2>1. \A x \in SessionIds : sessions'[x] = sessions[x]
          \/ (Exists(x) /\ sessions'[x] = [sessions[x] EXCEPT !.updated = now])
    BY <1>t, <1>4 DEF UpdateLastUsed, TypeOK
  <2>2. Lives' = Lives /\ Limits' = Limits
    BY <1>t, <1>4, <2>1, LifeKept DEF UpdateLastUsed
  <2> QED
    BY <1>4, <2>2 DEF UpdateLastUsed
<1>5. ASSUME UNCHANGED <<now, sessions, accessUntil>> PROVE Allowed
  BY <1>5 DEF Lives, Limits, LifeOf, Exists
<1>6. ASSUME NEW r \in Requests, NEW tok \in issued,
             FindOver(r, tok[1], tok[2]) \/ StartExtend(r, tok[1], tok[2])
      PROVE  Allowed
  <2>1. UNCHANGED <<now, sessions, accessUntil>>
    BY <1>6 DEF FindOver, StartExtend
  <2> QED
    BY <2>1, <1>5
<1>7. ASSUME NEW r \in Requests, NEW tok \in issued, Refresh(r, tok[1], tok[2])
      PROVE  Allowed
  BY <1>t, <1>2, <1>7, RefreshRefreshes
<1>8. ASSUME NEW r \in Requests, InvalidateSession(r) PROVE Allowed
  BY <1>t, <1>2, <1>8, InvalidateEnds
<1>9. ASSUME NEW r \in Requests, Extend(r) PROVE Allowed
  BY <1>t, <1>2, <1>9, ExtendExtends
<1>10. ASSUME NEW r \in Requests, GiveUp(r) PROVE Allowed
  <2>1. UNCHANGED <<now, sessions, accessUntil>>
    BY <1>10 DEF GiveUp
  <2> QED
    BY <2>1, <1>5
<1>11. ASSUME UNCHANGED vars PROVE Allowed
  <2>1. UNCHANGED <<now, sessions, accessUntil>>
    BY <1>11 DEF vars
  <2> QED
    BY <2>1, <1>5
<1>12. Allowed
  <2> HIDE DEF Allowed
  <2> QED
    BY <1>1, <1>3, <1>4, <1>6, <1>7, <1>8, <1>9, <1>10, <1>11 DEF Next, RefreshStep
<1> QED
  BY <1>12 DEF Life!lifeVars, Lives, Limits

\* A session begins once, is extended at most once and in time, gives no access
\* afterwards, and nobody's DELETE ends it before its expiry unless it was
\* extended: sign-in, refreshToken and InvalidateSession, however they overlap,
\* do to a session what SessionLife lets happen to one.
THEOREM SessionsLiveOnce == Spec => ImplementsLife
<1>1. Init => Life!LifeInit
  BY DEF Init, Life!LifeInit, LifeOf, Exists
<1>2. Init => OverReads
  BY DEF Init, OverReads, Idle
<1>3. IInv /\ IInv' /\ OverReads /\ [Next]_vars => [Life!LifeNext]_Life!lifeVars
  BY LifeStep
<1> QED
  BY <1>1, <1>2, <1>3, NextOverReads, Invariance, PTL DEF Spec, ImplementsLife, Life!LifeSpec
=============================================================================
