------------------------- MODULE PasswordResetProofs -------------------------
(***************************************************************************)
(* Resetting a forgotten password is safe for any number of tokens and of  *)
(* handlers that work on them at the same time.                            *)
(***************************************************************************)
EXTENDS PasswordReset, TLAPS

\* What a handler knows: while it inserts a token, changes the password, and
\* deletes the user's tokens.
Inserting == [at : InsertPlaces, token : Tokens, payload : Payload, purpose : Purposes,
              since : Nat]
Changing  == [at : {"update password", "fetch hashes"}, token : Tokens, since : Nat]
Deleting  == [at : {"delete"}, token : Tokens, hashes : SUBSET Tokens, since : Nat]

HandlerStates == {Idle} \cup Inserting \cup Changing \cup Deleting

Busy(h) == handler[h] # Idle

Issuing(h) == handler[h] \in Inserting /\ handler[h].purpose = "issue"

\* A token that was never made has left no trace.
Fresh ==
  /\ \A t \in Tokens : expiry[t] = NoKey =>
       keys[t] = NoKey /\ t \notin mailed /\ t \notin guarded
  /\ resets \subseteq mailed

\* A token belongs to the handler that issues it until its link is mailed; the
\* other handlers work on tokens whose links have been mailed.
Turns ==
  /\ \A h \in Handlers : Busy(h) =>
       /\ expiry[handler[h].token] # NoKey
       /\ handler[h].token \in mailed <=> ~Issuing(h)
  /\ \A h, g \in Handlers :
       Issuing(h) /\ Issuing(g) /\ handler[h].token = handler[g].token => h = g
  /\ \A h \in Handlers :
       Issuing(h) /\ handler[h].at = "set key" => keys[handler[h].token] = NoKey

\* What the payload of a token says is true, in Redis and in every copy.
Truthful(t, p) ==
  /\ p.confirmed => t \in clicked
  /\ p.verified => t \in proved
  /\ t \in guarded => p.needs2fa

Payloads ==
  /\ \A t \in Tokens : keys[t] # NoKey => Truthful(t, keys[t].data)
  /\ \A h \in Handlers : handler[h] \in Inserting =>
       /\ Truthful(handler[h].token, handler[h].payload)
       /\ ~Issuing(h) => handler[h].payload.confirmed

\* The password may be changed with t.
Earned(t) == t \in clicked /\ (t \in guarded => t \in proved)

Changes ==
  /\ \A t \in resets : Earned(t)
  /\ \A h \in Handlers : handler[h].at = "update password" => Earned(handler[h].token)

IInv == /\ TypeOK
        /\ Fresh
        /\ Turns
        /\ Payloads
        /\ Changes

-----------------------------------------------------------------------------
(* The records.                                                            *)

LEMMA States ==
  /\ TypeOK => handler \in [Handlers -> HandlerStates]
  /\ \A w \in HandlerStates : w # Idle => w.token \in Tokens /\ w.since \in Nat
  /\ \A w \in HandlerStates : w.at \in InsertPlaces <=> w \in Inserting
  /\ \A w \in HandlerStates : w.at = "update password" => w \in Changing
  /\ \A w \in HandlerStates : w.at = "fetch hashes" => w \in Changing
  /\ \A w \in HandlerStates : w.at = "delete" => w \in Deleting
  /\ \A w \in Changing \cup Deleting : w \notin Inserting
  /\ Idle \notin Inserting \cup Changing \cup Deleting
  /\ Idle.at = "idle"
<1>1. TypeOK => handler \in [Handlers -> HandlerStates]
  BY DEF TypeOK, HandlerStates, Inserting, Changing, Deleting
<1>2. Idle.at = "idle"
  BY DEF Idle
<1> QED
  BY <1>1, <1>2 DEF HandlerStates, Inserting, Changing, Deleting, InsertPlaces

LEMMA InsertingMoves ==
  ASSUME NEW w \in Inserting, NEW place \in InsertPlaces
  PROVE  /\ [w EXCEPT !.at = place] \in Inserting
         /\ [w EXCEPT !.at = place].at = place
         /\ [w EXCEPT !.at = place].token = w.token
         /\ [w EXCEPT !.at = place].payload = w.payload
         /\ [w EXCEPT !.at = place].purpose = w.purpose
BY DEF Inserting

LEMMA ChangingMoves ==
  ASSUME NEW w \in Changing
  PROVE  /\ [w EXCEPT !.at = "fetch hashes"] \in Changing
         /\ [w EXCEPT !.at = "fetch hashes"].at = "fetch hashes"
         /\ [w EXCEPT !.at = "fetch hashes"].token = w.token
BY DEF Changing

LEMMA DeletingMoves ==
  ASSUME NEW w \in Deleting, NEW t \in Tokens
  PROVE  /\ [w EXCEPT !.hashes = @ \ {t}] \in Deleting
         /\ [w EXCEPT !.hashes = @ \ {t}].at = "delete"
         /\ [w EXCEPT !.hashes = @ \ {t}].token = w.token
<1>1. w.hashes \ {t} \in SUBSET Tokens
  BY DEF Deleting
<1> QED
  BY <1>1 DEF Deleting

LEMMA PayloadMarks ==
  ASSUME NEW p \in Payload
  PROVE  /\ [p EXCEPT !.confirmed = TRUE] \in Payload
         /\ [p EXCEPT !.confirmed = TRUE].confirmed
         /\ [p EXCEPT !.confirmed = TRUE].verified = p.verified
         /\ [p EXCEPT !.confirmed = TRUE].needs2fa = p.needs2fa
         /\ [p EXCEPT !.verified = TRUE] \in Payload
         /\ [p EXCEPT !.verified = TRUE].confirmed = p.confirmed
         /\ [p EXCEPT !.verified = TRUE].verified
         /\ [p EXCEPT !.verified = TRUE].needs2fa = p.needs2fa
BY DEF Payload

LEMMA SetExpires ==
  ASSUME NEW u \in [members : SUBSET Tokens, until : Nat \cup {Forever}], NEW n \in Nat
  PROVE  [u EXCEPT !.until = n] \in [members : SUBSET Tokens, until : Nat \cup {Forever}]
OBVIOUS

\* What a presented token tells.
LEMMA PresentedData ==
  ASSUME IInv, NEW h \in Handlers, NEW t \in Tokens, Presented(h, t)
  PROVE  /\ handler[h] = Idle /\ t \in mailed /\ expiry[t] # NoKey
         /\ Data(t) \in Payload /\ Truthful(t, Data(t))
<1>1. keys[t] # NoKey /\ keys[t] \in [data : Payload, until : Nat] \cup {NoKey}
  BY DEF IInv, TypeOK, StoreTypeOK, Presented, Live
<1> QED
  BY <1>1 DEF IInv, Presented, Fresh, Payloads, Data

LEMMA NowType == TypeOK => now \in Nat
<1>1. TypeOK => now \in 0..Horizon
  BY DEF TypeOK, StoreTypeOK
<1> QED
  BY <1>1, TokenStoreAssumptions

LEMMA BusyToken ==
  ASSUME IInv, NEW h \in Handlers, Busy(h)
  PROVE  /\ handler[h] \in HandlerStates
         /\ handler[h].token \in Tokens /\ expiry[handler[h].token] \in Nat
         /\ now \in Nat /\ Remaining(handler[h].token) \in Nat
<1>1. handler[h] \in HandlerStates /\ handler[h].token \in Tokens
  BY States DEF IInv, Busy
<1>2. expiry[handler[h].token] # NoKey
  BY DEF IInv, Turns
<1>3. expiry \in [Tokens -> Nat \cup {NoKey}] /\ now \in 0..Horizon
  BY DEF IInv, TypeOK, StoreTypeOK
<1>4. expiry[handler[h].token] \in Nat /\ now \in Nat
  BY <1>1, <1>2, <1>3, TokenStoreAssumptions
<1> QED
  BY <1>1, <1>4 DEF Remaining

-----------------------------------------------------------------------------
(* A handler's step.                                                       *)

OnlyMoves(h, q) ==
  /\ handler' \in [Handlers -> HandlerStates]
  /\ handler'[h] = q
  /\ \A g \in Handlers : g # h => handler'[g] = handler[g]

LEMMA Moves ==
  ASSUME TypeOK, NEW h \in Handlers, NEW q \in HandlerStates,
         handler' = [handler EXCEPT ![h] = q]
  PROVE  OnlyMoves(h, q)
BY States DEF OnlyMoves

\* What a handler may know after a step that mails no link.
Fits(h, q) ==
  \/ q = Idle
  \/ /\ q \in Changing \cup Deleting /\ q.token \in mailed
     /\ q.at = "update password" => Earned(q.token)'
  \/ /\ q \in Inserting /\ q.purpose # "issue" /\ q.token \in mailed
     /\ Truthful(q.token, q.payload)' /\ q.payload.confirmed
  \/ /\ q \in Inserting /\ Issuing(h) /\ q.purpose = "issue" /\ q.at # "set key"
     /\ q.token = handler[h].token /\ q.payload = handler[h].payload

\* A step that makes no token and mails no link keeps what is known of tokens.
LEMMA QuietStep ==
  ASSUME IInv, NEW h \in Handlers, NEW q, OnlyMoves(h, q), Fits(h, q),
         UNCHANGED <<expiry, mailed, guarded>>,
         clicked \subseteq clicked', proved \subseteq proved',
         \A t \in Tokens : keys'[t] # NoKey =>
           /\ Truthful(t, keys[t].data)'
           /\ keys[t] # NoKey \/ (Busy(h) /\ t = handler[h].token),
         \A t \in resets' : t \in mailed /\ Earned(t)'
  PROVE  (Fresh /\ Turns /\ Payloads /\ Changes)'
<1> USE DEF OnlyMoves
<1>1. handler \in [Handlers -> HandlerStates]
  BY States DEF IInv
<1>2. Busy(h) => expiry[handler[h].token] # NoKey
  BY DEF IInv, Turns
<1>3. \A t \in Tokens : t \in mailed => expiry[t] # NoKey
  BY DEF IInv, Fresh
<1>4. Fresh'
  BY <1>2 DEF IInv, Fresh
<1>5. /\ q # Idle => expiry[q.token] # NoKey
      /\ q # Idle => (q.token \in mailed <=> ~(q \in Inserting /\ q.purpose = "issue"))
      /\ q \in Inserting /\ q.purpose = "issue" =>
           Issuing(h) /\ q.token = handler[h].token /\ q.at # "set key"
  <2>1. CASE q \in Changing \cup Deleting /\ q.token \in mailed
    BY <1>3, <2>1, States DEF HandlerStates
  <2>2. CASE q \in Inserting /\ q.purpose # "issue" /\ q.token \in mailed
    BY <1>3, <2>2, States DEF HandlerStates
  <2>3. CASE /\ q \in Inserting /\ Issuing(h) /\ q.purpose = "issue" /\ q.at # "set key"
             /\ q.token = handler[h].token
    <3>1. Busy(h)
      BY <2>3, States DEF Busy, Issuing
    <3> QED
      BY <1>2, <2>3, <3>1 DEF IInv, Turns
  <2>4. CASE q = Idle
    BY <2>4, States
  <2> QED
    BY <2>1, <2>2, <2>3, <2>4 DEF Fits
<1>6. Turns'
  <2>1. ASSUME NEW g \in Handlers, handler'[g] # Idle
        PROVE  /\ expiry[handler'[g].token] # NoKey
               /\ handler'[g].token \in mailed <=> ~(handler'[g] \in Inserting /\ handler'[g].purpose = "issue")
    BY <1>5, <2>1 DEF IInv, Turns, Busy, Issuing
  <2>2. ASSUME NEW g \in Handlers, NEW k \in Handlers,
               handler'[g] \in Inserting, handler'[g].purpose = "issue",
               handler'[k] \in Inserting, handler'[k].purpose = "issue",
               handler'[g].token = handler'[k].token
        PROVE  g = k
    <3>1. Issuing(g) /\ handler[g].token = handler'[g].token
      BY <1>5, <2>2 DEF Issuing
    <3>2. Issuing(k) /\ handler[k].token = handler'[k].token
      BY <1>5, <2>2 DEF Issuing
    <3> QED
      BY <2>2, <3>1, <3>2 DEF IInv, Turns
  <2>3. ASSUME NEW g \in Handlers,
               handler'[g] \in Inserting, handler'[g].purpose = "issue",
               handler'[g].at = "set key"
        PROVE  keys'[handler'[g].token] = NoKey
    <3>1. g # h /\ handler'[g] = handler[g] /\ Issuing(g) /\ keys[handler[g].token] = NoKey
      BY <1>5, <2>3 DEF IInv, Turns, Issuing
    <3>2. handler[g].token \in Tokens /\ Busy(g) /\ handler[g].token \notin mailed
      BY <1>1, <3>1, States DEF IInv, Turns, Busy, Issuing
    <3>3. ~(Busy(h) /\ handler[g].token = handler[h].token)
      BY <3>1, <3>2 DEF IInv, Turns
    <3> QED
      BY <3>1, <3>2, <3>3
  <2> QED
    BY <2>1, <2>2, <2>3 DEF Turns, Busy, Issuing
<1>7. Payloads'
  <2>1. ASSUME NEW g \in Handlers, handler'[g] \in Inserting
        PROVE  /\ Truthful(handler[g].token, handler[g].payload)'
               /\ handler'[g].purpose # "issue" => handler'[g].payload.confirmed
    <3>1. CASE g # h
      BY <2>1, <3>1 DEF IInv, Payloads, Truthful, Issuing
    <3>2. CASE g = h /\ q.purpose # "issue"
      BY <2>1, <3>2, States DEF Fits, Truthful
    <3>3. CASE g = h /\ q.purpose = "issue"
      <4>1. Issuing(h) /\ q.token = handler[h].token /\ q.payload = handler[h].payload
        BY <2>1, <3>3, States DEF Fits
      <4>2. Truthful(q.token, q.payload)
        BY <4>1 DEF IInv, Payloads, Issuing
      <4> QED
        BY <2>1, <3>3, <4>2 DEF Truthful
    <3> QED
      BY <3>1, <3>2, <3>3
  <2> QED
    BY <2>1 DEF Payloads, Issuing, Truthful
<1>8. Changes'
  <2>1. ASSUME NEW g \in Handlers, handler'[g].at = "update password"
        PROVE  Earned(handler[g].token)'
    <3>1. CASE g # h
      BY <2>1, <3>1 DEF IInv, Changes, Earned
    <3>2. CASE g = h
      <4>1. q \in Changing /\ q \notin Inserting /\ q # Idle
        BY <2>1, <3>2, States
      <4> QED
        BY <2>1, <3>2, <4>1 DEF Fits, Earned
    <3> QED
      BY <3>1, <3>2
  <2> QED
    BY <2>1 DEF Changes
<1> QED
  BY <1>4, <1>6, <1>7, <1>8

-----------------------------------------------------------------------------
(* The handlers, one by one.                                               *)

Rest == (Fresh /\ Turns /\ Payloads /\ Changes)

\* A step of a handler that leaves what is stored, mailed and issued alone.
LEMMA StoreStays ==
  ASSUME IInv, NEW h \in Handlers, NEW q \in HandlerStates, Fits(h, q),
         handler' = [handler EXCEPT ![h] = q],
         UNCHANGED <<expiry, keys, mailed, guarded>>,
         clicked \subseteq clicked', proved \subseteq proved',
         \A t \in resets' : t \in resets \/ (t \in mailed /\ Earned(t)')
  PROVE  Rest' /\ OnlyMoves(h, q)
<1>1. OnlyMoves(h, q)
  BY Moves DEF IInv
<1>2. \A t \in Tokens : keys'[t] # NoKey => Truthful(t, keys[t].data)' /\ keys[t] # NoKey
  BY DEF IInv, Payloads, Truthful
<1>3. \A t \in resets' : t \in mailed /\ Earned(t)'
  BY DEF IInv, Fresh, Changes, Earned
<1> QED
  BY <1>1, <1>2, <1>3, QuietStep DEF Rest

\* A handler starts to insert the payload p of a token whose link was mailed.
LEMMA Inserts ==
  ASSUME IInv, NEW h \in Handlers, NEW t \in Tokens, NEW p \in Payload,
         NEW purpose \in Purposes \ {"issue"}, Insert(h, t, p, purpose),
         t \in mailed, p.confirmed, Truthful(t, p)',
         UNCHANGED <<storeVars, twoFactor, mailed, guarded, resets>>,
         clicked \subseteq clicked', proved \subseteq proved',
         {clicked', proved'} \subseteq SUBSET Tokens
  PROVE  (TypeOK /\ Rest)'
<1>1. PICK q : q = [at |-> "set key", token |-> t, payload |-> p, purpose |-> purpose,
                    since |-> now]
  OBVIOUS
<1>2. /\ q \in Inserting /\ q \in HandlerStates /\ q.token = t /\ q.payload = p
      /\ q.purpose # "issue"
  <2>1. purpose \in Purposes /\ now \in Nat
    BY NowType DEF IInv
  <2> QED
    BY <1>1, <2>1 DEF Inserting, HandlerStates, InsertPlaces, Idle
<1>3. handler' = [handler EXCEPT ![h] = q]
  BY <1>1 DEF Insert
<1>4. Fits(h, q)
  BY <1>2 DEF Fits
<1>5. Rest' /\ OnlyMoves(h, q)
  BY <1>2, <1>3, <1>4, StoreStays DEF storeVars
<1>6. StoreTypeOK(Payload)' /\ twoFactor' \in BOOLEAN
  BY DEF IInv, TypeOK, StoreTypeOK, storeVars
<1>7. {mailed', guarded', clicked', proved', resets'} \subseteq SUBSET Tokens
  BY DEF IInv, TypeOK
<1>8. handler' \in [Handlers -> {Idle} \cup Inserting \cup Changing \cup Deleting]
  BY <1>5 DEF OnlyMoves, HandlerStates
<1> QED
  BY <1>5, <1>6, <1>7, <1>8 DEF TypeOK, Inserting, Changing, Deleting

LEMMA ConfirmStep ==
  ASSUME IInv, NEW h \in Handlers, NEW t \in Tokens, ConfirmForgetPasswordToken(h, t)
  PROVE  (TypeOK /\ Rest)'
<1>1. t \in mailed /\ Data(t) \in Payload /\ Truthful(t, Data(t))
  BY PresentedData DEF ConfirmForgetPasswordToken
<1>2. PICK p \in Payload : p = [Data(t) EXCEPT !.confirmed = TRUE]
  BY <1>1, PayloadMarks
<1>3. p.confirmed /\ p.verified = Data(t).verified /\ p.needs2fa = Data(t).needs2fa
  BY <1>1, <1>2, PayloadMarks
<1>4. Insert(h, t, p, "confirm") /\ "confirm" \in Purposes
  BY <1>2 DEF ConfirmForgetPasswordToken, Purposes
<1>5. Truthful(t, p)'
  BY <1>1, <1>3 DEF Truthful, ConfirmForgetPasswordToken
<1>6. {clicked', proved'} \subseteq SUBSET Tokens
  BY DEF IInv, TypeOK, ConfirmForgetPasswordToken
<1> QED
  BY <1>1, <1>3, <1>4, <1>5, <1>6, Inserts DEF ConfirmForgetPasswordToken

LEMMA CodeStep ==
  ASSUME IInv, NEW h \in Handlers, NEW t \in Tokens, NEW purpose \in {"verify", "recover"},
         PresentCode(h, t, purpose)
  PROVE  (TypeOK /\ Rest)'
<1>1. t \in mailed /\ Data(t) \in Payload /\ Truthful(t, Data(t)) /\ Data(t).confirmed
  BY PresentedData DEF PresentCode, Awaits2fa
<1>2. PICK p \in Payload : p = [Data(t) EXCEPT !.verified = TRUE]
  BY <1>1, PayloadMarks
<1>3. p.confirmed = Data(t).confirmed /\ p.verified /\ p.needs2fa = Data(t).needs2fa
  BY <1>1, <1>2, PayloadMarks
<1>4. Insert(h, t, p, purpose) /\ purpose \in Purposes \ {"issue"}
  BY <1>2 DEF PresentCode, Purposes
<1>5. Truthful(t, p)'
  BY <1>1, <1>3 DEF Truthful, PresentCode
<1>6. {clicked', proved'} \subseteq SUBSET Tokens
  BY DEF IInv, TypeOK, PresentCode
<1> QED
  BY <1>1, <1>3, <1>4, <1>5, <1>6, Inserts DEF PresentCode

LEMMA ResetStep ==
  ASSUME IInv, NEW h \in Handlers, NEW t \in Tokens, ResetPassword(h, t)
  PROVE  (TypeOK /\ Rest)'
<1>1. t \in mailed /\ Data(t) \in Payload /\ Truthful(t, Data(t)) /\ MayReset(t)
  BY PresentedData DEF ResetPassword
<1>2. Earned(t)
  BY <1>1 DEF MayReset, Truthful, Earned
<1>3. PICK q : q = [at |-> "update password", token |-> t, since |-> now]
  OBVIOUS
<1>4. q \in Changing /\ q \in HandlerStates /\ q.token = t
  BY <1>3, NowType DEF IInv, Changing, HandlerStates
<1>5. handler' = [handler EXCEPT ![h] = q]
  BY <1>3 DEF ResetPassword
<1>6. Fits(h, q)
  <2>1. Earned(q.token)'
    BY <1>2, <1>4 DEF Earned, ResetPassword
  <2> QED
    BY <1>1, <1>4, <2>1 DEF Fits
<1>7. Rest' /\ OnlyMoves(h, q)
  BY <1>4, <1>5, <1>6, StoreStays DEF ResetPassword, storeVars
<1>8. TypeOK'
  BY <1>7 DEF IInv, TypeOK, StoreTypeOK, OnlyMoves, HandlerStates, Inserting, Changing,
     Deleting, ResetPassword, storeVars
<1> QED
  BY <1>7, <1>8

\* Nobody has the token before it is made.
LEMMA ForgetStep ==
  ASSUME IInv, NEW h \in Handlers, NEW t \in Tokens, ForgetPassword(h, t)
  PROVE  (TypeOK /\ Rest)'
<1>1. expiry[t] = NoKey /\ keys[t] = NoKey /\ t \notin mailed /\ t \notin resets
      /\ handler[h] = Idle /\ now \in Nat /\ twoFactor \in BOOLEAN
      /\ t \notin guarded
  BY NowType DEF ForgetPassword, New, IInv, Fresh, TypeOK
<1>2. PICK p : p = [confirmed |-> FALSE, needs2fa |-> twoFactor, verified |-> FALSE]
  OBVIOUS
<1>3. p \in Payload /\ ~p.confirmed /\ ~p.verified /\ p.needs2fa = twoFactor
  BY <1>1, <1>2 DEF Payload
<1>4. PICK q : q = [at |-> "set key", token |-> t, payload |-> p, purpose |-> "issue",
                    since |-> now]
  OBVIOUS
<1>5. /\ q \in Inserting /\ q \in HandlerStates /\ q.token = t /\ q.payload = p
      /\ q.purpose = "issue" /\ q # Idle /\ q.at = "set key"
  <2>1. "issue" \in Purposes
    BY DEF Purposes
  <2> QED
    BY <1>1, <1>3, <1>4, <2>1 DEF Inserting, HandlerStates, InsertPlaces, Idle
<1>6. handler' = [handler EXCEPT ![h] = q]
  BY <1>2, <1>4 DEF ForgetPassword, Insert
<1>7. OnlyMoves(h, q)
  BY <1>5, <1>6, Moves DEF IInv
<1>8. \A g \in Handlers : Busy(g) => handler[g].token # t
  BY <1>1 DEF IInv, Turns
<1>9. /\ now + TTL \in Nat /\ now + TTL # NoKey
      /\ expiry' = [expiry EXCEPT ![t] = now + TTL]
      /\ expiry \in [Tokens -> Nat \cup {NoKey}]
  <2>1. expiry' = [expiry EXCEPT ![t] = now + TTL]
    BY DEF ForgetPassword, New
  <2>2. expiry \in [Tokens -> Nat \cup {NoKey}]
    BY DEF IInv, TypeOK, StoreTypeOK
  <2> QED
    BY <1>1, <2>1, <2>2, TokenStoreAssumptions
<1>10. /\ UNCHANGED <<now, keys, userSet, twoFactor, mailed, clicked, proved, resets>>
       /\ guarded' = IF twoFactor THEN guarded \cup {t} ELSE guarded
  BY DEF ForgetPassword
<1>11. TypeOK'
  <2>1. StoreTypeOK(Payload)' /\ twoFactor' \in BOOLEAN
    BY <1>9, <1>10 DEF IInv, TypeOK, StoreTypeOK
  <2>2. {mailed', guarded', clicked', proved', resets'} \subseteq SUBSET Tokens
    BY <1>10 DEF IInv, TypeOK
  <2>3. handler' \in [Handlers -> {Idle} \cup Inserting \cup Changing \cup Deleting]
    BY <1>7 DEF OnlyMoves, HandlerStates
  <2> QED
    BY <2>1, <2>2, <2>3 DEF TypeOK, Inserting, Changing, Deleting
<1>12. Fresh'
  BY <1>9, <1>10 DEF IInv, Fresh
<1>13. Turns'
  <2>1. ASSUME NEW g \in Handlers, handler'[g] # Idle
        PROVE  /\ expiry'[handler'[g].token] # NoKey
               /\ handler'[g].token \in mailed
                    <=> ~(handler'[g] \in Inserting /\ handler'[g].purpose = "issue")
    <3>1. CASE g = h
      BY <1>1, <1>5, <1>7, <1>9, <3>1 DEF OnlyMoves
    <3>2. CASE g # h
      <4>1. handler'[g] = handler[g] /\ Busy(g) /\ handler[g].token \in Tokens
        BY <1>7, <2>1, <3>2, BusyToken DEF OnlyMoves, Busy
      <4> QED
        BY <1>9, <4>1 DEF IInv, Turns, Issuing
    <3> QED
      BY <3>1, <3>2
  <2>2. ASSUME NEW g \in Handlers, NEW k \in Handlers,
               handler'[g] \in Inserting, handler'[g].purpose = "issue",
               handler'[k] \in Inserting, handler'[k].purpose = "issue",
               handler'[g].token = handler'[k].token
        PROVE  g = k
    <3>1. \A i \in Handlers : i # h /\ handler'[i] \in Inserting =>
            handler'[i] = handler[i] /\ Busy(i) /\ handler'[i].token # t
      BY <1>7, <1>8, States DEF OnlyMoves, Busy
    <3>2. CASE g = h \/ k = h
      BY <1>5, <1>7, <2>2, <3>1, <3>2 DEF OnlyMoves
    <3>3. CASE g # h /\ k # h
      BY <2>2, <3>1, <3>3 DEF IInv, Turns, Issuing
    <3> QED
      BY <3>2, <3>3
  <2>3. ASSUME NEW g \in Handlers,
               handler'[g] \in Inserting, handler'[g].purpose = "issue",
               handler'[g].at = "set key"
        PROVE  keys'[handler'[g].token] = NoKey
    BY <1>1, <1>5, <1>7, <1>10, <2>3 DEF OnlyMoves, IInv, Turns, Issuing
  <2> QED
    BY <1>10, <2>1, <2>2, <2>3 DEF Turns, Busy, Issuing
<1>14. Payloads'
  <2>1. ASSUME NEW u \in Tokens, keys'[u] # NoKey
        PROVE  Truthful(u, keys[u].data)'
    BY <1>1, <1>10, <2>1 DEF IInv, Payloads, Truthful
  <2>2. ASSUME NEW g \in Handlers, handler'[g] \in Inserting
        PROVE  /\ Truthful(handler[g].token, handler[g].payload)'
               /\ handler'[g].purpose # "issue" => handler'[g].payload.confirmed
    <3>1. CASE g = h
      <4>1. t \in guarded' => twoFactor
        BY <1>1, <1>10
      <4> QED
        BY <1>3, <1>5, <1>7, <3>1, <4>1 DEF OnlyMoves, Truthful
    <3>2. CASE g # h
      <4>1. handler'[g] = handler[g] /\ Busy(g) /\ handler[g].token # t
        BY <1>7, <1>8, <2>2, <3>2, States DEF OnlyMoves, Busy
      <4> QED
        BY <1>10, <2>2, <4>1 DEF IInv, Payloads, Truthful, Issuing
    <3> QED
      BY <3>1, <3>2
  <2> QED
    BY <2>1, <2>2 DEF Payloads, Issuing
<1>15. Changes'
  <2>1. ASSUME NEW u \in resets' PROVE Earned(u)'
    BY <1>1, <1>10, <2>1 DEF IInv, Changes, Earned
  <2>2. ASSUME NEW g \in Handlers, handler'[g].at = "update password"
        PROVE  Earned(handler[g].token)'
    <3>1. g # h /\ handler'[g] = handler[g]
      BY <1>5, <1>7, <2>2 DEF OnlyMoves
    <3>2. Busy(g)
      BY <2>2, <3>1, States DEF Busy
    <3> QED
      BY <1>8, <1>10, <2>2, <3>1, <3>2 DEF IInv, Changes, Earned
  <2> QED
    BY <2>1, <2>2 DEF Changes
<1> QED
  BY <1>11, <1>12, <1>13, <1>14, <1>15 DEF Rest

\* An inserting handler goes on with the same token and payload.
LEMMA GoesOn ==
  ASSUME IInv, NEW h \in Handlers, handler[h] \in Inserting,
         NEW place \in InsertPlaces \ {"set key"}, Goto(h, place),
         clicked' = clicked, proved' = proved, guarded' = guarded
  PROVE  \E q \in HandlerStates :
           /\ OnlyMoves(h, q)
           /\ handler' = [handler EXCEPT ![h] = q]
           /\ (Issuing(h) \/ handler[h].token \in mailed) => Fits(h, q)
<1>1. PICK q : q = [handler[h] EXCEPT !.at = place]
  OBVIOUS
<1>2. /\ q \in Inserting /\ q.at = place /\ q.token = handler[h].token
      /\ q.payload = handler[h].payload /\ q.purpose = handler[h].purpose
  BY <1>1, InsertingMoves
<1>3. q \in HandlerStates
  BY <1>2 DEF HandlerStates
<1>4. handler' = [handler EXCEPT ![h] = q]
  BY <1>1 DEF Goto
<1>5. OnlyMoves(h, q)
  BY <1>3, <1>4, Moves DEF IInv
<1>6. ASSUME Issuing(h) \/ handler[h].token \in mailed PROVE Fits(h, q)
  <2>1. CASE q.purpose = "issue"
    BY <1>2, <2>1 DEF Fits, Issuing
  <2>2. CASE q.purpose # "issue"
    <3>1. Truthful(handler[h].token, handler[h].payload) /\ handler[h].payload.confirmed
      BY <1>2, <2>2 DEF IInv, Payloads, Issuing
    <3>2. Truthful(q.token, q.payload)'
      BY <1>2, <3>1 DEF Truthful
    <3> QED
      BY <1>2, <1>6, <2>2, <3>1, <3>2 DEF Fits, Issuing
  <2> QED
    BY <2>1, <2>2
<1> QED
  BY <1>3, <1>4, <1>5, <1>6

LEMMA Inserter ==
  ASSUME IInv, NEW h \in Handlers, handler[h].at \in InsertPlaces
  PROVE  /\ handler[h] \in Inserting /\ Busy(h)
         /\ handler[h].token \in Tokens /\ handler[h].payload \in Payload
         /\ Issuing(h) \/ handler[h].token \in mailed
<1>1. handler[h] \in HandlerStates
  BY States DEF IInv
<1>2. handler[h] \in Inserting /\ Busy(h)
  BY <1>1, States DEF Busy
<1> QED
  BY <1>2 DEF IInv, Turns, Inserting

\* The type invariant from its parts.
LEMMA Typed ==
  ASSUME IInv, NEW h \in Handlers, NEW q, OnlyMoves(h, q), StoreTypeOK(Payload)',
         twoFactor' \in BOOLEAN, mailed' \subseteq Tokens, resets' \subseteq Tokens,
         UNCHANGED <<guarded, clicked, proved>>
  PROVE  TypeOK'
<1>1. handler' \in [Handlers -> {Idle} \cup Inserting \cup Changing \cup Deleting]
  BY DEF OnlyMoves, HandlerStates
<1>2. {mailed', guarded', clicked', proved', resets'} \subseteq SUBSET Tokens
  BY DEF IInv, TypeOK
<1> QED
  BY <1>1, <1>2 DEF TypeOK, Inserting, Changing, Deleting

LEMMA InsertKeyStep ==
  ASSUME IInv, NEW h \in Handlers, InsertKey(h)
  PROVE  (TypeOK /\ Rest)'
<1> DEFINE t == handler[h].token
           p == handler[h].payload
<1>1. /\ handler[h] \in Inserting /\ Busy(h) /\ t \in Tokens /\ p \in Payload
      /\ Issuing(h) \/ t \in mailed
  BY Inserter DEF InsertKey, InsertPlaces
<1>2. PICK q \in HandlerStates : OnlyMoves(h, q) /\ Fits(h, q)
  BY <1>1, GoesOn DEF InsertKey, InsertPlaces
<1>3. PICK n \in Nat : n = now + Remaining(t)
  BY <1>1, BusyToken
<1>4. PICK k : k = [data |-> p, until |-> n]
  OBVIOUS
<1>5. keys' = [keys EXCEPT ![t] = k]
  BY <1>3, <1>4 DEF InsertKey, SetKey
<1>6. k \in [data : Payload, until : Nat] /\ k.data = p
  BY <1>1, <1>4
<1>7. keys \in [Tokens -> [data : Payload, until : Nat] \cup {NoKey}]
  BY DEF IInv, TypeOK, StoreTypeOK
<1>8. /\ UNCHANGED <<now, expiry, userSet, twoFactor, mailed, guarded, clicked, proved, resets>>
  BY DEF InsertKey
<1>9. Truthful(t, p)
  BY <1>1 DEF IInv, Payloads
<1>10. \A u \in Tokens : keys'[u] # NoKey =>
           /\ Truthful(u, keys[u].data)'
           /\ keys[u] # NoKey \/ (Busy(h) /\ u = handler[h].token)
  <2> SUFFICES ASSUME NEW u \in Tokens, keys'[u] # NoKey
               PROVE  /\ Truthful(u, keys[u].data)'
                      /\ keys[u] # NoKey \/ u = t
    BY <1>1
  <2>1. CASE u = t
    <3>1. keys'[u].data = p
      BY <1>1, <1>5, <1>6, <1>7, <2>1
    <3> QED
      BY <1>8, <1>9, <2>1, <3>1 DEF Truthful
  <2>2. CASE u # t
    <3>1. keys'[u] = keys[u]
      BY <1>1, <1>5, <1>7, <2>2
    <3> QED
      BY <1>8, <3>1 DEF IInv, Payloads, Truthful
  <2> QED
    BY <2>1, <2>2
<1>11. \A u \in resets' : u \in mailed /\ Earned(u)'
  BY <1>8 DEF IInv, Fresh, Changes, Earned
<1>12. Rest'
  BY <1>2, <1>8, <1>10, <1>11, QuietStep DEF Rest
<1>13. StoreTypeOK(Payload)'
  <2>1. keys' \in [Tokens -> [data : Payload, until : Nat] \cup {NoKey}]
    BY <1>1, <1>5, <1>6, <1>7
  <2> QED
    BY <1>8, <2>1 DEF IInv, TypeOK, StoreTypeOK
<1>14. TypeOK'
  BY <1>2, <1>8, <1>13, Typed DEF IInv, TypeOK
<1> QED
  BY <1>12, <1>14

LEMMA SetTypes ==
  ASSUME IInv
  PROVE  /\ userSet \in [members : SUBSET Tokens, until : Nat \cup {Forever}]
         /\ Members \subseteq Tokens
<1>1. userSet \in [members : SUBSET Tokens, until : Nat \cup {Forever}]
  BY DEF IInv, TypeOK, StoreTypeOK
<1> QED
  BY <1>1 DEF Members

\* Steps after which only the user's set and the handler have changed.
LEMMA SetStep ==
  ASSUME IInv, NEW h \in Handlers, NEW q \in HandlerStates, Fits(h, q),
         handler' = [handler EXCEPT ![h] = q],
         userSet' \in [members : SUBSET Tokens, until : Nat \cup {Forever}],
         twoFactor' \in BOOLEAN,
         UNCHANGED <<now, expiry, keys, mailed, guarded, clicked, proved, resets>>
  PROVE  (TypeOK /\ Rest)'
<1>1. Rest' /\ OnlyMoves(h, q)
  BY StoreStays
<1>2. StoreTypeOK(Payload)'
  BY DEF IInv, TypeOK, StoreTypeOK
<1>3. TypeOK'
  BY <1>1, <1>2, Typed DEF IInv, TypeOK
<1> QED
  BY <1>1, <1>3

LEMMA InsertMemberStep ==
  ASSUME IInv, NEW h \in Handlers, InsertMember(h)
  PROVE  (TypeOK /\ Rest)'
<1>1. handler[h] \in Inserting /\ handler[h].token \in Tokens
      /\ (Issuing(h) \/ handler[h].token \in mailed)
  BY Inserter DEF InsertMember, InsertPlaces
<1>2. PICK q \in HandlerStates : handler' = [handler EXCEPT ![h] = q] /\ Fits(h, q)
  BY <1>1, GoesOn DEF InsertMember, InsertPlaces
<1>3. userSet' \in [members : SUBSET Tokens, until : Nat \cup {Forever}]
  BY <1>1, SetTypes DEF InsertMember, AddToSet
<1> QED
  BY <1>2, <1>3, SetStep DEF InsertMember, IInv, TypeOK

LEMMA IdleFits ==
  ASSUME NEW h \in Handlers
  PROVE  Idle \in HandlerStates /\ Fits(h, Idle)
BY DEF HandlerStates, Fits

LEMMA ExpiresType ==
  ASSUME IInv, NEW h \in Handlers, Busy(h), ExpireSet(handler[h].token)
  PROVE  userSet' \in [members : SUBSET Tokens, until : Nat \cup {Forever}]
<1>1. PICK n \in Nat : n = now + Remaining(handler[h].token)
  BY BusyToken
<1>2. userSet' = IF Members = {} THEN userSet ELSE [userSet EXCEPT !.until = n]
  BY <1>1 DEF ExpireSet
<1> QED
  BY <1>2, SetTypes, SetExpires

\* The link is mailed when the issuing handler is through with the token.
LEMMA MailStep ==
  ASSUME IInv, NEW h \in Handlers, InsertExpiry(h), handler[h].purpose = "issue"
  PROVE  (TypeOK /\ Rest)'
<1> DEFINE t == handler[h].token
<1>1. handler[h] \in Inserting /\ Busy(h) /\ t \in Tokens /\ Issuing(h)
  BY Inserter DEF InsertExpiry, InsertPlaces, Issuing
<1>2. handler' = [handler EXCEPT ![h] = Idle] /\ mailed' = mailed \cup {t}
  BY DEF InsertExpiry, Return
<1>3. OnlyMoves(h, Idle)
  BY <1>2, IdleFits, Moves DEF IInv
<1>4. UNCHANGED <<now, expiry, keys, twoFactor, guarded, clicked, proved, resets>>
  BY DEF InsertExpiry
<1>5. userSet' \in [members : SUBSET Tokens, until : Nat \cup {Forever}]
  BY <1>1, ExpiresType DEF InsertExpiry
<1>6. TypeOK'
  <2>1. StoreTypeOK(Payload)'
    BY <1>4, <1>5 DEF IInv, TypeOK, StoreTypeOK
  <2>2. mailed' \subseteq Tokens /\ resets' \subseteq Tokens /\ twoFactor' \in BOOLEAN
    BY <1>1, <1>2, <1>4 DEF IInv, TypeOK
  <2> QED
    BY <1>3, <1>4, <2>1, <2>2, Typed
<1>7. expiry[t] # NoKey /\ t \notin mailed
  BY <1>1 DEF IInv, Turns
<1>8. Fresh'
  BY <1>1, <1>2, <1>4, <1>7 DEF IInv, Fresh
<1>9. \A g \in Handlers : handler'[g] # Idle =>
        g # h /\ handler'[g] = handler[g] /\ Busy(g) /\ handler[g].token # t
  <2> SUFFICES ASSUME NEW g \in Handlers, handler'[g] # Idle
               PROVE  g # h /\ handler'[g] = handler[g] /\ Busy(g) /\ handler[g].token # t
    OBVIOUS
  <2>1. g # h /\ handler'[g] = handler[g] /\ Busy(g)
    BY <1>3 DEF OnlyMoves, Busy
  <2>2. CASE Issuing(g)
    BY <1>1, <2>1, <2>2 DEF IInv, Turns
  <2>3. CASE ~Issuing(g)
    BY <1>7, <2>1, <2>3 DEF IInv, Turns
  <2> QED
    BY <2>1, <2>2, <2>3
<1>10. Turns'
  <2>1. ASSUME NEW g \in Handlers, handler'[g] # Idle
        PROVE  /\ expiry[handler'[g].token] # NoKey
               /\ handler'[g].token \in mailed'
                    <=> ~(handler'[g] \in Inserting /\ handler'[g].purpose = "issue")
    <3>1. handler'[g] = handler[g] /\ Busy(g) /\ handler[g].token # t
      BY <1>9, <2>1
    <3>2. expiry[handler[g].token] # NoKey /\ (handler[g].token \in mailed <=> ~Issuing(g))
      BY <3>1 DEF IInv, Turns
    <3>3. handler[g].token \in mailed' <=> handler[g].token \in mailed
      BY <1>2, <3>1
    <3> QED
      BY <1>4, <3>1, <3>2, <3>3 DEF Issuing
  <2>2. \A g \in Handlers : handler'[g] \in Inserting /\ handler'[g].purpose = "issue" =>
          Issuing(g) /\ handler'[g] = handler[g]
    BY <1>9, States DEF Issuing
  <2> QED
    BY <1>4, <2>1, <2>2 DEF IInv, Turns, Busy, Issuing
<1>11. Payloads'
  <2>1. \A u \in Tokens : keys'[u] # NoKey => Truthful(u, keys[u].data)'
    BY <1>4 DEF IInv, Payloads, Truthful
  <2>2. \A g \in Handlers : handler'[g] \in Inserting =>
          /\ Truthful(handler[g].token, handler[g].payload)'
          /\ handler'[g].purpose # "issue" => handler'[g].payload.confirmed
    BY <1>4, <1>9, States DEF IInv, Payloads, Truthful, Issuing
  <2> QED
    BY <2>1, <2>2 DEF Payloads, Issuing
<1>12. Changes'
  <2>1. \A u \in resets' : Earned(u)'
    BY <1>4 DEF IInv, Changes, Earned
  <2>2. \A g \in Handlers : handler'[g].at = "update password" => Earned(handler[g].token)'
    BY <1>4, <1>9, States DEF IInv, Changes, Earned
  <2> QED
    BY <2>1, <2>2 DEF Changes
<1> QED
  BY <1>6, <1>8, <1>10, <1>11, <1>12 DEF Rest

LEMMA InsertExpiryStep ==
  ASSUME IInv, NEW h \in Handlers, InsertExpiry(h)
  PROVE  (TypeOK /\ Rest)'
<1>1. handler[h] \in Inserting /\ Busy(h) /\ (Issuing(h) \/ handler[h].token \in mailed)
  BY Inserter DEF InsertExpiry, InsertPlaces
<1>2. CASE handler[h].purpose = "issue"
  BY <1>2, MailStep
<1>3. CASE handler[h].purpose # "issue"
  <2>1. UNCHANGED <<now, expiry, keys, twoFactor, guarded, clicked, proved, resets, mailed>>
    BY <1>3 DEF InsertExpiry
  <2>2. userSet' \in [members : SUBSET Tokens, until : Nat \cup {Forever}]
    BY <1>1, ExpiresType DEF InsertExpiry
  <2>3. PICK q \in HandlerStates : handler' = [handler EXCEPT ![h] = q] /\ Fits(h, q)
    <3>1. CASE Goto(h, "disable")
      BY <1>1, <2>1, <3>1, GoesOn DEF InsertPlaces
    <3>2. CASE Return(h)
      BY <3>2, IdleFits DEF Return
    <3> QED
      BY <3>1, <3>2 DEF InsertExpiry
  <2> QED
    BY <2>1, <2>2, <2>3, SetStep DEF IInv, TypeOK
<1> QED
  BY <1>2, <1>3

LEMMA EndStep ==
  ASSUME IInv, NEW h \in Handlers, Return(h),
         userSet' \in [members : SUBSET Tokens, until : Nat \cup {Forever}],
         twoFactor' \in BOOLEAN,
         UNCHANGED <<now, expiry, keys, mailed, guarded, clicked, proved, resets>>
  PROVE  (TypeOK /\ Rest)'
BY IdleFits, SetStep DEF Return

LEMMA Changer ==
  ASSUME IInv, NEW h \in Handlers,
         handler[h].at \in {"update password", "fetch hashes", "delete"}
  PROVE  /\ handler[h] \in Changing \cup Deleting
         /\ handler[h].at = "delete" <=> handler[h] \in Deleting
         /\ handler[h].token \in mailed /\ handler[h].token \in Tokens
         /\ handler[h].since \in Nat
<1>1. handler[h] \in HandlerStates
  BY States DEF IInv
<1>2. handler[h] \in Changing \cup Deleting
  BY <1>1, States
<1>3. Busy(h) /\ ~Issuing(h)
  BY <1>2, States DEF Busy, Issuing
<1> QED
  BY <1>2, <1>3 DEF IInv, Turns, Changing, Deleting

LEMMA UpdateStep ==
  ASSUME IInv, NEW h \in Handlers, UpdatePassword(h)
  PROVE  (TypeOK /\ Rest)'
<1>1. handler[h].at = "update password"
  BY DEF UpdatePassword
<1>2. /\ handler[h] \in Changing /\ handler[h].token \in mailed
      /\ handler[h].token \in Tokens /\ Earned(handler[h].token)
  BY <1>1, Changer DEF IInv, Changes, Deleting
<1>3. PICK q : q = [handler[h] EXCEPT !.at = "fetch hashes"]
  OBVIOUS
<1>4. q \in Changing /\ q.at = "fetch hashes" /\ q.token = handler[h].token
  BY <1>2, <1>3, ChangingMoves
<1>5. q \in HandlerStates /\ Fits(h, q) /\ handler' = [handler EXCEPT ![h] = q]
  BY <1>2, <1>3, <1>4 DEF HandlerStates, Fits, UpdatePassword, Goto
<1>6. resets' = resets \cup {handler[h].token}
      /\ UNCHANGED <<now, expiry, keys, userSet, twoFactor, mailed, guarded, clicked, proved>>
  BY DEF UpdatePassword, storeVars
<1>7. \A t \in resets' : t \in resets \/ (t \in mailed /\ Earned(t)')
  BY <1>2, <1>6 DEF Earned
<1>8. Rest' /\ OnlyMoves(h, q)
  BY <1>5, <1>6, <1>7, StoreStays
<1>9. StoreTypeOK(Payload)' /\ resets' \subseteq Tokens
  BY <1>2, <1>6 DEF IInv, TypeOK, StoreTypeOK
<1> QED
  BY <1>6, <1>8, <1>9, Typed DEF IInv, TypeOK

LEMMA FetchStep ==
  ASSUME IInv, NEW h \in Handlers, FetchHashes(h)
  PROVE  (TypeOK /\ Rest)'
<1>1. handler[h].token \in mailed /\ handler[h].token \in Tokens /\ handler[h].since \in Nat
  BY Changer DEF FetchHashes
<1>2. PICK q : q = [at |-> "delete", token |-> handler[h].token, hashes |-> Members,
                    since |-> handler[h].since]
  OBVIOUS
<1>3. q \in Deleting /\ q.at = "delete" /\ q.token = handler[h].token
  BY <1>1, <1>2, SetTypes DEF Deleting
<1>4. q \in HandlerStates /\ Fits(h, q) /\ handler' = [handler EXCEPT ![h] = q]
  BY <1>1, <1>2, <1>3 DEF HandlerStates, Fits, FetchHashes
<1> QED
  BY <1>4, SetTypes, SetStep DEF FetchHashes, storeVars, IInv, TypeOK

LEMMA DeleteStep ==
  ASSUME IInv, NEW h \in Handlers, DeleteNext(h)
  PROVE  (TypeOK /\ Rest)'
<1>1. /\ handler[h] \in Deleting /\ handler[h].token \in mailed
  BY Changer DEF DeleteNext
<1>2. PICK t \in handler[h].hashes :
        /\ keys' = [keys EXCEPT ![t] = NoKey]
        /\ handler' = [handler EXCEPT ![h].hashes = @ \ {t}]
  BY DEF DeleteNext, DeleteKey
<1>3. t \in Tokens
  BY <1>1 DEF Deleting
<1>4. PICK q : q = [handler[h] EXCEPT !.hashes = @ \ {t}]
  OBVIOUS
<1>5. q \in Deleting /\ q.at = "delete" /\ q.token = handler[h].token
  BY <1>1, <1>3, <1>4, DeletingMoves
<1>6. q \in HandlerStates /\ Fits(h, q) /\ handler' = [handler EXCEPT ![h] = q]
  BY <1>1, <1>2, <1>4, <1>5 DEF HandlerStates, Fits
<1>7. OnlyMoves(h, q)
  BY <1>6, Moves DEF IInv
<1>8. UNCHANGED <<now, expiry, userSet, twoFactor, mailed, guarded, clicked, proved, resets>>
  BY DEF DeleteNext
<1>9. keys \in [Tokens -> [data : Payload, until : Nat] \cup {NoKey}]
  BY DEF IInv, TypeOK, StoreTypeOK
<1>10. \A u \in Tokens : keys'[u] # NoKey => Truthful(u, keys[u].data)' /\ keys[u] # NoKey
  <2>1. \A u \in Tokens : keys'[u] # NoKey => keys'[u] = keys[u]
    BY <1>2, <1>9
  <2> QED
    BY <1>8, <2>1 DEF IInv, Payloads, Truthful
<1>11. \A u \in resets' : u \in mailed /\ Earned(u)'
  BY <1>8 DEF IInv, Fresh, Changes, Earned
<1>12. Rest'
  BY <1>6, <1>7, <1>8, <1>10, <1>11, QuietStep DEF Rest
<1>13. StoreTypeOK(Payload)'
  <2>1. keys' \in [Tokens -> [data : Payload, until : Nat] \cup {NoKey}]
    BY <1>2, <1>9
  <2> QED
    BY <1>8, <2>1 DEF IInv, TypeOK, StoreTypeOK
<1>14. TypeOK'
  BY <1>7, <1>8, <1>13, Typed DEF IInv, TypeOK
<1> QED
  BY <1>12, <1>14

-----------------------------------------------------------------------------
LEMMA InitIInv == Init => IInv
<1> SUFFICES ASSUME Init PROVE IInv
  OBVIOUS
<1> USE DEF Init, StoreInit
<1>1. TypeOK
  BY TokenStoreAssumptions DEF TypeOK, StoreTypeOK
<1>2. \A h \in Handlers : handler[h] = Idle /\ handler[h] \notin Inserting /\ handler[h].at = "idle"
  BY States
<1>3. Fresh /\ Turns
  BY <1>2 DEF Fresh, Turns, Busy, Issuing
<1>4. Payloads /\ Changes
  BY <1>2 DEF Payloads, Changes, Issuing
<1> QED
  BY <1>1, <1>3, <1>4 DEF IInv

LEMMA NextIInv == IInv /\ [Next]_vars => IInv'
<1> SUFFICES ASSUME IInv, [Next]_vars PROVE (TypeOK /\ Rest)'
  BY DEF IInv, Rest
<1>1. ASSUME NEW h \in Handlers, HandlerStep(h) PROVE (TypeOK /\ Rest)'
  <2>1. ASSUME NEW t \in Tokens,
               \/ ForgetPassword(h, t) \/ ConfirmForgetPasswordToken(h, t)
               \/ VerifyForgetPassword2fa(h, t) \/ VerifyForgetPasswordRecoveryCode(h, t)
               \/ ResetPassword(h, t)
        PROVE  (TypeOK /\ Rest)'
    BY <2>1, ForgetStep, ConfirmStep, CodeStep, ResetStep
       DEF VerifyForgetPassword2fa, VerifyForgetPasswordRecoveryCode
  <2>2. CASE InsertKey(h) \/ InsertMember(h) \/ InsertExpiry(h)
    BY <2>2, InsertKeyStep, InsertMemberStep, InsertExpiryStep
  <2>3. CASE UpdatePassword(h) \/ FetchHashes(h) \/ DeleteNext(h)
    BY <2>3, UpdateStep, FetchStep, DeleteStep
  <2>4. CASE DisableTwoFactorAuth(h)
    BY <2>4, EndStep, SetTypes DEF DisableTwoFactorAuth, storeVars
  <2>5. CASE DeleteUserSet(h)
    <3>1. userSet' \in [members : SUBSET Tokens, until : Nat \cup {Forever}]
      BY <2>5 DEF DeleteUserSet, DeleteSet
    <3> QED
      BY <2>5, <3>1, EndStep DEF DeleteUserSet, IInv, TypeOK
  <2>6. CASE GiveUp(h)
    BY <2>6, EndStep, SetTypes DEF GiveUp, storeVars, IInv, TypeOK
  <2> QED
    BY <1>1, <2>1, <2>2, <2>3, <2>4, <2>5, <2>6 DEF HandlerStep
<1>2. CASE UNCHANGED <<expiry, keys, userSet, resetVars>> /\ now' \in 0..Horizon
  <2>1. UNCHANGED <<expiry, keys, userSet, twoFactor, mailed, handler, guarded, clicked,
                    proved, resets>>
    BY <1>2 DEF resetVars
  <2>2. TypeOK'
    BY <1>2, <2>1 DEF IInv, TypeOK, StoreTypeOK
  <2> QED
    BY <2>1, <2>2 DEF IInv, Rest, Fresh, Turns, Busy, Issuing, Payloads, Truthful, Changes,
       Earned
<1>3. ASSUME Tick PROVE now' \in 0..Horizon /\ UNCHANGED <<expiry, keys, userSet, resetVars>>
  <2>1. now \in 0..Horizon
    BY DEF IInv, TypeOK, StoreTypeOK
  <2> QED
    BY <1>3, <2>1, TokenStoreAssumptions DEF Tick
<1>4. CASE UNCHANGED vars
  <2>1. now' \in 0..Horizon
    BY <1>4 DEF vars, storeVars, IInv, TypeOK, StoreTypeOK
  <2> QED
    BY <1>2, <1>4, <2>1 DEF vars, storeVars
<1> QED
  BY <1>1, <1>2, <1>3, <1>4 DEF Next

\* The invariant holds for any number of tokens and handlers.
THEOREM Invariance == Spec => []IInv
<1> QED
  BY InitIInv, NextIInv, PTL DEF Spec

\* The password changes only with a token whose link was opened and, when the
\* user had two-factor authentication at its issue, for which a code was
\* presented: resetPassword among the handlers that write the payload.
THEOREM ResetsAreConfirmed == Spec => []ResetIsConfirmed
<1>1. IInv => ResetIsConfirmed
  BY DEF IInv, ResetIsConfirmed, Changes, Earned
<1> QED
  BY <1>1, Invariance, PTL

\* No handler that writes its payload back takes a confirmation back.
THEOREM ConfirmationsStick == Spec => ConfirmationSticks
<1>1. ASSUME IInv, [Next]_vars, NEW t \in Tokens, Live(t), Data(t).confirmed, Live(t)'
      PROVE  Data(t)'.confirmed
  <2>1. keys[t] # NoKey /\ keys'[t] # NoKey
    BY <1>1 DEF Live
  <2>2. keys \in [Tokens -> [data : Payload, until : Nat] \cup {NoKey}]
    BY <1>1 DEF IInv, TypeOK, StoreTypeOK
  <2>3. CASE UNCHANGED keys
    BY <1>1, <2>3 DEF Data
  <2>4. ASSUME NEW h \in Handlers, InsertKey(h) PROVE Data(t)'.confirmed
    <3> DEFINE u == handler[h].token
               p == handler[h].payload
    <3>1. /\ handler[h] \in Inserting /\ u \in Tokens
          /\ handler[h].at = "set key"
      BY <1>1, <2>4, Inserter DEF InsertKey, InsertPlaces
    <3>2. keys' = [keys EXCEPT ![u] = [data |-> p, until |-> now + Remaining(u)]]
      BY <2>4 DEF InsertKey, SetKey
    <3>3. CASE u # t
      BY <1>1, <2>2, <3>1, <3>2, <3>3 DEF Data
    <3>4. CASE u = t
      <4>1. ~Issuing(h)
        BY <1>1, <2>1, <3>1, <3>4 DEF IInv, Turns
      <4>2. p.confirmed
        BY <1>1, <3>1, <4>1 DEF IInv, Payloads
      <4>3. keys'[t].data = p
        BY <2>2, <3>1, <3>2, <3>4
      <4> QED
        BY <4>2, <4>3 DEF Data
    <3> QED
      BY <3>3, <3>4
  <2>5. ASSUME NEW h \in Handlers, DeleteNext(h) PROVE Data(t)'.confirmed
    <3>1. PICK u : keys' = [keys EXCEPT ![u] = NoKey]
      BY <2>5 DEF DeleteNext, DeleteKey
    <3>2. keys'[t] = keys[t]
      BY <2>1, <2>2, <3>1
    <3> QED
      BY <1>1, <3>2 DEF Data
  <2>6. \/ UNCHANGED keys
        \/ \E h \in Handlers : InsertKey(h) \/ DeleteNext(h)
    BY <1>1 DEF Next, HandlerStep, Tick, vars, storeVars, ForgetPassword,
       ConfirmForgetPasswordToken, VerifyForgetPassword2fa, VerifyForgetPasswordRecoveryCode,
       PresentCode, ResetPassword, InsertMember, InsertExpiry, DisableTwoFactorAuth,
       UpdatePassword, FetchHashes, DeleteUserSet, GiveUp
  <2> QED
    BY <2>3, <2>4, <2>5, <2>6
<1>2. IInv /\ [Next]_vars =>
        [\A t \in Tokens : Live(t) /\ Data(t).confirmed /\ Live(t)' => Data(t)'.confirmed]_vars
  BY <1>1
<1> QED
  BY <1>2, Invariance, PTL DEF Spec, ConfirmationSticks
=============================================================================
