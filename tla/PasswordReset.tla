--------------------------- MODULE PasswordReset ---------------------------
(***************************************************************************)
(* Resetting a forgotten password, for one user.                           *)
(*                                                                         *)
(* forgetPassword mails a token; confirmForgetPasswordToken marks its      *)
(* payload as verified by mail; with two-factor authentication             *)
(* verifyForgetPassword2fa or verifyForgetPasswordRecoveryCode marks it    *)
(* once more; resetPassword changes the password and deletes the user's    *)
(* tokens.  Each handler reads the token, works on its copy and writes the *)
(* whole token back, command by command; two of them may run on one token. *)
(***************************************************************************)
EXTENDS TokenStore

CONSTANTS Handlers

VARIABLES
  twoFactor,   \* users.two_factor_auth_enabled
  mailed,      \* tokens whose link has been mailed
  handler,     \* handler[h]: what an executing handler knows
  guarded,     \* tokens issued while the user had two-factor authentication
  clicked,     \* tokens whose link confirmForgetPasswordToken has seen
  proved,      \* tokens for which a valid code was presented
  resets       \* tokens with which the password was changed

resetVars == <<twoFactor, mailed, handler, guarded, clicked, proved, resets>>
vars == <<storeVars, resetVars>>

Payload == [confirmed : BOOLEAN, needs2fa : BOOLEAN, verified : BOOLEAN]

Idle == [at |-> "idle"]

Purposes == {"issue", "confirm", "verify", "recover"}

Init ==
  /\ StoreInit
  /\ twoFactor \in BOOLEAN
  /\ handler = [h \in Handlers |-> Idle]
  /\ mailed = {} /\ guarded = {} /\ clicked = {} /\ proved = {} /\ resets = {}

\* A handler lasts a minute at most: it may see the clock move, but once.
Tick ==
  /\ now < Horizon
  /\ ~\E h \in Handlers : handler[h] # Idle /\ handler[h].since # now
  /\ now' = now + 1
  /\ UNCHANGED <<expiry, keys, userSet, resetVars>>

-----------------------------------------------------------------------------
(* The handlers up to their first write: lookups, checks, new payload.     *)

Insert(h, t, payload, purpose) ==
  handler' = [handler EXCEPT ![h] =
    [at |-> "set key", token |-> t, payload |-> payload, purpose |-> purpose, since |-> now]]

\* The payload keeps whether the user has two-factor authentication now.
ForgetPassword(h, t) ==
  /\ handler[h] = Idle
  /\ New(t)
  /\ Insert(h, t, [confirmed |-> FALSE, needs2fa |-> twoFactor, verified |-> FALSE], "issue")
  /\ guarded' = IF twoFactor THEN guarded \cup {t} ELSE guarded
  /\ UNCHANGED <<now, keys, userSet, twoFactor, mailed, clicked, proved, resets>>

Presented(h, t) == handler[h] = Idle /\ t \in mailed /\ Live(t)

ConfirmForgetPasswordToken(h, t) ==
  /\ Presented(h, t)
  /\ clicked' = clicked \cup {t}
  /\ Insert(h, t, [Data(t) EXCEPT !.confirmed = TRUE], "confirm")
  /\ UNCHANGED <<storeVars, twoFactor, mailed, guarded, proved, resets>>

Awaits2fa(t) == Data(t).confirmed /\ Data(t).needs2fa

\* A valid code of either kind; the user's secret and recovery codes are
\* gone once two-factor authentication has been disabled.
PresentCode(h, t, purpose) ==
  /\ Presented(h, t)
  /\ Awaits2fa(t) /\ twoFactor
  /\ proved' = proved \cup {t}
  /\ Insert(h, t, [Data(t) EXCEPT !.verified = TRUE], purpose)
  /\ UNCHANGED <<storeVars, twoFactor, mailed, guarded, clicked, resets>>

VerifyForgetPassword2fa(h, t) == PresentCode(h, t, "verify")

VerifyForgetPasswordRecoveryCode(h, t) == PresentCode(h, t, "recover")

\* Mutant: only the confirmation by mail is asked for.
MayResetWithout2fa(t) == Data(t).confirmed

MayReset(t) ==
  /\ Data(t).confirmed
  /\ Data(t).needs2fa => Data(t).verified

ResetPassword(h, t) ==
  /\ Presented(h, t)
  /\ MayReset(t)
  /\ handler' = [handler EXCEPT ![h] = [at |-> "update password", token |-> t, since |-> now]]
  /\ UNCHANGED <<storeVars, twoFactor, mailed, guarded, clicked, proved, resets>>

-----------------------------------------------------------------------------
(* Insert, and what follows it.                                            *)

Goto(h, place) == handler' = [handler EXCEPT ![h].at = place]

Return(h) == handler' = [handler EXCEPT ![h] = Idle]

\* Mutant: the payload is built afresh instead of updated.
InsertKeyAfresh(h) ==
  /\ handler[h].at = "set key"
  /\ SetKey(handler[h].token,
            [handler[h].payload EXCEPT !.confirmed = @ /\ handler[h].purpose = "confirm"])
  /\ Goto(h, "add to set")
  /\ UNCHANGED <<now, expiry, userSet, twoFactor, mailed, guarded, clicked, proved, resets>>

InsertKey(h) ==
  /\ handler[h].at = "set key"
  /\ SetKey(handler[h].token, handler[h].payload)
  /\ Goto(h, "add to set")
  /\ UNCHANGED <<now, expiry, userSet, twoFactor, mailed, guarded, clicked, proved, resets>>

InsertMember(h) ==
  /\ handler[h].at = "add to set"
  /\ AddToSet(handler[h].token)
  /\ Goto(h, "expire set")
  /\ UNCHANGED <<now, expiry, keys, twoFactor, mailed, guarded, clicked, proved, resets>>

\* forgetPassword mails the link; a recovery code goes on to disable
\* two-factor authentication; the others are done.
InsertExpiry(h) ==
  LET purpose == handler[h].purpose
  IN /\ handler[h].at = "expire set"
     /\ ExpireSet(handler[h].token)
     /\ mailed' = IF purpose = "issue" THEN mailed \cup {handler[h].token} ELSE mailed
     /\ IF purpose = "recover" THEN Goto(h, "disable") ELSE Return(h)
     /\ UNCHANGED <<now, expiry, keys, twoFactor, guarded, clicked, proved, resets>>

DisableTwoFactorAuth(h) ==
  /\ handler[h].at = "disable"
  /\ twoFactor' = FALSE
  /\ Return(h)
  /\ UNCHANGED <<storeVars, mailed, guarded, clicked, proved, resets>>

-----------------------------------------------------------------------------
(* UpdatePassword and DeleteAllForUser.                                    *)

UpdatePassword(h) ==
  /\ handler[h].at = "update password"
  /\ resets' = resets \cup {handler[h].token}
  /\ Goto(h, "fetch hashes")
  /\ UNCHANGED <<storeVars, twoFactor, mailed, guarded, clicked, proved>>

FetchHashes(h) ==
  /\ handler[h].at = "fetch hashes"
  /\ handler' = [handler EXCEPT ![h] = [at |-> "delete", token |-> handler[h].token,
                                        hashes |-> Members, since |-> handler[h].since]]
  /\ UNCHANGED <<storeVars, twoFactor, mailed, guarded, clicked, proved, resets>>

DeleteNext(h) ==
  /\ handler[h].at = "delete"
  /\ \E t \in handler[h].hashes :
       /\ DeleteKey(t)
       /\ handler' = [handler EXCEPT ![h].hashes = @ \ {t}]
  /\ UNCHANGED <<now, expiry, userSet, twoFactor, mailed, guarded, clicked, proved, resets>>

DeleteUserSet(h) ==
  /\ handler[h].at = "delete" /\ handler[h].hashes = {}
  /\ DeleteSet
  /\ Return(h)
  /\ UNCHANGED <<now, expiry, keys, twoFactor, mailed, guarded, clicked, proved, resets>>

\* A command fails, or the request is cut off, and the answer is an error.
GiveUp(h) ==
  /\ handler[h] # Idle
  /\ Return(h)
  /\ UNCHANGED <<storeVars, twoFactor, mailed, guarded, clicked, proved, resets>>

HandlerStep(h) ==
  \/ \E t \in Tokens : \/ ForgetPassword(h, t) \/ ConfirmForgetPasswordToken(h, t)
                       \/ VerifyForgetPassword2fa(h, t)
                       \/ VerifyForgetPasswordRecoveryCode(h, t) \/ ResetPassword(h, t)
  \/ InsertKey(h) \/ InsertMember(h) \/ InsertExpiry(h) \/ DisableTwoFactorAuth(h)
  \/ UpdatePassword(h) \/ FetchHashes(h) \/ DeleteNext(h) \/ DeleteUserSet(h)
  \/ GiveUp(h)

Next == Tick \/ \E h \in Handlers : HandlerStep(h)

Spec == Init /\ [][Next]_vars

-----------------------------------------------------------------------------
InsertPlaces == {"set key", "add to set", "expire set", "disable"}

TypeOK ==
  /\ StoreTypeOK(Payload)
  /\ twoFactor \in BOOLEAN
  /\ {mailed, guarded, clicked, proved, resets} \subseteq SUBSET Tokens
  /\ handler \in [Handlers ->
       {Idle}
       \cup [at : InsertPlaces, token : Tokens, payload : Payload, purpose : Purposes,
             since : Nat]
       \cup [at : {"update password", "fetch hashes"}, token : Tokens, since : Nat]
       \cup [at : {"delete"}, token : Tokens, hashes : SUBSET Tokens, since : Nat]]

\* The password changes only with a token whose link was opened and, when the
\* user had two-factor authentication as the token was issued, for which a
\* valid code was presented: whatever handlers overwrite each other's payload,
\* and wherever one of them stops.
ResetIsConfirmed ==
  /\ TypeOK
  /\ \A t \in resets : t \in clicked /\ (t \in guarded => t \in proved)

\* Once a link has been confirmed it stays confirmed for as long as its token
\* lives, although every handler writes back the payload it has read.
ConfirmationSticks ==
  [][\A t \in Tokens : Live(t) /\ Data(t).confirmed /\ Live(t)' => Data(t)'.confirmed]_vars
=============================================================================
