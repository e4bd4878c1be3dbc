--------------------------- MODULE AccountSettings ---------------------------
(***************************************************************************)
(* What somebody signed in changes of his account: password, address,      *)
(* second factor.  AuthMiddleware reads him through the cache; the old     *)
(* password is compared with the table, which renews the copy.             *)
(***************************************************************************)
EXTENDS SignIn

\* AuthMiddleware, up to the handler.
AuthMiddleware(r) ==
  /\ At(r, "authenticate")
  /\ getUser(r, Form(r).user, Form(r).handler, <<>>)
  /\ Reads

\* getCurrentUser, and every other handler that changes no account.
GetCurrentUser(r) ==
  /\ At(r, "getCurrentUser")
  /\ Ends(r)
  /\ Reads

\* withPasswordAccess
PasswordAccess(r, password, granted, refused) ==
  Fetch(r, request[r].me.id, IF users[request[r].me.id].password = password THEN granted ELSE refused, <<>>)

Asks2fa(r, scope, data) == Issue(r, scope, request[r].me.id, data, "answer settings token")

AnswerSettingsToken(r) == Mail(r, "answer settings token", "session")

-----------------------------------------------------------------------------
(* The password.                                                           *)

ChangePassword(r) ==
  /\ \/ At(r, "changePassword") /\ PasswordAccess(r, Form(r).old, "compare new", "done")
     \/ At(r, "compare new") /\ PasswordAccess(r, Form(r).password, "done", "change password")
  /\ Reads

\* The second factor is asked of whom the middleware has read with it.
MayChangePassword(r) ==
  /\ At(r, "change password")
  /\ IF request[r].me.twoFactor
       THEN Asks2fa(r, "change_password_2fa", [email |-> request[r].me.email, password |-> Form(r).password])
       ELSE Go(r, "store password", [new |-> Form(r).password, next |-> "done"]) /\ UNCHANGED tokens
  /\ Issues

\* The code is not looked at, and of the token's owner only the address.
VerifyChangePassword2fa(r) ==
  LET t == Form(r).token
  IN /\ At(r, "verifyChangePassword2fa")
     /\ IF Presents(t, "change_password_2fa") /\ Data(t).email = request[r].me.email
          THEN Go(r, "store password", [new |-> Data(t).password, next |-> "delete tokens"])
          ELSE Ends(r)
     /\ Reads

StorePassword(r) ==
  LET q == request[r]
  IN /\ At(r, "store password")
     /\ users' = [users EXCEPT ![q.me.id].password = q.new]
     /\ IF q.next = "done" THEN Ends(r)
        ELSE Go(r, "delete tokens", [of |-> q.me.id, scope |-> "change_password_2fa", next |-> "done"])
     /\ Stores /\ UNCHANGED history

-----------------------------------------------------------------------------
(* The address.                                                            *)

InitiateEmailChange(r) ==
  /\ At(r, "initiateEmailChange")
  /\ PasswordAccess(r, Form(r).password, "look for address", "done")
  /\ Reads

LookForAddress(r) ==
  /\ At(r, "look for address")
  /\ IF GetByEmail(Form(r).email) # {} THEN Ends(r) /\ UNCHANGED tokens
     ELSE IF request[r].me.twoFactor THEN Asks2fa(r, "change_email_2fa", [email |-> Form(r).email])
     ELSE Go(r, "send change", [to |-> Form(r).email]) /\ UNCHANGED tokens
  /\ Issues

SendEmailChangeToken(r) ==
  /\ At(r, "send change")
  /\ Issue(r, "change_email", request[r].me.id, [email |-> request[r].to], "mail change")
  /\ Issues

\* Mutant: to the address the user has.
MailChangeToOld(r) == Mail(r, "mail change", request[r].me.email)

MailChange(r) == Mail(r, "mail change", request[r].to)

\* The answer of verifyTOTP is the wrong way round.
verifyTOTP(r) == ~Form(r).valid

\* The token may be anybody's; those of the caller are deleted.
VerifyEmailChange2fa(r) ==
  LET t == Form(r).token
  IN /\ At(r, "verifyEmailChange2fa")
     /\ IF Presents(t, "change_email_2fa") /\ request[r].me.twoFactor /\ verifyTOTP(r)
          THEN Go(r, "delete tokens", [of |-> request[r].me.id, scope |-> "change_email_2fa",
                                       to |-> Data(t).email, next |-> "send change"])
          ELSE Ends(r)
     /\ Reads

\* The link in the mail, opened by anybody.
VerifyEmailChange(r) ==
  LET t == Form(r).token
  IN /\ At(r, "verifyEmailChange")
     /\ IF Presents(t, "change_email")
          THEN getUser(r, tokens[t].user, "store address", [to |-> Data(t).email, mailbox |-> tokens[t].mailbox])
          ELSE Ends(r)
     /\ Reads

UpdateEmail(r) ==
  LET q == request[r]
  IN /\ At(r, "store address")
     /\ IF EmailFree(q.to, {q.me.id})
          THEN /\ users' = [users EXCEPT ![q.me.id].email = q.to]
               /\ proved' = proved \cup {<<q.me.id, q.mailbox>>}
               /\ Go(r, "delete tokens", [of |-> q.me.id, scope |-> "change_email", next |-> "done"])
          ELSE Ends(r) /\ UNCHANGED <<users, proved>>
     /\ Stores /\ UNCHANGED <<signIns, resets>>

-----------------------------------------------------------------------------
(* The second factor.                                                      *)

\* verify2faSetup, with a valid code.  The recovery codes are not stored.
EnableTwoFactorAuth(r) ==
  /\ At(r, "verify2faSetup")
  /\ users' = [users EXCEPT ![request[r].me.id].twoFactor = TRUE]
  /\ Ends(r)
  /\ Stores /\ UNCHANGED history

ResetRecoveryCodes(r) ==
  /\ At(r, "resetRecoveryCodes")
  /\ users' = IF request[r].me.twoFactor THEN [users EXCEPT ![request[r].me.id].codes = TRUE] ELSE users
  /\ Ends(r)
  /\ Stores /\ UNCHANGED history

\* With the password.
ViewRecoveryCodes(r) ==
  /\ At(r, "viewRecoveryCodes")
  /\ PasswordAccess(r, Form(r).password, "done", "done")
  /\ Reads

ServeSettings(r) ==
  \/ AuthMiddleware(r) \/ GetCurrentUser(r) \/ AnswerSettingsToken(r)
  \/ ChangePassword(r) \/ MayChangePassword(r) \/ VerifyChangePassword2fa(r) \/ StorePassword(r)
  \/ InitiateEmailChange(r) \/ LookForAddress(r) \/ SendEmailChangeToken(r) \/ MailChange(r)
  \/ VerifyEmailChange2fa(r) \/ VerifyEmailChange(r) \/ UpdateEmail(r)
  \/ EnableTwoFactorAuth(r) \/ ResetRecoveryCodes(r) \/ ViewRecoveryCodes(r)
=============================================================================
