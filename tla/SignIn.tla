------------------------------- MODULE SignIn -------------------------------
(***************************************************************************)
(* How accounts come to be and how their owners get in: sign-up, accounts  *)
(* made by administrators, Google; activation; signing in, with a second   *)
(* factor if there is one; resetting a password.                           *)
(***************************************************************************)
EXTENDS AccountStore

VARIABLES
  proved,     \* history: accounts with addresses that their owners have shown to be theirs
  signIns,    \* history: accounts signed in to, with what their owners had shown
  resets      \* history: passwords that were reset, with the address that was asked for, the
              \* mailbox of the link, and the addresses the account had when found and when changed

history == <<proved, signIns, resets>>

Form(r) == request[r].form
At(r, at) == request[r].at = at

\* The steps below change the request and the tokens, or the request alone.
Reads == UNCHANGED <<now, faults, users, cache, tokens, history>>
Issues == UNCHANGED <<now, faults, users, cache, history>>
Stores == UNCHANGED <<now, faults, cache, tokens>>

-----------------------------------------------------------------------------
(* Making accounts.                                                        *)

\* createUser with the row of the role, in one transaction.  Its INSERT lacks a
\* comma and two placeholders: the database refuses it.
Create(r, row, next) ==
  IF "createUser" \notin Repaired \/ ~EmailFree(row.email, {}) THEN Ends(r) /\ UNCHANGED users
  ELSE \E u \in UserIds \ Known :
         /\ users' = [users EXCEPT ![u] = row]
         /\ Go(r, next, [of |-> u, email |-> row.email, active |-> row.active])

RegisterNormalUser(r) ==
  /\ At(r, "registerNormalUser")
  /\ Create(r, NewUser(Form(r).email, Form(r).password, FALSE, FALSE), "send activation")
  /\ Stores /\ UNCHANGED history

\* createVendor and createAdmin.
CreateVendor(r) ==
  /\ At(r, "createVendor")
  /\ Create(r, NewUser(Form(r).email, "none", FALSE, TRUE), "send activation")
  /\ Stores /\ UNCHANGED history

\* sendAccountActivationEmail
SendActivation(r) ==
  /\ At(r, "send activation")
  /\ Issue(r, "activation", request[r].of, <<>>, "mail activation")
  /\ Issues

Mail(r, at, email) ==
  /\ At(r, at)
  /\ HandOver(request[r].issued, email)
  /\ Ends(r)
  /\ Issues

MailActivation(r) == Mail(r, "mail activation", request[r].email)

ActivateUser(r) ==
  LET t == Form(r).token   u == tokens[t].user
  IN /\ At(r, "activateUser")
     /\ IF Presents(t, "activation") /\ ~users[u].active
          THEN Go(r, "activate", [of |-> u, email |-> users[u].email, mailbox |-> tokens[t].mailbox])
          ELSE Ends(r)
     /\ Reads

SetUserAccountAsActivate(r) ==
  LET u == request[r].of
  IN /\ At(r, "activate")
     /\ users' = [users EXCEPT ![u].active = TRUE]
     /\ proved' = proved \cup {<<u, request[r].mailbox>>}
     /\ Go(r, "delete tokens", [scope |-> "activation",
             next |-> IF users[u].force THEN "force reset" ELSE "done"])
     /\ Stores /\ UNCHANGED <<signIns, resets>>

\* DeleteAllForUser, wherever a handler calls it.
DeleteTokens(r) ==
  /\ At(r, "delete tokens")
  /\ DeleteAllForUser(request[r].scope, request[r].of)
  /\ IF request[r].next = "done" THEN Ends(r) ELSE Go(r, request[r].next, <<>>)
  /\ Issues

Reset(email, twoFactor) == [email |-> email, confirmed |-> FALSE, needs2fa |-> twoFactor, verified |-> FALSE]

\* An account made by an administrator has no password: activation hands over
\* a token to set one.
ForceReset(r) ==
  /\ At(r, "force reset")
  /\ Issue(r, "forget_password", request[r].of, Reset(request[r].email, FALSE), "answer reset")
  /\ Issues

AnswerReset(r) == Mail(r, "answer reset", request[r].mailbox)

-----------------------------------------------------------------------------
(* Signing in.                                                             *)

\* Mutant: the flag as a copy in the cache gives it.
AsksForCodeByCopy(u) == users[u].twoFactor /\ ~Cached(u)

AsksForCode(u) == users[u].twoFactor

\* Mutant: without another e-mail.
RefuseInactive(r, u) == Ends(r)

NotActivated(r, u) == Go(r, "send activation", [of |-> u, email |-> users[u].email])

SignInUser(r) ==
  /\ At(r, "signIn")
  /\ \/ GetByEmail(Form(r).email) = {} /\ Ends(r)
     \/ \E u \in GetByEmail(Form(r).email) :
          CASE users[u].password = "none" \/ users[u].password # Form(r).password -> Ends(r)
            [] ~users[u].active -> NotActivated(r, u)
            [] OTHER -> Go(r, IF AsksForCode(u) THEN "ask for code" ELSE "open session",
                           [of |-> u, shown |-> {"password"}, asked |-> users[u].twoFactor])
  /\ Reads

AskForCode(r) ==
  /\ At(r, "ask for code")
  /\ Issue(r, "login_2fa", request[r].of, <<>>, "answer token")
  /\ Issues

\* The answer to somebody who has shown his password.
AnswerToken(r) == Mail(r, "answer token", "password")

\* With a token of the sign-in and a valid code.  A copy from the cache has no
\* secret to check the code against, and no recovery codes.
VerifyLogin2FA(r) ==
  LET t == Form(r).token
  IN /\ At(r, "verifyLogin2FA") \/ At(r, "verifyLogin2faRecoveryCode")
     /\ IF Presents(t, "login_2fa")
          THEN getUser(r, tokens[t].user, IF At(r, "verifyLogin2FA") THEN "check code" ELSE "check recovery code",
                       [shown |-> {tokens[t].mailbox, "code"}, asked |-> TRUE])
          ELSE Ends(r)
     /\ Reads

\* The code is checked against what getUser has read.
CheckCode(r) ==
  LET in == [of |-> request[r].me.id, scope |-> "login_2fa", next |-> "open session"]
  IN /\ \/ At(r, "check code") /\ (IF request[r].me.twoFactor THEN Go(r, "delete tokens", in) ELSE Ends(r))
        \/ At(r, "check recovery code") /\ (IF request[r].me.codes THEN Go(r, "disable 2fa", in) ELSE Ends(r))
     /\ Reads

DisableTwoFactorAuth(r) ==
  /\ At(r, "disable 2fa") \/ At(r, "disable 2fa and end")
  /\ users' = [users EXCEPT ![request[r].of].twoFactor = FALSE, ![request[r].of].codes = FALSE]
  /\ IF At(r, "disable 2fa") THEN Go(r, "delete tokens", <<>>) ELSE Ends(r)
  /\ Stores /\ UNCHANGED history

\* createUserSessionAndSetCookies
OpenSession(r) ==
  /\ At(r, "open session")
  /\ signIns' = signIns \cup
       {[user |-> request[r].of, shown |-> request[r].shown, asked |-> request[r].asked]}
  /\ Ends(r)
  /\ UNCHANGED <<now, faults, users, cache, tokens, proved, resets>>

\* With Google's word for the address; a new account is active at once when
\* Google has verified it, and one that matches is activated in any case.
GoogleCallback(r) ==
  /\ At(r, "googleCallbackHandler")
  /\ \/ /\ GetByEmail(Form(r).email) = {}
        /\ Go(r, "create with google", <<>>)
        /\ UNCHANGED proved
     \/ \E u \in GetByEmail(Form(r).email) :
          /\ Go(r, "upsert account", [of |-> u, active |-> users[u].active])
          /\ proved' = proved \cup {<<u, Form(r).email>>}
  /\ UNCHANGED <<now, faults, users, cache, tokens, signIns, resets>>

CreateWithGoogle(r) ==
  /\ At(r, "create with google")
  /\ Create(r, NewUser(Form(r).email, "none", Form(r).verified, FALSE), "upsert account")
  /\ proved' = proved \cup {<<u, Form(r).email>> : u \in {x \in UserIds : users'[x] # users[x]}}
  /\ Stores /\ UNCHANGED <<signIns, resets>>

\* ON CONFLICT leaves the link to whom it belongs to.
UpsertAccount(r) ==
  LET u == request[r].of   id == Form(r).google
  IN /\ At(r, "upsert account")
     /\ users' = IF \E v \in Known : id \in users[v].oauth THEN users
                  ELSE [users EXCEPT ![u].oauth = @ \cup {id}]
     /\ Go(r, IF request[r].active THEN "open session" ELSE "activate google",
           [shown |-> {"google"}, asked |-> FALSE])
     /\ Stores /\ UNCHANGED history

ActivateGoogle(r) ==
  /\ At(r, "activate google")
  /\ users' = [users EXCEPT ![request[r].of].active = TRUE]
  /\ Go(r, "open session", <<>>)
  /\ Stores /\ UNCHANGED history

-----------------------------------------------------------------------------
(* Resetting a password.                                                   *)

Data(t) == tokens[t].data

\* An account of Google is sent there if it has no password.
ForgetPassword(r) ==
  /\ At(r, "forgetPassword")
  /\ \/ GetByEmail(Form(r).email) = {} /\ Ends(r)
     \/ \E u \in GetByEmail(Form(r).email) :
          IF users[u].password = "none" /\ users[u].oauth # {} THEN Ends(r)
          ELSE Go(r, "issue reset", [of |-> u, email |-> users[u].email, twoFactor |-> users[u].twoFactor])
  /\ Reads

\* The token keeps the address that was asked for, the mail goes to the account's.
IssueReset(r) ==
  /\ At(r, "issue reset")
  /\ Issue(r, "forget_password", request[r].of, Reset(Form(r).email, request[r].twoFactor), "mail reset")
  /\ Issues

MailReset(r) == Mail(r, "mail reset", request[r].email)

ConfirmForgetPasswordToken(r) ==
  LET t == Form(r).token
  IN /\ At(r, "confirmForgetPasswordToken")
     /\ IF Presents(t, "forget_password")
          THEN Rewrite(r, t, [Data(t) EXCEPT !.confirmed = TRUE], "done")
          ELSE Ends(r)
     /\ Reads

AwaitsCode(t) == Presents(t, "forget_password") /\ Data(t).confirmed /\ Data(t).needs2fa

\* With a valid code; the secret is read from the table.
VerifyForgetPassword2fa(r) ==
  LET t == Form(r).token
  IN /\ At(r, "verifyForgetPassword2fa")
     /\ IF AwaitsCode(t) /\ users[tokens[t].user].twoFactor
          THEN Rewrite(r, t, [Data(t) EXCEPT !.verified = TRUE], "done")
          ELSE Ends(r)
     /\ Reads

\* The codes are read through the cache.
VerifyForgetPasswordRecoveryCode(r) ==
  LET t == Form(r).token
  IN /\ At(r, "verifyForgetPasswordRecoveryCode")
     /\ IF AwaitsCode(t) THEN getUser(r, tokens[t].user, "verify codes", [issued |-> t, token |-> tokens[t]]) ELSE Ends(r)
     /\ Reads

VerifyCodes(r) ==
  LET q == request[r]
  IN /\ At(r, "verify codes")
     /\ IF q.me.codes
          THEN Go(r, "set token", [of |-> q.me.id, next |-> "disable 2fa and end",
                                   token |-> [q.token EXCEPT !.data.verified = TRUE]])
          ELSE Ends(r)
     /\ Reads

MayReset(t) ==
  Presents(t, "forget_password") /\ Data(t).confirmed /\ (Data(t).needs2fa => Data(t).verified)

\* Mutant: the user the token was made for.
ResetsOfUser(t) == {tokens[t].user}

\* A user who has a matching address now.
ResetsOf(t) == GetByEmail(Data(t).email)

ResetPassword(r) ==
  LET t == Form(r).token
  IN /\ At(r, "resetPassword")
     /\ \/ ~MayReset(t) /\ Ends(r)
        \/ MayReset(t) /\ ResetsOf(t) = {} /\ Ends(r)
        \/ /\ MayReset(t)
           /\ \E u \in ResetsOf(t) :
                Go(r, "store new password", [of |-> u, named |-> Data(t).email, email |-> users[u].email,
                                             mailbox |-> tokens[t].mailbox])
     /\ Reads

\* WHERE id = $2, whatever the account's address is by then.
UpdatePassword(r) ==
  /\ At(r, "store new password")
  /\ users' = [users EXCEPT ![request[r].of].password = Form(r).password]
  /\ resets' = resets \cup {[user |-> request[r].of, named |-> request[r].named, mailbox |-> request[r].mailbox,
                             found |-> request[r].email, has |-> users[request[r].of].email]}
  /\ Go(r, "delete tokens", [scope |-> "forget_password", next |-> "done"])
  /\ Stores /\ UNCHANGED <<proved, signIns>>

-----------------------------------------------------------------------------
ServeSignIn(r) ==
  \/ RegisterNormalUser(r) \/ CreateVendor(r) \/ SendActivation(r) \/ MailActivation(r)
  \/ ActivateUser(r) \/ SetUserAccountAsActivate(r) \/ DeleteTokens(r) \/ ForceReset(r) \/ AnswerReset(r)
  \/ SignInUser(r) \/ AskForCode(r) \/ AnswerToken(r) \/ VerifyLogin2FA(r) \/ CheckCode(r)
  \/ DisableTwoFactorAuth(r) \/ OpenSession(r)
  \/ GoogleCallback(r) \/ CreateWithGoogle(r) \/ UpsertAccount(r) \/ ActivateGoogle(r)
  \/ ForgetPassword(r) \/ IssueReset(r) \/ MailReset(r) \/ ConfirmForgetPasswordToken(r)
  \/ VerifyForgetPassword2fa(r) \/ VerifyForgetPasswordRecoveryCode(r) \/ VerifyCodes(r)
  \/ ResetPassword(r) \/ UpdatePassword(r)

SignInTypeOK ==
  /\ StoreTypeOK
  /\ proved \subseteq UserIds \X Addresses
  /\ signIns \subseteq [user : UserIds, shown : SUBSET {"google", "password", "code"}, asked : BOOLEAN]
  /\ resets \subseteq [user : UserIds, named : Addresses, mailbox : Addresses, found : Addresses, has : Addresses]

\* Somebody has shown to have an address that names the account's.
OwnerKnown(u) == \E p \in proved : p[1] = u /\ users[u].email \in Named(p[2])

\* An account is active only when somebody has shown to have its address, by a
\* link that had gone there, or one that matches it as the database compares
\* addresses, by a Google account.  The match is all there is: who has the
\* Google account of a_b@x activates the account of acb@x.
AddressesProved == \A u \in Known : users[u].active => OwnerKnown(u)

\* What is stored about accounts is sound: an address belongs to one account,
\* to an active one only if somebody has proved it or one that matches it, and
\* copies age out.
AccountsSound == SignInTypeOK /\ AddressesDistinct /\ CopiesRecent /\ AddressesProved

\* Whoever signs in has shown the password, and a code if the account asked
\* for one when the password was checked, or has come from Google.
SignInsProved ==
  \A s \in signIns : "google" \in s.shown
                    \/ ("password" \in s.shown /\ (s.asked => "code" \in s.shown))

\* A password is reset by a link to a mailbox that the address asked for names,
\* and for an account found under an address that it names: with an address that
\* matches no other these are the same, and a link does not survive a change of
\* address.  If the account's address is another by the time the password is
\* changed, whoever has that one had confirmed it.
MailboxSetsPassword ==
  \A x \in resets : /\ {x.mailbox, x.found} \subseteq Named(x.named)
                    /\ x.has # x.found => <<x.user, x.has>> \in proved
=============================================================================
