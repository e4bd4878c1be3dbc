------------------------------- MODULE Accounts -------------------------------
(***************************************************************************)
(* Accounts: requests that make them, get into them and change them,       *)
(* side by side; each may be cut off between two statements.  In some      *)
(* scenarios the owner of an address keeps trying to get into his account. *)
(***************************************************************************)
EXTENDS AccountSettings

CONSTANTS Scenarios,   \* what there is and what callers send
          Mine,        \* the request that the owner's client has under way
          NoOwner

ASSUME ClientAssumption == Mine \in Requests

\* What needs no sign-in of the account's owner (administrators make vendors),
\* and what does.
Public == {"registerNormalUser", "createVendor", "activateUser", "signIn", "verifyLogin2FA",
           "verifyLogin2faRecoveryCode", "googleCallbackHandler", "forgetPassword",
           "confirmForgetPasswordToken", "verifyForgetPassword2fa",
           "verifyForgetPasswordRecoveryCode", "resetPassword", "verifyEmailChange"}
Private == {"getCurrentUser", "changePassword", "verifyChangePassword2fa", "initiateEmailChange",
            "verifyEmailChange2fa", "verify2faSetup", "resetRecoveryCodes", "viewRecoveryCodes"}

Sendable(form) ==
  /\ "handler" \in DOMAIN form /\ form.handler \in Public \cup Private
  /\ "user" \in DOMAIN form <=> form.handler \in Private
  /\ form.handler \in {"registerNormalUser", "createVendor", "signIn", "googleCallbackHandler",
                        "forgetPassword", "initiateEmailChange"} => form.email \in Addresses
  /\ form.handler \in {"registerNormalUser", "resetPassword", "changePassword"} =>
       "password" \in DOMAIN form /\ form.password \in Passwords
  /\ form.handler = "googleCallbackHandler" => form.verified \in BOOLEAN /\ form.google \in GoogleAccounts

\* A scenario has users; forms, what callers send, with tokens of their choice,
\* those of the signed-in with an account that is active (signing in asks for
\* that, and no account stops being so); owner, whose address it is, which
\* matches no other, and the password he sets, or NoOwner; and the bounds of the model: tokens that there
\* can be at a time, periods, and faults.
ASSUME ScenarioAssumption == \A s \in Scenarios :
  /\ DOMAIN s.users \subseteq UserIds /\ \A u \in DOMAIN s.users : s.users[u] \in UserRows
  /\ \A u, v \in DOMAIN s.users : s.users[u].email = s.users[v].email => u = v
  /\ \A form \in s.forms :
       /\ Sendable(form)
       /\ form.handler \in Private => form.user \in DOMAIN s.users /\ s.users[form.user].active
  /\ s.owner # NoOwner =>
       /\ s.owner.email \in Addresses /\ Matches[s.owner.email] = {s.owner.email}
       /\ s.owner.password \in Passwords
  /\ s.tokens \subseteq Tokens /\ {s.periods, s.faults} \subseteq Nat

vars == <<storeVars, history, scenario>>

Init ==
  /\ scenario \in Scenarios
  /\ users = [u \in UserIds |-> IF u \in DOMAIN scenario.users THEN scenario.users[u] ELSE NoUser]
  /\ now = 0 /\ faults = 0
  /\ cache = [u \in UserIds |-> NoCopy]
  /\ tokens = [t \in Tokens |-> NoToken]
  /\ request = [r \in Requests |-> Idle]
  /\ proved = {<<u, users[u].email>> : u \in {v \in Known : users[v].active}}
  /\ signIns = {} /\ resets = {}

Start(r, form) ==
  /\ request[r] = Idle
  /\ request' = [request EXCEPT ![r] =
       [at |-> IF "user" \in DOMAIN form THEN "authenticate" ELSE form.handler, since |-> now, form |-> form]]
  /\ UNCHANGED <<now, faults, users, cache, tokens, history, scenario>>

TakesToken == {"activateUser", "verifyLogin2FA", "verifyLogin2faRecoveryCode", "verifyChangePassword2fa",
               "verifyEmailChange2fa", "verifyEmailChange", "confirmForgetPasswordToken",
               "verifyForgetPassword2fa", "verifyForgetPasswordRecoveryCode", "resetPassword"}

\* Anything that was handed over may be presented anywhere.
Arrive(r) ==
  /\ scenario.owner # NoOwner => r # Mine
  /\ \E form \in scenario.forms :
       IF form.handler \in TakesToken
         THEN \E t \in {x \in Tokens : tokens[x] # NoToken /\ tokens[x].mailbox # "none"} :
                Start(r, Over([token |-> t], form))
         ELSE Start(r, form)

-----------------------------------------------------------------------------
(* The owner's client: it sends what the last answers told it to.          *)

Mailed(u, scope) == {t \in Tokens : Presents(t, scope) /\ tokens[t].user = u}

ResetForms(u) ==
  IF Mailed(u, "forget_password") = {}
    THEN {[handler |-> "forgetPassword", email |-> scenario.owner.email]}
    ELSE {IF Data(t).confirmed
            THEN [handler |-> "resetPassword", token |-> t, password |-> scenario.owner.password]
            ELSE [handler |-> "confirmForgetPasswordToken", token |-> t] : t \in Mailed(u, "forget_password")}

NextForms(u) ==
  IF users[u].password = "none" THEN ResetForms(u)
  ELSE IF ~users[u].active /\ Mailed(u, "activation") # {}
    THEN {[handler |-> "activateUser", token |-> t] : t \in Mailed(u, "activation")}
  ELSE {[handler |-> "signIn", email |-> scenario.owner.email, password |-> scenario.owner.password]}

OwnerSends ==
  /\ scenario.owner # NoOwner
  /\ \E u \in {v \in Known : users[v].email = scenario.owner.email} :
       /\ ~\E s \in signIns : s.user = u
       /\ \E form \in NextForms(u) : Start(Mine, form)

-----------------------------------------------------------------------------
Serve(r) ==
  \/ (CacheUser(r) \/ ListToken(r) \/ SetToken(r)) /\ UNCHANGED <<history, scenario>>
  \/ (ServeSignIn(r) \/ ServeSettings(r)) /\ UNCHANGED scenario

Next ==
  \/ \E r \in Requests : Arrive(r) \/ Serve(r) \/ (Stop(r) /\ UNCHANGED <<history, scenario>>)
  \/ OwnerSends
  \/ \E t \in Tokens : Expire(t) /\ UNCHANGED <<history, scenario>>
  \/ Tick /\ UNCHANGED <<history, scenario>>

\* The owner's request goes on until it ends, and he does not give up.
Fairness == WF_vars(Serve(Mine)) /\ WF_vars(OwnerSends)

Spec == Init /\ [][Next]_vars /\ Fairness

-----------------------------------------------------------------------------
\* However requests, keys and mails get lost on the way, whoever has an account
\* and its mailbox gets in in the end, accounts without a password included.
\* (An account is made here only if createUser is repaired.)
OwnerGetsIn ==
  \A u \in UserIds :
    (scenario.owner # NoOwner /\ u \in Known /\ users[u].email = scenario.owner.email)
      ~> (\E s \in signIns : s.user = u)
=============================================================================
