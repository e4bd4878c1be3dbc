----------------------------- MODULE MCAccounts -----------------------------
(* An instance of Accounts for TLC. *)
EXTENDS Accounts, TLC

CONSTANTS una, vic, t1, t2, t3, r1, r2, g1

\* An address with a wildcard matches the others as well.
Like == [e \in {"a", "b", "_"} |-> IF e = "_" THEN {"a", "b", "_"} ELSE {e}]

Send(handlers, rest) == {[handler |-> h] @@ rest : h \in handlers}
Account(email, twoFactor) == [NewUser(email, "old", TRUE, FALSE) EXCEPT !.twoFactor = twoFactor]
Alone(forms, rows) == [users |-> rows, forms |-> forms, owner |-> NoOwner, tokens |-> {t1, t2},
                       periods |-> 0, faults |-> 1]

\* An administrator makes an account, somebody registers with the same address,
\* and its owner gets in.
Onboarding ==
  [users |-> <<>>, owner |-> [email |-> "a", password |-> "new"], tokens |-> Tokens, periods |-> 0, faults |-> 1,
   forms |-> Send({"createVendor"}, [email |-> "a"])
             \cup Send({"registerNormalUser"}, [email |-> "a", password |-> "new"])]

\* Registration, activation and Google with the same address.
SigningUp ==
  Alone(Send({"registerNormalUser"}, [email |-> "a", password |-> "old"])
        \cup Send({"createVendor"}, [email |-> "a"])
        \cup Send({"activateUser"}, <<>>)
        \cup Send({"googleCallbackHandler"}, [email |-> "a", verified |-> FALSE, google |-> g1]), <<>>)

\* Somebody who has come from Google has no password to reset.
ComingFromGoogle ==
  Alone(Send({"googleCallbackHandler"}, [email |-> "a", verified |-> TRUE, google |-> g1])
        \cup Send({"forgetPassword"}, [email |-> "a"]), <<>>)

\* Somebody comes from Google with an address that matches another's.
LookingAlike ==
  [Alone(Send({"registerNormalUser"}, [email |-> "a", password |-> "old"])
        \cup Send({"activateUser"}, <<>>)
        \cup Send({"googleCallbackHandler"}, [email |-> "_", verified |-> TRUE, google |-> g1]), <<>>)
   EXCEPT !.tokens = {t1}]

\* A link is asked for with an address that matches those of two accounts.
MeaningTwo ==
  [Alone(Send({"forgetPassword"}, [email |-> "_"])
         \cup Send({"confirmForgetPasswordToken"}, <<>>)
         \cup Send({"resetPassword"}, [password |-> "new"]),
         una :> Account("a", FALSE) @@ vic :> Account("b", FALSE)) EXCEPT !.tokens = {t1}, !.faults = 0]

\* A user moves to an address that somebody else registers as well.
Moving ==
  Alone(Send({"initiateEmailChange"}, [user |-> una, email |-> "b", password |-> "old"])
        \cup Send({"verifyEmailChange"}, <<>>)
        \cup Send({"getCurrentUser"}, [user |-> una])
        \cup Send({"registerNormalUser"}, [email |-> "b", password |-> "old"]), una :> Account("a", FALSE))

\* A user moves to another address after a link to reset his password was sent
\* to the old one.
Resetting ==
  [Alone(Send({"initiateEmailChange"}, [user |-> una, email |-> "b", password |-> "old"])
         \cup Send({"verifyEmailChange", "confirmForgetPasswordToken"}, <<>>)
         \cup Send({"forgetPassword"}, [email |-> "a"])
         \cup Send({"resetPassword"}, [password |-> "old"]), una :> Account("a", FALSE))
   EXCEPT !.faults = 0]

\* A user turns the second factor on, while his copy in the cache gets old.
Securing ==
  [Alone(Send({"signIn"}, [email |-> "a", password |-> "old"])
         \cup Send({"verify2faSetup"}, [user |-> una]),
         una :> Account("a", FALSE)) EXCEPT !.periods = 2, !.faults = 0]

\* A user signs in with the second factor.
SigningIn ==
  [Alone(Send({"signIn"}, [email |-> "a", password |-> "old"])
         \cup Send({"verifyLogin2FA", "verifyLogin2faRecoveryCode"}, <<>>),
         una :> [Account("a", TRUE) EXCEPT !.codes = TRUE]) EXCEPT !.tokens = {t1}, !.periods = 1, !.faults = 0]

\* A user with the second factor changes his password.
ChangingPassword ==
  Alone(Send({"changePassword"}, [user |-> una, old |-> "old", password |-> "new"])
        \cup Send({"verifyChangePassword2fa", "viewRecoveryCodes", "resetRecoveryCodes"}, [user |-> una, password |-> "old"]),
        una :> Account("a", TRUE))

\* A user with the second factor changes his address.
ChangingAddress ==
  [Alone(Send({"initiateEmailChange"}, [user |-> una, email |-> "b", password |-> "old"])
        \cup UNION {Send({"verifyEmailChange2fa"}, [user |-> una, valid |-> b]) : b \in BOOLEAN}
        \cup Send({"verifyEmailChange"}, <<>>), una :> Account("a", TRUE))
   EXCEPT !.faults = 0]

\* A user with the second factor resets his password.
Recovering ==
  [Alone(Send({"forgetPassword"}, [email |-> "a"])
        \cup Send({"confirmForgetPasswordToken", "verifyForgetPassword2fa",
                   "verifyForgetPasswordRecoveryCode"}, <<>>)
        \cup Send({"resetPassword"}, [password |-> "new"]),
        una :> [Account("a", TRUE) EXCEPT !.codes = TRUE]) EXCEPT !.tokens = {t1}]

SomeScenarios == {Onboarding, SigningUp, ComingFromGoogle, LookingAlike, MeaningTwo, Moving, Resetting, Securing, SigningIn,
                  ChangingPassword, ChangingAddress, Recovering}
=============================================================================
