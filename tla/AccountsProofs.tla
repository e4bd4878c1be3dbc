--------------------------- MODULE AccountsProofs ---------------------------
(***************************************************************************)
(* Accounts are sound, signed in to and reset as they should be, for any   *)
(* users, addresses, tokens and scenarios, any number of requests that     *)
(* overlap, cut off anywhere.                                              *)
(***************************************************************************)
EXTENDS Accounts, TLAPS

-----------------------------------------------------------------------------
(* Users.                                                                  *)

UsersOK ==
  /\ users \in [UserIds -> UserRows \cup {NoUser}]
  /\ AddressesDistinct
  /\ AddressesProved
  /\ proved \subseteq UserIds \X Addresses

Active(u) == u \in Known /\ users[u].active

\* Whoever calls as somebody signed in.
CallersOK == \A form \in scenario.forms : form.handler \in Private => Active(form.user)

\* An account has an address that it had, unless another was confirmed.
HasStill(u, email) == users[u].email = email \/ <<u, users[u].email>> \in proved

\* An address an account has, or had before it was active and moved on.
Owned(u, email) ==
  /\ u \in Known /\ email \in Addresses
  /\ users[u].active \/ users[u].email = email

CopiesOK ==
  /\ cache \in [UserIds -> [email : Addresses, read : Nat, until : Nat] \cup {NoCopy}]
  /\ \A u \in UserIds : cache[u] # NoCopy => cache[u].until <= cache[u].read + 1 + CacheTTL

-----------------------------------------------------------------------------
(* Tokens: where they have been sent is where they belong.                 *)

Has(q, fields) == fields \subseteq DOMAIN q

DataOK(scope, data) ==
  /\ scope = "forget_password" =>
       Has(data, {"email", "confirmed", "needs2fa", "verified"}) /\ data.email \in Addresses
  /\ scope = "change_password_2fa" => data.password \in Passwords
  /\ scope \in {"change_email_2fa", "change_email"} => data.email \in Addresses

Belongs(token, mailbox) ==
  /\ token.scope = "activation" => Owned(token.user, mailbox)
  /\ token.scope = "forget_password" => mailbox \in Named(token.data.email)
  /\ token.scope = "change_email" => mailbox = token.data.email
  /\ token.scope = "login_2fa" => mailbox = "password"
  /\ token.scope \in {"change_password_2fa", "change_email_2fa"} => mailbox = "session"

TokenOK(token) ==
  /\ token = [scope |-> token.scope, user |-> token.user, data |-> token.data,
              listed |-> token.listed, mailbox |-> token.mailbox]
  /\ token.scope \in Scopes /\ token.user \in Known /\ token.listed \in BOOLEAN
  /\ DataOK(token.scope, token.data)
  /\ token.scope = "change_email" => Active(token.user)
  /\ token.mailbox = "none" \/ Belongs(token, token.mailbox)

TokensOK ==
  /\ DOMAIN tokens = Tokens
  /\ \A t \in Tokens : tokens[t] = NoToken \/ TokenOK(tokens[t])

-----------------------------------------------------------------------------
(* Requests.                                                               *)

SignedIn(q) == Has(q, {"me"}) /\ Active(q.me.id) /\ q.me.email \in Addresses

\* What is shown to sign in, and what the account asked for.
Earned(shown, asked) ==
  /\ shown \subseteq {"google", "password", "code"} /\ asked \in BOOLEAN
  /\ "google" \in shown \/ ("password" \in shown /\ (asked => "code" \in shown))

MakesAccount == {"registerNormalUser", "createVendor", "googleCallbackHandler", "create with google"}
Mailing == {"mail activation", "answer reset", "answer token", "mail reset",
            "answer settings token", "mail change"}
Relays == {"cache user", "list token", "set token", "delete tokens", "disable 2fa"}
Steps == {"done", "send activation", "activate", "force reset", "ask for code", "check code",
          "check recovery code", "disable 2fa and end", "open session", "create with google",
          "upsert account", "activate google", "issue reset", "verify codes", "store new password",
          "authenticate", "compare new", "change password", "store password",
          "look for address", "send change", "store address"}

\* What a request has got when it is at a step, or is going there.
Ready(q, at) ==
  /\ at \in Public \cup Private \cup Mailing \cup Steps
  /\ at \in MakesAccount \cup {"signIn", "forgetPassword", "issue reset", "mail reset",
                               "initiateEmailChange", "look for address"} => q.form.email \in Addresses
  /\ at \in {"googleCallbackHandler", "create with google"} => q.form.verified \in BOOLEAN
  /\ at \in {"googleCallbackHandler", "create with google", "upsert account"} =>
       q.form.google \in GoogleAccounts
  /\ at \in {"issue reset", "mail reset"} => Has(q, {"email"}) /\ q.email \in Named(q.form.email)
  /\ at \in {"registerNormalUser", "resetPassword", "store new password", "changePassword",
             "compare new", "change password"} => q.form.password \in Passwords
  /\ at \in TakesToken => q.form.token \in Tokens
  /\ at \in {"send activation", "mail activation"} => Has(q, {"of", "email"}) /\ Owned(q.of, q.email)
  /\ at \in {"activate", "force reset", "answer reset"} =>
       Has(q, {"of", "email", "mailbox"}) /\ Owned(q.of, q.mailbox) /\ q.email = q.mailbox
  /\ at \in {"ask for code", "disable 2fa and end", "open session", "upsert account",
             "activate google", "issue reset", "store new password"} => Has(q, {"of"}) /\ q.of \in Known
  /\ at \in {"upsert account", "activate google"} => OwnerKnown(q.of)
  /\ at = "upsert account" => Has(q, {"active"}) /\ (q.active => users[q.of].active)
  /\ at \in {"open session", "activate google", "check code", "check recovery code"} =>
       Has(q, {"shown", "asked"}) /\ Earned(q.shown, q.asked)
  /\ at \in {"check code", "check recovery code", "verify codes"} =>
       Has(q, {"me"}) /\ q.me.id \in Known
  /\ at = "store new password" =>
       /\ Has(q, {"named", "email", "mailbox"}) /\ q.named \in Addresses
       /\ q.email \in Named(q.named) /\ q.mailbox \in Named(q.named)
       /\ HasStill(q.of, q.email)
  /\ at = "authenticate" =>
       /\ q.form.handler \in Private /\ Active(q.form.user)
       /\ Sendable(q.form)
       /\ q.form.handler \in TakesToken => q.form.token \in Tokens
  /\ at \in Private \cup {"compare new", "change password", "store password", "look for address",
                          "answer settings token", "send change", "mail change"} => SignedIn(q)
  /\ at = "store password" =>
       Has(q, {"new", "next"}) /\ q.new \in Passwords /\ q.next \in {"done", "delete tokens"}
  /\ at \in {"send change", "mail change", "store address"} => Has(q, {"to"}) /\ q.to \in Addresses
  /\ at = "store address" => Has(q, {"me", "mailbox"}) /\ Active(q.me.id) /\ q.mailbox = q.to

\* A request that writes a token back that it has read.
Rewrites(q) ==
  /\ Has(q, {"issued"}) /\ TokenOK(q.token) /\ q.token.scope = "forget_password"
  /\ \/ q.at \in {"verify codes", "set token", "disable 2fa and end"}
     \/ q.at = "cache user" /\ q.next = "verify codes"
     \/ q.at = "list token" /\ q.next \in {"done", "disable 2fa and end"}

Fresh(q) ==
  /\ Has(q, {"at", "since", "form"})
  /\ q.since \in Nat /\ q.since <= now /\ now <= q.since + 1

\* At a step that is there to lead to the next.
Leads(q) ==
  /\ Has(q, {"next"}) /\ Ready(q, q.next)
  /\ q.next \in Mailing => q.at = "list token"
  /\ q.next = "verify codes" => q.at = "cache user" /\ Has(q, {"token"})
  /\ q.at = "cache user" =>
       /\ Has(q, {"of", "copy"}) /\ q.of \in Known
       /\ q.copy = [email |-> q.copy.email, read |-> q.copy.read]
       /\ q.copy.email \in Addresses /\ q.copy.read \in q.since..now
  /\ q.at = "list token" => Has(q, {"issued"})
  /\ q.at = "set token" => Has(q, {"token"}) /\ q.next \in {"done", "disable 2fa and end"}
  /\ q.at \in {"delete tokens", "disable 2fa"} =>
       Has(q, {"of", "scope"}) /\ q.of \in Known /\ q.scope \in Scopes
  /\ q.at = "disable 2fa" => q.next = "open session"

Stage(q) == IF q.at \in Relays THEN Leads(q) ELSE Ready(q, q.at)

RequestOK(q) ==
  \/ q = Idle
  \/ /\ Fresh(q)
     /\ Has(q, {"issued"}) => q.issued \in Tokens
     /\ Has(q, {"token"}) => Rewrites(q)
     /\ q.at \in Mailing => Has(q, {"issued"})
     /\ q.at = "verify codes" => Has(q, {"token"})
     /\ Stage(q)

RequestsOK == DOMAIN request = Requests /\ \A r \in Requests : RequestOK(request[r])

\* Where a request is that is about to list its token, and where that goes.
Place(q) == IF q.at = "list token" THEN q.next ELSE q.at

Goes(q) == CASE Place(q) = "mail activation"       -> q.email
             [] Place(q) = "answer reset"          -> q.mailbox
             [] Place(q) = "mail reset"            -> q.email
             [] Place(q) = "answer token"          -> "password"
             [] Place(q) = "answer settings token" -> "session"
             [] Place(q) = "mail change"           -> q.to

Fits(q, token) == Place(q) \in Mailing => Belongs(token, Goes(q))

\* A token may be sent by whoever has issued it, whatever is written back.
IssuedOK ==
  \A r \in Requests : Has(request[r], {"issued"}) =>
    LET t == request[r].issued
    IN /\ tokens[t] # NoToken => Fits(request[r], tokens[t])
       /\ \A s \in Requests :
            Knows(s, t) /\ Has(request[s], {"token"}) => Fits(request[r], request[s].token)

-----------------------------------------------------------------------------
PasswordResets == [user : UserIds, named : Addresses, mailbox : Addresses, found : Addresses, has : Addresses]

HistoriesOK ==
  /\ signIns \subseteq [user : UserIds, shown : SUBSET {"google", "password", "code"}, asked : BOOLEAN]
  /\ SignInsProved
  /\ resets \subseteq PasswordResets
  /\ MailboxSetsPassword

TimesOK == scenario \in Scenarios /\ now \in 0..scenario.periods /\ faults \in 0..scenario.faults

IInv == /\ TimesOK
        /\ UsersOK
        /\ CallersOK
        /\ CopiesOK
        /\ TokensOK
        /\ RequestsOK
        /\ IssuedOK
        /\ HistoriesOK

-----------------------------------------------------------------------------
(* What a step keeps of the users, and so of what refers to them.          *)

UsersKept ==
  /\ proved \subseteq proved'
  /\ \A u \in Known :
       /\ u \in Known'
       /\ users[u].active => users'[u].active
       /\ users'[u].email = users[u].email \/ (users[u].active /\ <<u, users'[u].email>> \in proved')

LEMMA NamesItself == \A email : email \in Named(email)
BY DEF Named

LEMMA NamedAddresses ==
  ASSUME NEW email \in Addresses
  PROVE  Named(email) \subseteq Addresses
BY AccountAssumptions DEF Named

\* Who has proved an address has proved that of an account it names.
LEMMA OwnerByProof ==
  ASSUME NEW u, NEW email, NEW pairs, <<u, email>> \in pairs
  PROVE  \E p \in pairs : p[1] = u /\ email \in Named(p[2])
<1>1. PICK p : p = <<u, email>>
  OBVIOUS
<1>2. p \in pairs /\ p[1] = u /\ p[2] = email
  BY <1>1
<1> QED BY <1>2, NamesItself

LEMMA NoUserNoRow == NoUser \notin UserRows
BY AccountAssumptions DEF NoUser, UserRows

LEMMA KnownRow ==
  ASSUME UsersOK, NEW u \in Known
  PROVE  u \in UserIds /\ users[u] \in UserRows
BY DEF UsersOK, Known

LEMMA ActiveKept ==
  ASSUME UsersKept, NEW u, Active(u)
  PROVE  Active(u)'
BY DEF UsersKept, Active

LEMMA OwnerStaysKnown ==
  ASSUME UsersKept, NEW u \in Known, OwnerKnown(u)
  PROVE  OwnerKnown(u)'
<1>1. CASE users'[u].email = users[u].email
  BY <1>1 DEF UsersKept, OwnerKnown
<1>2. CASE <<u, users'[u].email>> \in proved'
  BY <1>2, OwnerByProof DEF OwnerKnown
<1> QED BY <1>1, <1>2 DEF UsersKept

LEMMA StillKept ==
  ASSUME UsersKept, NEW u \in Known, NEW email, HasStill(u, email)
  PROVE  HasStill(u, email)'
BY DEF UsersKept, HasStill

LEMMA OwnedKept ==
  ASSUME UsersKept, NEW u, NEW email, Owned(u, email)
  PROVE  Owned(u, email)'
BY DEF UsersKept, Owned

LEMMA BelongsKept ==
  ASSUME UsersKept, NEW token, NEW mailbox, Belongs(token, mailbox)
  PROVE  Belongs(token, mailbox)'
BY OwnedKept DEF Belongs

LEMMA TokenKept ==
  ASSUME UsersKept, NEW token, TokenOK(token)
  PROVE  TokenOK(token)'
<1>1. token.user \in Known'
  BY DEF UsersKept, TokenOK
<1>2. token.scope = "change_email" => Active(token.user)'
  BY ActiveKept DEF TokenOK
<1>3. token.mailbox = "none" \/ Belongs(token, token.mailbox)'
  BY BelongsKept DEF TokenOK
<1> QED BY <1>1, <1>2, <1>3 DEF TokenOK, DataOK

LEMMA FitsKept ==
  ASSUME UsersKept, NEW q, NEW token, Fits(q, token)
  PROVE  Fits(q, token)'
BY BelongsKept DEF Fits

LEMMA ReadyKept ==
  ASSUME UsersKept, NEW q, NEW at, Ready(q, at)
  PROVE  Ready(q, at)'
<1>1. /\ at \in {"send activation", "mail activation"} =>
           Has(q, {"of", "email"}) /\ Owned(q.of, q.email)'
      /\ at \in {"activate", "force reset", "answer reset"} =>
           Has(q, {"of", "email", "mailbox"}) /\ Owned(q.of, q.mailbox)' /\ q.email = q.mailbox
  BY OwnedKept DEF Ready
<1>2. at \in {"ask for code", "disable 2fa and end", "open session", "upsert account",
              "activate google", "issue reset", "store new password"} => Has(q, {"of"}) /\ q.of \in Known'
  BY DEF Ready, UsersKept
<1>3. /\ at \in {"upsert account", "activate google"} => OwnerKnown(q.of)'
      /\ at = "upsert account" => Has(q, {"active"}) /\ (q.active => users'[q.of].active)
      /\ at = "store new password" => HasStill(q.of, q.email)'
  <2>1. at \in {"upsert account", "activate google", "store new password"} => q.of \in Known
    BY DEF Ready
  <2>2. at \in {"upsert account", "activate google"} => OwnerKnown(q.of)'
    BY <2>1, OwnerStaysKnown DEF Ready
  <2>3. at = "upsert account" => Has(q, {"active"}) /\ (q.active => users'[q.of].active)
    BY <2>1 DEF Ready, UsersKept
  <2>4. at = "store new password" => HasStill(q.of, q.email)'
    BY <2>1, StillKept DEF Ready
  <2> QED BY <2>2, <2>3, <2>4
<1>4. at \in {"check code", "check recovery code", "verify codes"} =>
        Has(q, {"me"}) /\ q.me.id \in Known'
  BY DEF Ready, UsersKept
<1>5. at = "authenticate" => Active(q.form.user)'
  BY ActiveKept DEF Ready
<1>6. SignedIn(q) => SignedIn(q)'
  BY ActiveKept DEF SignedIn
<1>7. at = "store address" => Has(q, {"me", "mailbox"}) /\ Active(q.me.id)' /\ q.mailbox = q.to
  BY ActiveKept DEF Ready
<1> QED BY <1>1, <1>2, <1>3, <1>4, <1>5, <1>6, <1>7 DEF Ready, Earned, Sendable

LEMMA RequestKept ==
  ASSUME UsersKept, now' = now, NEW q, RequestOK(q)
  PROVE  RequestOK(q)'
<1>1. CASE q = Idle
  BY <1>1 DEF RequestOK
<1>2. CASE q # Idle
  <2>1. Fresh(q)'
    BY <1>2 DEF RequestOK, Fresh
  <2>2. Has(q, {"token"}) => Rewrites(q)'
    BY <1>2, TokenKept DEF RequestOK, Rewrites
  <2>3. q.at \in Relays => Leads(q)'
    <3> SUFFICES ASSUME q.at \in Relays PROVE Leads(q)'
      OBVIOUS
    <3>1. Leads(q)
      BY <1>2 DEF RequestOK, Stage
    <3>2. Ready(q, q.next)'
      BY <3>1, ReadyKept DEF Leads
    <3>3. Has(q, {"of"}) /\ q.of \in Known => q.of \in Known'
      BY DEF UsersKept
    <3> QED BY <3>1, <3>2, <3>3 DEF Leads, Has
  <2>4. q.at \notin Relays => Ready(q, q.at)'
    BY <1>2, ReadyKept DEF RequestOK, Stage
  <2> QED BY <1>2, <2>1, <2>2, <2>3, <2>4 DEF RequestOK, Stage
<1> QED BY <1>1, <1>2

-----------------------------------------------------------------------------
(* What a step of one request keeps of the others.                         *)

\* A token that may be sent wherever the other may.
SameKind(token, other) ==
  /\ token.scope = other.scope /\ token.user = other.user
  /\ token.scope \in {"forget_password", "change_email"} => token.data.email = other.data.email

LEMMA FitsKind ==
  ASSUME NEW q, NEW token, NEW other, SameKind(token, other), Fits(q, other)
  PROVE  Fits(q, token)
BY DEF SameKind, Fits, Belongs

\* Tokens may go, or change what does not say where they belong.
TokensStay ==
  \A t \in Tokens :
    tokens'[t] = NoToken \/ (tokens[t] # NoToken /\ SameKind(tokens'[t], tokens[t]))

\* A request that is about to send a token was so before.
Follows(n, q) ==
  Has(n, {"issued"}) /\ Place(n) \in Mailing =>
    Has(q, {"issued"}) /\ n.issued = q.issued /\ Place(q) = Place(n) /\ Goes(q) = Goes(n)

\* What a request writes back is what it has read.
Copies(n, q) ==
  Has(n, {"issued"}) /\ Has(n, {"token"}) =>
    \/ tokens[n.issued] # NoToken /\ SameKind(n.token, tokens[n.issued])
    \/ Has(q, {"issued", "token"}) /\ n.issued = q.issued /\ SameKind(n.token, q.token)

LEMMA OneMoves ==
  ASSUME RequestsOK, UsersKept, now' = now, NEW r \in Requests, NEW n,
         request' = [request EXCEPT ![r] = n], RequestOK(n)'
  PROVE  RequestsOK'
<1>1. DOMAIN request' = Requests /\ request'[r] = n
  BY DEF RequestsOK
<1>2. ASSUME NEW s \in Requests, s # r, NEW q, q = request'[s] PROVE RequestOK(q)'
  <2>1. q = request[s]
    BY <1>2 DEF RequestsOK
  <2> QED BY <2>1, RequestKept DEF RequestsOK
<1> QED BY <1>1, <1>2 DEF RequestsOK

\* IssuedOK after a step, for requests and tokens that are named.
LEMMA IssuedNext ==
  ASSUME \A s \in Requests : \A p, x :
           p = request'[s] /\ Has(p, {"issued"}) /\ x = p.issued =>
             /\ \A token : token = tokens'[x] /\ token # NoToken => Fits(p, token)'
             /\ \A z \in Requests : \A m, token :
                  m = request'[z] /\ Has(m, {"issued", "token"}) /\ m.issued = x /\ token = m.token =>
                    Fits(p, token)'
  PROVE  IssuedOK'
BY DEF IssuedOK, Knows, Has

LEMMA IssuedKept ==
  ASSUME RequestsOK, IssuedOK, UsersKept, NEW r \in Requests, NEW n,
         request' = [request EXCEPT ![r] = n], RequestOK(n)',
         TokensStay, Follows(n, request[r]), Copies(n, request[r])
  PROVE  IssuedOK'
<1> SUFFICES ASSUME NEW s \in Requests, NEW q, q = request'[s], Has(q, {"issued"}),
                    NEW t, t = q.issued
             PROVE  /\ \A token : token = tokens'[t] /\ token # NoToken => Fits(q, token)'
                    /\ \A x \in Requests : \A p, token :
                         p = request'[x] /\ Has(p, {"issued", "token"}) /\ p.issued = t /\ token = p.token =>
                           Fits(q, token)'
  BY IssuedNext
<1>1. CASE Place(q) \notin Mailing
  BY <1>1 DEF Fits
<1>2. CASE Place(q) \in Mailing
  <2>1. PICK p : p = request[s]
    OBVIOUS
  <2>2. /\ Has(p, {"issued"}) /\ p.issued = t
        /\ \A token : Fits(p, token) => Fits(q, token)
    BY <1>2, <2>1 DEF Follows, Fits, RequestsOK
  <2>3. t \in Tokens
    <3>1. RequestOK(p) /\ p # Idle
      BY <2>1, <2>2 DEF RequestsOK, Has, Idle
    <3> QED BY <2>2, <3>1 DEF RequestOK
  <2>4. /\ tokens[t] # NoToken => Fits(q, tokens[t])
        /\ \A x \in Requests : Knows(x, t) /\ Has(request[x], {"token"}) => Fits(q, request[x].token)
    BY <2>1, <2>2 DEF IssuedOK
  <2>5. ASSUME NEW token, token = tokens'[t], token # NoToken PROVE Fits(q, token)'
    <3>1. Fits(q, token)
      BY <2>3, <2>4, <2>5, FitsKind DEF TokensStay
    <3> QED BY <3>1, FitsKept
  <2>6. ASSUME NEW x \in Requests, NEW m, m = request'[x], Has(m, {"issued", "token"}), m.issued = t,
               NEW token, token = m.token
        PROVE  Fits(q, token)'
    <3>1. CASE x # r
      <4>1. Fits(q, token)
        BY <2>4, <2>6, <3>1 DEF Knows, RequestsOK, Has
      <4> QED BY <4>1, FitsKept
    <3>2. CASE x = r
      <4>1. m = n
        BY <2>6, <3>2 DEF RequestsOK
      <4>2. CASE tokens[t] # NoToken /\ SameKind(token, tokens[t])
        <5>1. Fits(q, token)
          BY <2>4, <4>2, FitsKind
        <5> QED BY <5>1, FitsKept
      <4>3. CASE Has(request[r], {"issued", "token"}) /\ t = request[r].issued
                 /\ SameKind(token, request[r].token)
        <5>1. Fits(q, request[r].token)
          BY <2>4, <4>3 DEF Knows, Has
        <5>2. Fits(q, token)
          BY <4>3, <5>1, FitsKind
        <5> QED BY <5>2, FitsKept
      <4> QED BY <2>6, <4>1, <4>2, <4>3 DEF Copies, Has
    <3> QED BY <3>1, <3>2
  <2> QED BY <2>5, <2>6
<1> QED BY <1>1, <1>2

-----------------------------------------------------------------------------
(* Steps, and what a request has got there.                                *)

\* What Ready says of each step.
LEMMA ReadyAt ==
  ASSUME NEW q
  PROVE  /\ Ready(q, "registerNormalUser") <=> q.form.email \in Addresses /\ q.form.password \in Passwords
         /\ Ready(q, "createVendor") <=> q.form.email \in Addresses
         /\ Ready(q, "signIn") <=> q.form.email \in Addresses
         /\ Ready(q, "googleCallbackHandler") <=>
              q.form.email \in Addresses /\ q.form.verified \in BOOLEAN /\ q.form.google \in GoogleAccounts
         /\ Ready(q, "create with google") <=>
              q.form.email \in Addresses /\ q.form.verified \in BOOLEAN /\ q.form.google \in GoogleAccounts
         /\ Ready(q, "forgetPassword") <=> q.form.email \in Addresses
         /\ Ready(q, "mail reset") <=>
              q.form.email \in Addresses /\ Has(q, {"email"}) /\ q.email \in Named(q.form.email)
         /\ \A at \in {"activateUser", "verifyLogin2FA", "verifyLogin2faRecoveryCode", "verifyEmailChange",
                       "confirmForgetPasswordToken", "verifyForgetPassword2fa",
                       "verifyForgetPasswordRecoveryCode"} : Ready(q, at) <=> q.form.token \in Tokens
         /\ Ready(q, "resetPassword") <=> q.form.token \in Tokens /\ q.form.password \in Passwords
BY DEF Ready, MakesAccount, Mailing, Steps, Public, Private, TakesToken

LEMMA ReadyInside ==
  ASSUME NEW q
  PROVE  /\ Ready(q, "done") /\ Ready(q, "answer token")
         /\ \A at \in {"send activation", "mail activation"} :
              Ready(q, at) <=> Has(q, {"of", "email"}) /\ Owned(q.of, q.email)
         /\ \A at \in {"activate", "force reset", "answer reset"} :
              Ready(q, at) <=> /\ Has(q, {"of", "email", "mailbox"})
                               /\ Owned(q.of, q.mailbox) /\ q.email = q.mailbox
         /\ \A at \in {"ask for code", "disable 2fa and end"} :
              Ready(q, at) <=> Has(q, {"of"}) /\ q.of \in Known
         /\ Ready(q, "open session") <=>
              Has(q, {"of", "shown", "asked"}) /\ q.of \in Known /\ Earned(q.shown, q.asked)
         /\ Ready(q, "activate google") <=>
              /\ Has(q, {"of", "shown", "asked"}) /\ q.of \in Known /\ Earned(q.shown, q.asked)
              /\ OwnerKnown(q.of)
         /\ Ready(q, "upsert account") <=>
              /\ Has(q, {"of", "active"}) /\ q.of \in Known /\ (q.active => users[q.of].active)
              /\ OwnerKnown(q.of) /\ q.form.google \in GoogleAccounts
         /\ Ready(q, "issue reset") <=>
              /\ Has(q, {"of", "email"}) /\ q.of \in Known
              /\ q.form.email \in Addresses /\ q.email \in Named(q.form.email)
         /\ \A at \in {"check code", "check recovery code"} :
              Ready(q, at) <=> /\ Has(q, {"me", "shown", "asked"}) /\ q.me.id \in Known
                               /\ Earned(q.shown, q.asked)
         /\ Ready(q, "verify codes") <=> Has(q, {"me"}) /\ q.me.id \in Known
         /\ Ready(q, "store new password") <=>
              /\ q.form.password \in Passwords
              /\ Has(q, {"of", "named", "email", "mailbox"}) /\ q.of \in Known /\ q.named \in Addresses
              /\ q.email \in Named(q.named) /\ q.mailbox \in Named(q.named)
              /\ HasStill(q.of, q.email)
BY DEF Ready, MakesAccount, Mailing, Steps, Public, Private, TakesToken, Has

LEMMA ReadySignedIn ==
  ASSUME NEW q
  PROVE  /\ \A at \in {"getCurrentUser", "verify2faSetup", "resetRecoveryCodes", "viewRecoveryCodes",
                       "answer settings token"} : Ready(q, at) <=> SignedIn(q)
         /\ \A at \in {"changePassword", "compare new", "change password"} :
              Ready(q, at) <=> SignedIn(q) /\ q.form.password \in Passwords
         /\ \A at \in {"verifyChangePassword2fa", "verifyEmailChange2fa"} :
              Ready(q, at) <=> SignedIn(q) /\ q.form.token \in Tokens
         /\ \A at \in {"initiateEmailChange", "look for address"} :
              Ready(q, at) <=> SignedIn(q) /\ q.form.email \in Addresses
         /\ \A at \in {"send change", "mail change"} :
              Ready(q, at) <=> SignedIn(q) /\ Has(q, {"to"}) /\ q.to \in Addresses
         /\ Ready(q, "store password") <=>
              /\ SignedIn(q) /\ Has(q, {"new", "next"}) /\ q.new \in Passwords
              /\ q.next \in {"done", "delete tokens"}
         /\ Ready(q, "store address") <=>
              /\ Has(q, {"me", "to", "mailbox"}) /\ Active(q.me.id)
              /\ q.to \in Addresses /\ q.mailbox = q.to
         /\ Ready(q, "authenticate") <=>
              /\ q.form.handler \in Private /\ Active(q.form.user) /\ Sendable(q.form)
              /\ q.form.handler \in TakesToken => q.form.token \in Tokens
BY DEF Ready, MakesAccount, Mailing, Steps, Public, Private, TakesToken, Has

-----------------------------------------------------------------------------
(* Where a request goes on to.                                             *)

\* It is at another step and has got more.
Extended(n, q, at, more) ==
  /\ DOMAIN n = DOMAIN q \cup DOMAIN more
  /\ n.at = at
  /\ \A f \in DOMAIN more : n[f] = more[f]
  /\ \A f \in DOMAIN q \ {"at"} : f \notin DOMAIN more => n[f] = q[f]

LEMMA GoTo ==
  ASSUME NEW r \in Requests, NEW at, NEW more, "at" \notin DOMAIN more,
         "at" \in DOMAIN request[r], Go(r, at, more)
  PROVE  \E n : request' = [request EXCEPT ![r] = n] /\ Extended(n, request[r], at, more)
<1>1. PICK q : q = request[r]
  OBVIOUS
<1>2. PICK p : p = [q EXCEPT !.at = at]
  OBVIOUS
<1>3. /\ DOMAIN p = DOMAIN q /\ p["at"] = at
      /\ \A f \in DOMAIN q \ {"at"} : p[f] = q[f]
  BY <1>1, <1>2
<1>4. Extended(Over(more, p), q, at, more)
  BY <1>1, <1>3 DEF Over, Extended
<1>5. request' = [request EXCEPT ![r] = Over(more, p)]
  BY <1>1, <1>2 DEF Go
<1> QED BY <1>1, <1>4, <1>5

LEMMA EndsAt ==
  ASSUME NEW r \in Requests, Ends(r)
  PROVE  request' = [request EXCEPT ![r] = Idle]
BY DEF Ends

LEMMA IdleOK ==
  /\ RequestOK(Idle)
  /\ \A q : Follows(Idle, q) /\ Copies(Idle, q)
BY DEF RequestOK, Follows, Copies, Has, Idle

LEMMA IdleOKNext == RequestOK(Idle)'
BY DEF RequestOK

LEMMA UsersSame ==
  ASSUME users' = users, proved \subseteq proved'
  PROVE  UsersKept
BY DEF UsersKept, Known

LEMMA TokensSame ==
  ASSUME tokens' = tokens
  PROVE  TokensStay
BY DEF TokensStay, SameKind

\* A request that is not about to write a token back has none.
LEMMA Plainly ==
  ASSUME NEW q, RequestOK(q), q # Idle,
         q.at \notin {"cache user", "list token", "set token", "verify codes", "disable 2fa and end"}
  PROVE  ~Has(q, {"token"})
BY DEF RequestOK, Rewrites

LEMMA GoesOn ==
  ASSUME NEW q, RequestOK(q), q # Idle, ~Has(q, {"token"}), NEW at,
         at \notin Mailing \cup {"list token", "set token", "verify codes"}, NEW more,
         DOMAIN more \cap {"at", "since", "form", "issued", "token"} = {},
         NEW n, Extended(n, q, at, more)
  PROVE  /\ Stage(n) => RequestOK(n)
         /\ Follows(n, q) /\ Copies(n, q)
<1>1. Has(n, {"at", "since", "form"}) /\ n.since = q.since /\ n.form = q.form /\ n.at = at
  BY DEF Extended, RequestOK, Fresh, Has
<1>2. /\ Has(n, {"issued"}) <=> Has(q, {"issued"})
      /\ Has(q, {"issued"}) => n.issued = q.issued
      /\ ~Has(n, {"token"})
  BY DEF Extended, Has
<1>3. Place(n) \notin Mailing
  BY <1>1 DEF Place
<1> QED BY <1>1, <1>2, <1>3 DEF RequestOK, Fresh, Follows, Copies, Has

-----------------------------------------------------------------------------
(* Steps of one request.                                                   *)

\* It moves; of the users nothing is lost.
LEMMA MoveKeeps ==
  ASSUME IInv, UNCHANGED <<now, faults, cache, tokens, scenario>>,
         UsersKept, UsersOK', HistoriesOK', NEW r \in Requests, NEW n,
         request' = [request EXCEPT ![r] = n], RequestOK(n)',
         Follows(n, request[r]), Copies(n, request[r])
  PROVE  IInv'
<1>1. RequestsOK'
  BY OneMoves DEF IInv
<1>2. IssuedOK'
  BY IssuedKept, TokensSame DEF IInv
<1>3. TokensOK'
  <2> SUFFICES ASSUME NEW t \in Tokens, NEW token, token = tokens[t], token # NoToken
               PROVE  TokenOK(token)'
    BY DEF TokensOK, IInv
  <2> QED BY TokenKept DEF TokensOK, IInv
<1>4. CallersOK'
  BY ActiveKept DEF CallersOK, IInv
<1> QED BY <1>1, <1>2, <1>3, <1>4 DEF IInv, TimesOK, CopiesOK

LEMMA ReadKeeps ==
  ASSUME IInv, Reads, UNCHANGED scenario, NEW r \in Requests, NEW n,
         request' = [request EXCEPT ![r] = n], RequestOK(n),
         Follows(n, request[r]), Copies(n, request[r])
  PROVE  IInv'
<1>1. UsersKept /\ now' = now
  BY UsersSame DEF Reads, history
<1>2. RequestOK(n)'
  BY <1>1, RequestKept
<1>3. UsersOK' /\ HistoriesOK'
  BY DEF IInv, Reads, history, UsersOK, AddressesDistinct, AddressesProved, OwnerKnown, Known, HistoriesOK,
         SignInsProved, MailboxSetsPassword
<1> QED BY <1>1, <1>2, <1>3, MoveKeeps DEF Reads

LEMMA EndKeeps ==
  ASSUME IInv, Reads, UNCHANGED scenario, NEW r \in Requests, Ends(r)
  PROVE  IInv'
BY EndsAt, IdleOK, ReadKeeps

LEMMA GoKeeps ==
  ASSUME IInv, Reads, UNCHANGED scenario, NEW r \in Requests, NEW q, q = request[r],
         q # Idle, ~Has(q, {"token"}), NEW at,
         at \notin Mailing \cup {"list token", "set token", "verify codes"}, NEW more,
         DOMAIN more \cap {"at", "since", "form", "issued", "token"} = {},
         Go(r, at, more), \A n : Extended(n, q, at, more) => Stage(n)
  PROVE  IInv'
<1>1. RequestOK(q) /\ "at" \in DOMAIN q
  BY DEF IInv, RequestsOK, RequestOK, Fresh, Has
<1>2. PICK n : request' = [request EXCEPT ![r] = n] /\ Extended(n, q, at, more)
  BY <1>1, GoTo
<1> QED BY <1>1, <1>2, GoesOn, ReadKeeps

\* What a handler finds that is at a step.
LEMMA AtStep ==
  ASSUME IInv, NEW r \in Requests, NEW q, q = request[r], q.at # "idle"
  PROVE  /\ q # Idle /\ RequestOK(q) /\ Stage(q) /\ Fresh(q)
         /\ q.at \notin Relays => Ready(q, q.at)
         /\ q.at \in Relays => Leads(q)
<1>1. q # Idle /\ RequestOK(q)
  BY DEF IInv, RequestsOK, Idle
<1>2. Stage(q) /\ Fresh(q)
  BY <1>1 DEF RequestOK
<1>3. CASE q.at \in Relays
  BY <1>1, <1>2, <1>3 DEF Stage
<1>4. CASE q.at \notin Relays
  BY <1>1, <1>2, <1>4 DEF Stage
<1> QED BY <1>3, <1>4

LEMMA TokenFacts ==
  ASSUME IInv, NEW t \in Tokens, NEW scope \in Scopes, Presents(t, scope)
  PROVE  /\ tokens[t] # NoToken /\ TokenOK(tokens[t]) /\ tokens[t].scope = scope
         /\ Belongs(tokens[t], tokens[t].mailbox)
BY DEF IInv, TokensOK, Presents, TokenOK, NoToken, Scopes

-----------------------------------------------------------------------------
(* Reading an account.                                                     *)

LEMMA Bounds ==
  ASSUME IInv
  PROVE  scenario.periods \in Nat /\ scenario.faults \in Nat /\ now \in Nat /\ faults \in Nat
<1>1. scenario \in Scenarios /\ now \in 0..scenario.periods /\ faults \in 0..scenario.faults
  BY DEF IInv, TimesOK
<1>2. scenario.periods \in Nat /\ scenario.faults \in Nat
  BY <1>1, ScenarioAssumption
<1> QED BY <1>1, <1>2

\* Somebody is read: his copy waits to be set.
Waits(n, u, at) ==
  /\ n.at = "cache user" /\ Has(n, {"next", "of", "copy"}) /\ n.next = at /\ n.of = u
  /\ n.copy = [email |-> n.copy.email, read |-> now]
  /\ n.copy.email \in Addresses

LEMMA UpTo ==
  ASSUME NEW m \in Nat, NEW k \in Nat, m <= k
  PROVE  k \in m..k
OBVIOUS

LEMMA WaitingLeads ==
  ASSUME IInv, NEW u \in Known, NEW at, at \notin Mailing, NEW n, Waits(n, u, at), Fresh(n),
         Ready(n, at), at = "verify codes" => Has(n, {"token"})
  PROVE  Stage(n)
<1>1. now \in Nat
  BY Bounds
<1>2. n.copy.read = now /\ n.copy.read \in n.since..now
  <2>1. PICK copy, email : copy = n.copy /\ email = copy.email
    OBVIOUS
  <2>2. copy = [email |-> email, read |-> now]
    BY <2>1 DEF Waits
  <2>3. copy.read = now
    BY <2>2
  <2>4. now \in n.since..now
    BY <1>1, UpTo DEF Fresh
  <2> QED BY <2>1, <2>3, <2>4
<1>3. n.copy = [email |-> n.copy.email, read |-> n.copy.read]
  BY <1>2 DEF Waits
<1>4. Leads(n)
  BY <1>2, <1>3 DEF Leads, Waits, Has
<1> QED BY <1>4 DEF Stage, Relays, Waits

LEMMA EmailType ==
  ASSUME IInv, NEW u \in Known
  PROVE  users[u].email \in Addresses
BY KnownRow DEF IInv, UserRows

LEMMA FetchWaits ==
  ASSUME IInv, NEW q, NEW u \in Known, NEW at, NEW more,
         DOMAIN more \cap {"at", "since", "form", "copy", "of", "next"} = {}, NEW n,
         Extended(n, q, "cache user",
           Over([copy |-> [email |-> users[u].email, read |-> now], of |-> u, next |-> at], more))
  PROVE  /\ Waits(n, u, at)
         /\ Extended(n, q, "cache user", Over([copy |-> n.copy, of |-> u, next |-> at], more))
<1>1. PICK copy : copy = [email |-> users[u].email, read |-> now]
  OBVIOUS
<1>2. PICK all : all = Over([copy |-> copy, of |-> u, next |-> at], more)
  OBVIOUS
<1>3. /\ {"copy", "of", "next"} \subseteq DOMAIN all
      /\ all["copy"] = copy /\ all["of"] = u /\ all["next"] = at
  BY <1>2 DEF Over
<1>4. n.at = "cache user" /\ Has(n, {"next", "of", "copy"}) /\ n.next = at /\ n.of = u /\ n.copy = copy
  BY <1>1, <1>2, <1>3 DEF Extended, Has
<1>5. copy.email \in Addresses /\ copy = [email |-> copy.email, read |-> now]
  BY <1>1, EmailType
<1> QED BY <1>1, <1>4, <1>5 DEF Waits

\* What getUser has found, where it finds it.
Found(n, q, u, at, more) ==
  /\ Has(n, {"at", "since", "form", "me"}) /\ n.since = q.since /\ n.form = q.form
  /\ n.me.id = u /\ n.me.email \in Addresses
  /\ \A f \in DOMAIN more : f \in DOMAIN n /\ n[f] = more[f]
  /\ \A f \in {"issued", "token"} \ DOMAIN more :
       /\ f \in DOMAIN n <=> f \in DOMAIN q
       /\ f \in DOMAIN q => n[f] = q[f]
  /\ n.at = at \/ Waits(n, u, at)

LEMMA GetUserFinds ==
  ASSUME IInv, NEW r \in Requests, NEW q, q = request[r], Has(q, {"at", "since", "form"}),
         NEW u \in Known, NEW at, NEW more,
         DOMAIN more \cap {"at", "since", "form", "me", "copy", "of", "next"} = {},
         getUser(r, u, at, more)
  PROVE  \E n : request' = [request EXCEPT ![r] = n] /\ Found(n, q, u, at, more)
<1>1. CASE Cached(u)
  <2>1. PICK me : me = FromCache(u)
    OBVIOUS
  <2>2. me.id = u /\ me.email \in Addresses
    <3>1. cache[u] # NoCopy
      BY <1>1 DEF Cached, NoCopy, IInv, TimesOK
    <3> QED BY <2>1, <3>1 DEF FromCache, IInv, CopiesOK, Known
  <2>3. PICK all : all = Over([me |-> me], more)
    OBVIOUS
  <2>4. /\ DOMAIN all = {"me"} \cup DOMAIN more /\ all["me"] = me
        /\ \A f \in DOMAIN more : all[f] = more[f]
    BY <2>3 DEF Over
  <2>5. Go(r, at, all)
    BY <1>1, <2>1, <2>3 DEF getUser
  <2>6. PICK n : request' = [request EXCEPT ![r] = n] /\ Extended(n, q, at, all)
    BY <2>4, <2>5, GoTo DEF Has
  <2>7. Found(n, q, u, at, more)
    BY <2>2, <2>4, <2>6 DEF Found, Extended, Has
  <2> QED BY <2>6, <2>7
<1>2. CASE ~Cached(u)
  <2>1. PICK me : me = FromTable(u)
    OBVIOUS
  <2>2. me.id = u /\ me.email \in Addresses
    BY <2>1, EmailType DEF FromTable
  <2>3. PICK some : some = Over([me |-> me], more)
    OBVIOUS
  <2>4. /\ DOMAIN some = {"me"} \cup DOMAIN more /\ some["me"] = me
        /\ \A f \in DOMAIN more : some[f] = more[f]
    BY <2>3 DEF Over
  <2>5. Fetch(r, u, at, some)
    BY <1>2, <2>1, <2>3 DEF getUser
  <2>6. PICK all : all = Over([copy |-> [email |-> users[u].email, read |-> now], of |-> u, next |-> at], some)
    OBVIOUS
  <2>7. /\ DOMAIN all = {"copy", "of", "next"} \cup DOMAIN some
        /\ \A f \in DOMAIN some : all[f] = some[f]
    <3>1. \A f \in DOMAIN some : f \notin {"copy", "of", "next"}
      BY <2>4
    <3> QED BY <2>6, <3>1 DEF Over
  <2>8. PICK n : request' = [request EXCEPT ![r] = n] /\ Extended(n, q, "cache user", all)
    <3>1. "at" \notin DOMAIN all
      BY <2>4, <2>7
    <3> QED BY <2>5, <2>6, <3>1, GoTo DEF Fetch, Has
  <2>9. Waits(n, u, at)
    <3>1. DOMAIN some \cap {"at", "since", "form", "copy", "of", "next"} = {}
      BY <2>4
    <3> QED BY <2>6, <2>8, <3>1, FetchWaits
  <2>10. Found(n, q, u, at, more)
    BY <2>2, <2>4, <2>7, <2>8, <2>9 DEF Found, Extended, Has
  <2> QED BY <2>8, <2>10
<1> QED BY <1>1, <1>2

-----------------------------------------------------------------------------
(* Steps that change nothing but the request.                              *)

LEMMA ReadyStage ==
  ASSUME NEW n, n.at \notin Relays, Ready(n, n.at)
  PROVE  Stage(n)
BY DEF Stage

LEMMA ActivateUserKeeps ==
  ASSUME IInv, UNCHANGED scenario, NEW r \in Requests, ActivateUser(r)
  PROVE  IInv'
<1>1. PICK q : q = request[r]
  OBVIOUS
<1>2. PICK t : t = q.form.token
  OBVIOUS
<1>3. q.at = "activateUser" /\ Reads
  BY <1>1 DEF ActivateUser, At
<1>4. q # Idle /\ RequestOK(q) /\ Ready(q, "activateUser") /\ ~Has(q, {"token"})
  BY <1>1, <1>3, AtStep, Plainly DEF Relays
<1>5. t \in Tokens
  BY <1>2, <1>4, ReadyAt
<1>6. CASE Ends(r)
  BY <1>3, <1>6, EndKeeps
<1>7. CASE Presents(t, "activation") /\ ~users[tokens[t].user].active
           /\ Go(r, "activate", [of |-> tokens[t].user, email |-> users[tokens[t].user].email,
                                 mailbox |-> tokens[t].mailbox])
  <2>1. Owned(tokens[t].user, tokens[t].mailbox)
    BY <1>5, <1>7, TokenFacts DEF Belongs, Scopes
  <2>2. PICK u, mailbox : u = tokens[t].user /\ mailbox = tokens[t].mailbox
    OBVIOUS
  <2>3. users[u].email = mailbox
    BY <1>7, <2>1, <2>2 DEF Owned
  <2>4. ASSUME NEW n, Extended(n, q, "activate", [of |-> u, email |-> mailbox, mailbox |-> mailbox])
        PROVE  Stage(n)
    <3>1. n.at = "activate" /\ Has(n, {"of", "email", "mailbox"}) /\ n.of = u /\ n.email = mailbox
          /\ n.mailbox = mailbox
      BY <2>4 DEF Extended, Has
    <3> QED BY <2>1, <2>2, <3>1, ReadyInside, ReadyStage DEF Relays
  <2> QED BY <1>1, <1>3, <1>4, <1>7, <2>2, <2>3, <2>4, GoKeeps DEF Mailing
<1> QED BY <1>1, <1>2, <1>6, <1>7 DEF ActivateUser, Form

LEMMA SignInUserKeeps ==
  ASSUME IInv, UNCHANGED scenario, NEW r \in Requests, SignInUser(r)
  PROVE  IInv'
<1>1. PICK q : q = request[r]
  OBVIOUS
<1>2. q.at = "signIn" /\ Reads
  BY <1>1 DEF SignInUser, At
<1>3. q # Idle /\ ~Has(q, {"token"})
  BY <1>1, <1>2, AtStep, Plainly
<1>4. CASE Ends(r)
  BY <1>2, <1>4, EndKeeps
<1>5. ASSUME NEW u \in Known, Go(r, "send activation", [of |-> u, email |-> users[u].email])
      PROVE  IInv'
  <2>1. Owned(u, users[u].email)
    BY EmailType DEF Owned
  <2>2. PICK email : email = users[u].email
    OBVIOUS
  <2>3. ASSUME NEW n, Extended(n, q, "send activation", [of |-> u, email |-> email])
        PROVE  Stage(n)
    <3>1. n.at = "send activation" /\ Has(n, {"of", "email"}) /\ n.of = u /\ n.email = email
      BY <2>3 DEF Extended, Has
    <3> QED BY <2>1, <2>2, <3>1, ReadyInside, ReadyStage DEF Relays
  <2> QED BY <1>1, <1>2, <1>3, <1>5, <2>2, <2>3, GoKeeps DEF Mailing
<1>6. ASSUME NEW u \in Known, NEW at \in {"ask for code", "open session"}, NEW asked \in BOOLEAN,
             asked = users[u].twoFactor, at = IF asked THEN "ask for code" ELSE "open session",
             Go(r, at, [of |-> u, shown |-> {"password"}, asked |-> asked])
      PROVE  IInv'
  <2>1. ASSUME NEW n, Extended(n, q, at, [of |-> u, shown |-> {"password"}, asked |-> asked])
        PROVE  Stage(n)
    <3>1. /\ n.at = at /\ Has(n, {"of", "shown", "asked"})
          /\ n.of = u /\ n.shown = {"password"} /\ n.asked = asked
      BY <2>1 DEF Extended, Has
    <3>2. at = "open session" => Earned(n.shown, n.asked)
      BY <1>6, <3>1 DEF Earned
    <3> QED BY <3>1, <3>2, ReadyInside, ReadyStage DEF Relays, Has
  <2> QED BY <1>1, <1>2, <1>3, <1>6, <2>1, GoKeeps DEF Mailing
<1>7. CASE \E u \in GetByEmail(q.form.email) :
          CASE users[u].password = "none" \/ users[u].password # q.form.password -> Ends(r)
            [] ~users[u].active -> NotActivated(r, u)
            [] OTHER -> Go(r, IF AsksForCode(u) THEN "ask for code" ELSE "open session",
                           [of |-> u, shown |-> {"password"}, asked |-> users[u].twoFactor])
  <2>1. PICK u \in Known :
          \/ Ends(r)
          \/ NotActivated(r, u)
          \/ Go(r, IF AsksForCode(u) THEN "ask for code" ELSE "open session",
                [of |-> u, shown |-> {"password"}, asked |-> users[u].twoFactor])
    BY <1>7 DEF GetByEmail
  <2>2. users[u].twoFactor \in BOOLEAN
    BY KnownRow DEF IInv, UserRows
  <2> QED BY <1>4, <1>5, <1>6, <2>1, <2>2 DEF NotActivated, AsksForCode
<1> QED BY <1>1, <1>4, <1>7 DEF SignInUser, Form

LEMMA CheckCodeKeeps ==
  ASSUME IInv, UNCHANGED scenario, NEW r \in Requests, CheckCode(r)
  PROVE  IInv'
<1>1. PICK q : q = request[r]
  OBVIOUS
<1>2. q.at \in {"check code", "check recovery code"} /\ Reads
  BY <1>1 DEF CheckCode, At
<1>3. q # Idle /\ RequestOK(q) /\ Ready(q, q.at) /\ ~Has(q, {"token"})
  BY <1>1, <1>2, AtStep, Plainly DEF Relays
<1>4. Has(q, {"me", "shown", "asked"}) /\ q.me.id \in Known /\ Earned(q.shown, q.asked)
  BY <1>2, <1>3, ReadyInside
<1>5. PICK u : u = q.me.id
  OBVIOUS
<1>6. CASE Ends(r)
  BY <1>2, <1>6, EndKeeps
<1>7. ASSUME NEW at \in {"delete tokens", "disable 2fa"},
             Go(r, at, [of |-> u, scope |-> "login_2fa", next |-> "open session"])
      PROVE  IInv'
  <2>1. ASSUME NEW n, Extended(n, q, at, [of |-> u, scope |-> "login_2fa", next |-> "open session"])
        PROVE  Stage(n)
    <3>1. /\ n.at = at /\ Has(n, {"of", "scope", "next", "shown", "asked"})
          /\ n.of = u /\ n.scope = "login_2fa" /\ n.next = "open session"
          /\ n.shown = q.shown /\ n.asked = q.asked
      BY <1>4, <2>1 DEF Extended, Has
    <3>2. Ready(n, "open session")
      BY <1>4, <1>5, <3>1, ReadyInside DEF Has
    <3>3. Leads(n)
      BY <1>4, <1>5, <3>1, <3>2 DEF Leads, Has, Scopes, Mailing
    <3> QED BY <3>1, <3>3 DEF Stage, Relays
  <2> QED BY <1>1, <1>2, <1>3, <1>7, <2>1, GoKeeps DEF Mailing
<1> QED BY <1>1, <1>5, <1>6, <1>7 DEF CheckCode

LEMMA NoMore == DOMAIN <<>> = {}
OBVIOUS

LEMMA FindKeeps ==
  ASSUME IInv, Reads, UNCHANGED scenario, NEW r \in Requests, NEW q, q = request[r],
         q # Idle, ~Has(q, {"token"}), NEW u \in Known,
         NEW at, at \notin Mailing \cup Relays \cup {"verify codes"}, NEW more,
         DOMAIN more \cap {"at", "since", "form", "me", "copy", "of", "next", "issued", "token"} = {},
         getUser(r, u, at, more), \A n : Found(n, q, u, at, more) => Ready(n, at)
  PROVE  IInv'
<1>1. RequestOK(q) /\ Fresh(q)
  BY DEF IInv, RequestsOK, RequestOK
<1>2. PICK n : request' = [request EXCEPT ![r] = n] /\ Found(n, q, u, at, more)
  <2>1. DOMAIN more \cap {"at", "since", "form", "me", "copy", "of", "next"} = {}
    OBVIOUS
  <2>2. Has(q, {"at", "since", "form"})
    BY <1>1 DEF Fresh
  <2> QED BY <2>1, <2>2, GetUserFinds
<1>3. Ready(n, at) /\ Fresh(n)
  <2>1. Ready(n, at)
    BY <1>2
  <2>2. Fresh(n)
    BY <1>1, <1>2 DEF Found, Fresh, Has
  <2> QED BY <2>1, <2>2
<1>4. Stage(n)
  <2>1. CASE n.at = at
    BY <1>3, <2>1, ReadyStage
  <2>2. CASE Waits(n, u, at)
    BY <1>3, <2>2, WaitingLeads
  <2> QED BY <1>2, <2>1, <2>2 DEF Found
<1>5. /\ Has(n, {"issued"}) <=> Has(q, {"issued"})
      /\ Has(q, {"issued"}) => n.issued = q.issued
      /\ ~Has(n, {"token"})
  BY <1>2 DEF Found, Has
<1>6. n.at \notin Mailing \cup {"list token", "verify codes"}
  BY <1>2 DEF Found, Waits, Mailing, Relays
<1>7. RequestOK(n)
  BY <1>1, <1>3, <1>4, <1>5, <1>6 DEF RequestOK, Idle, Fresh, Has
<1>8. Follows(n, q) /\ Copies(n, q)
  BY <1>5, <1>6 DEF Follows, Copies, Place, Has
<1> QED BY <1>2, <1>7, <1>8, ReadKeeps

LEMMA VerifyLogin2FAKeeps ==
  ASSUME IInv, UNCHANGED scenario, NEW r \in Requests, VerifyLogin2FA(r)
  PROVE  IInv'
<1>1. PICK q : q = request[r]
  OBVIOUS
<1>2. PICK t : t = q.form.token
  OBVIOUS
<1>3. q.at \in {"verifyLogin2FA", "verifyLogin2faRecoveryCode"} /\ Reads
  BY <1>1 DEF VerifyLogin2FA, At
<1>4. q # Idle /\ RequestOK(q) /\ Ready(q, q.at) /\ ~Has(q, {"token"})
  BY <1>1, <1>3, AtStep, Plainly DEF Relays
<1>5. t \in Tokens
  BY <1>2, <1>3, <1>4, ReadyAt
<1>6. CASE Ends(r)
  BY <1>3, <1>6, EndKeeps
<1>7. ASSUME Presents(t, "login_2fa"), NEW at \in {"check code", "check recovery code"},
             getUser(r, tokens[t].user, at, [shown |-> {tokens[t].mailbox, "code"}, asked |-> TRUE])
      PROVE  IInv'
  <2>1. tokens[t].user \in Known /\ tokens[t].mailbox = "password"
    BY <1>5, <1>7, TokenFacts DEF TokenOK, Belongs, Scopes
  <2>2. PICK u : u = tokens[t].user
    OBVIOUS
  <2>3. ASSUME NEW n, Found(n, q, u, at, [shown |-> {"password", "code"}, asked |-> TRUE])
        PROVE  Ready(n, at)
    <3>1. /\ Has(n, {"me", "shown", "asked"}) /\ n.me.id = u
          /\ n.shown = {"password", "code"} /\ n.asked = TRUE
      BY <2>3 DEF Found, Has
    <3>2. Earned(n.shown, n.asked)
      BY <3>1 DEF Earned
    <3> QED BY <2>1, <2>2, <3>1, <3>2, ReadyInside
  <2> QED BY <1>1, <1>3, <1>4, <1>7, <2>1, <2>2, <2>3, FindKeeps DEF Mailing, Relays
<1>8. PICK at \in {"check code", "check recovery code"} :
        at = IF At(r, "verifyLogin2FA") THEN "check code" ELSE "check recovery code"
  OBVIOUS
<1> QED BY <1>1, <1>2, <1>6, <1>7, <1>8 DEF VerifyLogin2FA, Form

LEMMA AuthMiddlewareKeeps ==
  ASSUME IInv, UNCHANGED scenario, NEW r \in Requests, AuthMiddleware(r)
  PROVE  IInv'
<1>1. PICK q : q = request[r]
  OBVIOUS
<1>2. q.at = "authenticate" /\ Reads
  BY <1>1 DEF AuthMiddleware, At
<1>3. q # Idle /\ RequestOK(q) /\ Ready(q, "authenticate") /\ ~Has(q, {"token"})
  BY <1>1, <1>2, AtStep, Plainly DEF Relays
<1>4. PICK u, at : u = q.form.user /\ at = q.form.handler
  OBVIOUS
<1>5. /\ at \in Private /\ Active(u) /\ Sendable(q.form)
      /\ at \in TakesToken => q.form.token \in Tokens
  BY <1>3, <1>4, ReadySignedIn
<1>6. getUser(r, u, at, <<>>)
  BY <1>1, <1>4 DEF AuthMiddleware, Form
<1>7. ASSUME NEW n, Found(n, q, u, at, <<>>)
      PROVE  Ready(n, at)
  <2>1. SignedIn(n) /\ n.form = q.form
    BY <1>5, <1>7 DEF Found, SignedIn, Has, Active
  <2> QED BY <1>4, <1>5, <2>1, ReadySignedIn DEF Private, TakesToken, Sendable
<1>8. u \in Known /\ at \notin Mailing \cup Relays \cup {"verify codes"}
  BY <1>5 DEF Mailing, Relays, Active, Private
<1>9. DOMAIN <<>> \cap {"at", "since", "form", "me", "copy", "of", "next", "issued", "token"} = {}
  OBVIOUS
<1> QED BY <1>1, <1>2, <1>3, <1>6, <1>7, <1>8, <1>9, FindKeeps

LEMMA VerifyEmailChangeKeeps ==
  ASSUME IInv, UNCHANGED scenario, NEW r \in Requests, VerifyEmailChange(r)
  PROVE  IInv'
<1>1. PICK q : q = request[r]
  OBVIOUS
<1>2. PICK t : t = q.form.token
  OBVIOUS
<1>3. q.at = "verifyEmailChange" /\ Reads
  BY <1>1 DEF VerifyEmailChange, At
<1>4. q # Idle /\ RequestOK(q) /\ Ready(q, q.at) /\ ~Has(q, {"token"})
  BY <1>1, <1>3, AtStep, Plainly DEF Relays
<1>5. t \in Tokens
  BY <1>2, <1>3, <1>4, ReadyAt
<1>6. CASE Ends(r)
  BY <1>3, <1>6, EndKeeps
<1>7. CASE Presents(t, "change_email")
           /\ getUser(r, tokens[t].user, "store address", [to |-> Data(t).email, mailbox |-> tokens[t].mailbox])
  <2>1. PICK u, to : u = tokens[t].user /\ to = tokens[t].data.email
    OBVIOUS
  <2>2. u \in Known /\ Active(u) /\ to \in Addresses /\ tokens[t].mailbox = to
    BY <1>5, <1>7, <2>1, TokenFacts DEF TokenOK, DataOK, Belongs, Scopes
  <2>3. getUser(r, u, "store address", [to |-> to, mailbox |-> to])
    BY <1>7, <2>1, <2>2 DEF Data
  <2>4. ASSUME NEW n, Found(n, q, u, "store address", [to |-> to, mailbox |-> to])
        PROVE  Ready(n, "store address")
    <3>1. Has(n, {"me", "to", "mailbox"}) /\ n.me.id = u /\ n.to = to /\ n.mailbox = to
      BY <2>4 DEF Found, Has
    <3> QED BY <2>2, <3>1, ReadySignedIn
  <2> QED BY <1>1, <1>3, <1>4, <2>2, <2>3, <2>4, FindKeeps DEF Mailing, Relays
<1> QED BY <1>1, <1>2, <1>6, <1>7 DEF VerifyEmailChange, Form

-----------------------------------------------------------------------------
(* Tokens that are read to be written back.                                *)

LEMMA DataRecord ==
  ASSUME NEW scope, scope = "forget_password", NEW data, DataOK(scope, data), NEW field,
         field \in {[data EXCEPT !.confirmed = TRUE], [data EXCEPT !.verified = TRUE]}
  PROVE  DataOK(scope, field) /\ field.email = data.email
<1>1. Has(data, {"email", "confirmed", "needs2fa", "verified"}) /\ data.email \in Addresses
  BY DEF DataOK
<1>2. CASE field = [data EXCEPT !.confirmed = TRUE]
  <2>1. DOMAIN field = DOMAIN data /\ field.email = data.email
    BY <1>1, <1>2 DEF Has
  <2> QED BY <1>1, <2>1 DEF DataOK, Has
<1>3. CASE field = [data EXCEPT !.verified = TRUE]
  <2>1. DOMAIN field = DOMAIN data /\ field.email = data.email
    BY <1>1, <1>3 DEF Has
  <2> QED BY <1>1, <2>1 DEF DataOK, Has
<1> QED BY <1>2, <1>3

\* A token with other data for the same address.
LEMMA TokenWith ==
  ASSUME NEW token, TokenOK(token), token.scope = "forget_password", NEW data,
         DataOK(token.scope, data), data.email = token.data.email
  PROVE  /\ TokenOK([token EXCEPT !.data = data])
         /\ SameKind([token EXCEPT !.data = data], token)
<1>1. PICK scope, user, old, listed, mailbox :
        token = [scope |-> scope, user |-> user, data |-> old, listed |-> listed, mailbox |-> mailbox]
  BY DEF TokenOK
<1>2. [token EXCEPT !.data = data] =
        [scope |-> scope, user |-> user, data |-> data, listed |-> listed, mailbox |-> mailbox]
  BY <1>1
<1>3. PICK new : new = [scope |-> scope, user |-> user, data |-> data, listed |-> listed, mailbox |-> mailbox]
  OBVIOUS
<1>4. /\ token.scope = scope /\ token.user = user /\ token.data = old /\ token.listed = listed
      /\ token.mailbox = mailbox
      /\ new.scope = scope /\ new.user = user /\ new.data = data /\ new.listed = listed
      /\ new.mailbox = mailbox
  BY <1>1, <1>3
<1>5. TokenOK(new) /\ SameKind(new, token)
  BY <1>3, <1>4 DEF TokenOK, SameKind, Belongs
<1> QED BY <1>2, <1>3, <1>5

LEMMA RewriteKeeps ==
  ASSUME IInv, Reads, UNCHANGED scenario, NEW r \in Requests, NEW q, q = request[r],
         q # Idle, ~Has(q, {"token"}), NEW t \in Tokens, Presents(t, "forget_password"), NEW data,
         data \in {[tokens[t].data EXCEPT !.confirmed = TRUE], [tokens[t].data EXCEPT !.verified = TRUE]},
         Rewrite(r, t, data, "done")
  PROVE  IInv'
<1>1. RequestOK(q) /\ Fresh(q)
  BY DEF IInv, RequestsOK, RequestOK
<1>2. PICK old : old = tokens[t]
  OBVIOUS
<1>3. old # NoToken /\ TokenOK(old) /\ old.scope = "forget_password"
  BY <1>2, TokenFacts DEF Scopes
<1>4. DataOK(old.scope, data) /\ data.email = old.data.email
  <2>1. DataOK(old.scope, old.data)
    BY <1>3 DEF TokenOK
  <2> QED BY <1>2, <1>3, <2>1, DataRecord
<1>5. PICK token : token = [old EXCEPT !.data = data]
  OBVIOUS
<1>6. TokenOK(token) /\ SameKind(token, old)
  BY <1>3, <1>4, <1>5, TokenWith
<1>7. PICK n : /\ request' = [request EXCEPT ![r] = n]
               /\ Extended(n, q, "set token", [issued |-> t, token |-> token, next |-> "done"])
  BY <1>1, <1>2, <1>5, GoTo DEF Rewrite, Fresh, Has
<1>8. /\ n.at = "set token" /\ n.since = q.since /\ n.form = q.form
      /\ Has(n, {"at", "since", "form", "issued", "token", "next"})
      /\ n.issued = t /\ n.token = token /\ n.next = "done"
  BY <1>1, <1>7 DEF Extended, Fresh, Has
<1>9. Stage(n)
  <2>1. Ready(n, n.next)
    BY <1>8, ReadyInside
  <2>2. Leads(n)
    BY <1>8, <2>1 DEF Leads, Mailing, Has
  <2> QED BY <1>8, <2>2 DEF Stage, Relays
<1>10. RequestOK(n)
  BY <1>1, <1>3, <1>6, <1>8, <1>9 DEF RequestOK, Rewrites, SameKind, Fresh, Has, Mailing
<1>11. Follows(n, q) /\ Copies(n, q)
  BY <1>2, <1>3, <1>6, <1>8 DEF Follows, Copies, Place, Mailing
<1> QED BY <1>7, <1>10, <1>11, ReadKeeps

LEMMA ConfirmForgetPasswordTokenKeeps ==
  ASSUME IInv, UNCHANGED scenario, NEW r \in Requests,
         ConfirmForgetPasswordToken(r) \/ VerifyForgetPassword2fa(r)
  PROVE  IInv'
<1>1. PICK q : q = request[r]
  OBVIOUS
<1>2. PICK t : t = q.form.token
  OBVIOUS
<1>3. q.at \in {"confirmForgetPasswordToken", "verifyForgetPassword2fa"} /\ Reads
  BY <1>1 DEF ConfirmForgetPasswordToken, VerifyForgetPassword2fa, At
<1>4. q # Idle /\ RequestOK(q) /\ Ready(q, q.at) /\ ~Has(q, {"token"})
  BY <1>1, <1>3, AtStep, Plainly DEF Relays
<1>5. t \in Tokens
  BY <1>2, <1>3, <1>4, ReadyAt
<1>6. CASE Ends(r)
  BY <1>3, <1>6, EndKeeps
<1>7. ASSUME Presents(t, "forget_password"), NEW data,
             data \in {[tokens[t].data EXCEPT !.confirmed = TRUE], [tokens[t].data EXCEPT !.verified = TRUE]},
             Rewrite(r, t, data, "done")
      PROVE  IInv'
  BY <1>1, <1>3, <1>4, <1>5, <1>7, RewriteKeeps
<1> QED BY <1>1, <1>2, <1>6, <1>7
        DEF ConfirmForgetPasswordToken, VerifyForgetPassword2fa, AwaitsCode, Data, Form

\* The codes of the account are read first.
LEMMA VerifyForgetPasswordRecoveryCodeKeeps ==
  ASSUME IInv, UNCHANGED scenario, NEW r \in Requests, VerifyForgetPasswordRecoveryCode(r)
  PROVE  IInv'
<1>1. PICK q : q = request[r]
  OBVIOUS
<1>2. PICK t : t = q.form.token
  OBVIOUS
<1>3. q.at = "verifyForgetPasswordRecoveryCode" /\ Reads
  BY <1>1 DEF VerifyForgetPasswordRecoveryCode, At
<1>4. q # Idle /\ RequestOK(q) /\ Fresh(q) /\ Ready(q, q.at)
  BY <1>1, <1>3, AtStep DEF Relays
<1>5. t \in Tokens
  BY <1>2, <1>3, <1>4, ReadyAt
<1>6. CASE Ends(r)
  BY <1>3, <1>6, EndKeeps
<1>7. CASE Presents(t, "forget_password")
           /\ getUser(r, tokens[t].user, "verify codes", [issued |-> t, token |-> tokens[t]])
  <2>1. PICK token, u : token = tokens[t] /\ u = token.user
    OBVIOUS
  <2>2. token # NoToken /\ TokenOK(token) /\ token.scope = "forget_password" /\ u \in Known
    BY <1>5, <1>7, <2>1, TokenFacts DEF Scopes, TokenOK
  <2>3. PICK n : /\ request' = [request EXCEPT ![r] = n]
                 /\ Found(n, q, u, "verify codes", [issued |-> t, token |-> token])
    <3>1. getUser(r, u, "verify codes", [issued |-> t, token |-> token])
      BY <1>7, <2>1
    <3>2. DOMAIN [issued |-> t, token |-> token]
            \cap {"at", "since", "form", "me", "copy", "of", "next"} = {}
      OBVIOUS
    <3>3. Has(q, {"at", "since", "form"})
      BY <1>4 DEF Fresh
    <3> QED BY <1>1, <2>2, <3>1, <3>2, <3>3, GetUserFinds
  <2>4. /\ Has(n, {"at", "since", "form", "me", "issued", "token"})
        /\ n.since = q.since /\ n.form = q.form /\ n.me.id = u /\ n.issued = t /\ n.token = token
        /\ n.at = "verify codes" \/ Waits(n, u, "verify codes")
    BY <2>3 DEF Found, Has
  <2>5. Ready(n, "verify codes") /\ Fresh(n)
    <3>1. Ready(n, "verify codes")
      BY <2>2, <2>4, ReadyInside DEF Has
    <3>2. Fresh(n)
      BY <1>4, <2>4 DEF Fresh, Has
    <3> QED BY <3>1, <3>2
  <2>6. Stage(n)
    <3>1. CASE n.at = "verify codes"
      BY <2>5, <3>1, ReadyStage DEF Relays
    <3>2. CASE Waits(n, u, "verify codes")
      BY <2>2, <2>4, <2>5, <3>2, WaitingLeads DEF Mailing, Has
    <3> QED BY <2>4, <3>1, <3>2
  <2>7. n.at \notin Mailing /\ Rewrites(n)
    BY <2>2, <2>4 DEF Waits, Rewrites, Mailing, Has
  <2>8. RequestOK(n)
    BY <1>5, <2>4, <2>5, <2>6, <2>7 DEF RequestOK, Has
  <2>9. Follows(n, q) /\ Copies(n, q)
    BY <2>1, <2>2, <2>4 DEF Follows, Copies, Place, Waits, Mailing, SameKind
  <2> QED BY <1>1, <1>3, <2>3, <2>8, <2>9, ReadKeeps
<1> QED BY <1>1, <1>2, <1>6, <1>7 DEF VerifyForgetPasswordRecoveryCode, AwaitsCode, Form

LEMMA VerifyCodesKeeps ==
  ASSUME IInv, UNCHANGED scenario, NEW r \in Requests, VerifyCodes(r)
  PROVE  IInv'
<1>1. PICK q : q = request[r]
  OBVIOUS
<1>2. q.at = "verify codes" /\ Reads
  BY <1>1 DEF VerifyCodes, At
<1>3. q # Idle /\ RequestOK(q) /\ Fresh(q) /\ Ready(q, q.at)
  BY <1>1, <1>2, AtStep DEF Relays
<1>4. /\ Has(q, {"at", "since", "form", "me", "issued", "token"}) /\ q.issued \in Tokens
      /\ q.me.id \in Known /\ TokenOK(q.token) /\ q.token.scope = "forget_password"
  BY <1>2, <1>3, ReadyInside DEF RequestOK, Rewrites, Fresh, Has
<1>5. CASE Ends(r)
  BY <1>2, <1>5, EndKeeps
<1>6. CASE Go(r, "set token", [of |-> q.me.id, next |-> "disable 2fa and end",
                               token |-> [q.token EXCEPT !.data.verified = TRUE]])
  <2>1. PICK old, data : old = q.token /\ data = [old.data EXCEPT !.verified = TRUE]
    OBVIOUS
  <2>2. PICK token : token = [old EXCEPT !.data = data]
    OBVIOUS
  <2>3. token = [q.token EXCEPT !.data.verified = TRUE]
    BY <2>1, <2>2
  <2>4. TokenOK(token) /\ SameKind(token, old)
    <3>1. DataOK(old.scope, old.data)
      BY <1>4, <2>1 DEF TokenOK
    <3>2. DataOK(old.scope, data) /\ data.email = old.data.email
      BY <1>4, <2>1, <3>1, DataRecord
    <3> QED BY <1>4, <2>1, <2>2, <3>2, TokenWith
  <2>5. PICK u : u = q.me.id
    OBVIOUS
  <2>6. PICK n : /\ request' = [request EXCEPT ![r] = n]
                 /\ Extended(n, q, "set token", [of |-> u, next |-> "disable 2fa and end", token |-> token])
    BY <1>1, <1>4, <1>6, <2>3, <2>5, GoTo DEF Has
  <2>7. /\ n.at = "set token" /\ n.since = q.since /\ n.form = q.form
        /\ Has(n, {"at", "since", "form", "issued", "token", "next", "of"}) /\ n.of = u
        /\ n.issued = q.issued /\ n.token = token /\ n.next = "disable 2fa and end"
    BY <1>4, <2>6 DEF Extended, Has
  <2>8. Stage(n)
    <3>1. Ready(n, n.next)
      BY <1>4, <2>5, <2>7, ReadyInside DEF Has
    <3>2. Leads(n)
      BY <2>7, <3>1 DEF Leads, Mailing, Has
    <3> QED BY <2>7, <3>2 DEF Stage, Relays
  <2>9. RequestOK(n)
    BY <1>3, <1>4, <2>1, <2>4, <2>7, <2>8 DEF RequestOK, Rewrites, SameKind, Fresh, Has, Mailing
  <2>10. Follows(n, q) /\ Copies(n, q)
    BY <1>4, <2>1, <2>4, <2>7 DEF Follows, Copies, Place, Mailing, Has
  <2> QED BY <1>1, <1>2, <2>6, <2>9, <2>10, ReadKeeps
<1> QED BY <1>1, <1>5, <1>6 DEF VerifyCodes

-----------------------------------------------------------------------------
(* Steps of somebody signed in that change nothing but his request.        *)

LEMMA AccessKeeps ==
  ASSUME IInv, Reads, UNCHANGED scenario, NEW r \in Requests, NEW q, q = request[r],
         q # Idle, ~Has(q, {"token"}), SignedIn(q), NEW at, at \notin Mailing \cup {"verify codes"},
         Fetch(r, q.me.id, at, <<>>),
         \A n : SignedIn(n) /\ n.form = q.form => Ready(n, at)
  PROVE  IInv'
<1>1. RequestOK(q) /\ Fresh(q)
  BY DEF IInv, RequestsOK, RequestOK
<1>2. PICK u : u = q.me.id
  OBVIOUS
<1>3. u \in Known /\ Has(q, {"me"})
  BY <1>2 DEF SignedIn, Active
<1>4. PICK all : all = Over([copy |-> [email |-> users[u].email, read |-> now], of |-> u, next |-> at], <<>>)
  OBVIOUS
<1>5. DOMAIN all = {"copy", "of", "next"}
  BY <1>4, NoMore DEF Over
<1>6. Go(r, "cache user", all)
  BY <1>2, <1>4 DEF Fetch
<1>7. ASSUME NEW n, Extended(n, q, "cache user", all)
      PROVE  Stage(n)
  <2>1. Waits(n, u, at)
    <3>1. DOMAIN <<>> \cap {"at", "since", "form", "copy", "of", "next"} = {}
      BY NoMore
    <3> QED BY <1>3, <1>4, <1>7, <3>1, FetchWaits
  <2>2. Has(n, {"at", "since", "form", "me"}) /\ n.since = q.since /\ n.form = q.form /\ n.me = q.me
    BY <1>1, <1>3, <1>5, <1>7 DEF Extended, Fresh, Has
  <2>3. SignedIn(n) /\ Fresh(n)
    BY <1>1, <2>2 DEF SignedIn, Fresh, Has
  <2>4. Ready(n, at)
    BY <2>2, <2>3
  <2> QED BY <1>3, <2>1, <2>3, <2>4, WaitingLeads
<1>8. DOMAIN all \cap {"at", "since", "form", "issued", "token"} = {}
  BY <1>5
<1> QED BY <1>6, <1>7, <1>8, GoKeeps DEF Mailing

LEMMA PasswordAccessKeeps ==
  ASSUME IInv, UNCHANGED scenario, NEW r \in Requests,
         ChangePassword(r) \/ InitiateEmailChange(r) \/ ViewRecoveryCodes(r)
  PROVE  IInv'
<1>1. PICK q : q = request[r]
  OBVIOUS
<1>2. q.at \in {"changePassword", "compare new", "initiateEmailChange", "viewRecoveryCodes"} /\ Reads
  BY <1>1 DEF ChangePassword, InitiateEmailChange, ViewRecoveryCodes, At
<1>3. q # Idle /\ RequestOK(q) /\ Ready(q, q.at) /\ ~Has(q, {"token"})
  BY <1>1, <1>2, AtStep, Plainly DEF Relays
<1>4. /\ SignedIn(q)
      /\ q.at \in {"changePassword", "compare new"} => q.form.password \in Passwords
      /\ q.at = "initiateEmailChange" => q.form.email \in Addresses
  BY <1>2, <1>3, ReadySignedIn
<1>5. PICK at : /\ Fetch(r, q.me.id, at, <<>>)
                /\ \/ at = "done"
                   \/ at \in {"compare new", "change password"} /\ q.at \in {"changePassword", "compare new"}
                   \/ at = "look for address" /\ q.at = "initiateEmailChange"
  BY <1>1 DEF ChangePassword, InitiateEmailChange, ViewRecoveryCodes, PasswordAccess, At
<1>6. ASSUME NEW n, SignedIn(n), n.form = q.form
      PROVE  Ready(n, at)
  BY <1>4, <1>5, <1>6, ReadyInside, ReadySignedIn
<1> QED BY <1>1, <1>2, <1>3, <1>4, <1>5, <1>6, AccessKeeps DEF Mailing

LEMMA VerifyChangePassword2faKeeps ==
  ASSUME IInv, UNCHANGED scenario, NEW r \in Requests, VerifyChangePassword2fa(r)
  PROVE  IInv'
<1>1. PICK q : q = request[r]
  OBVIOUS
<1>2. PICK t : t = q.form.token
  OBVIOUS
<1>3. q.at = "verifyChangePassword2fa" /\ Reads
  BY <1>1 DEF VerifyChangePassword2fa, At
<1>4. q # Idle /\ RequestOK(q) /\ Ready(q, q.at) /\ ~Has(q, {"token"})
  BY <1>1, <1>3, AtStep, Plainly DEF Relays
<1>5. t \in Tokens /\ SignedIn(q)
  BY <1>2, <1>3, <1>4, ReadySignedIn
<1>6. CASE Ends(r)
  BY <1>3, <1>6, EndKeeps
<1>7. CASE Presents(t, "change_password_2fa")
           /\ Go(r, "store password", [new |-> Data(t).password, next |-> "delete tokens"])
  <2>1. PICK new : new = tokens[t].data.password
    OBVIOUS
  <2>2. new \in Passwords
    BY <1>5, <1>7, <2>1, TokenFacts DEF TokenOK, DataOK, Scopes
  <2>3. ASSUME NEW n, Extended(n, q, "store password", [new |-> new, next |-> "delete tokens"])
        PROVE  Stage(n)
    <3>1. /\ n.at = "store password" /\ Has(n, {"me", "new", "next"}) /\ n.me = q.me
          /\ n.new = new /\ n.next = "delete tokens"
      BY <1>5, <2>3 DEF Extended, SignedIn, Has
    <3>2. SignedIn(n)
      BY <1>5, <3>1 DEF SignedIn, Has
    <3> QED BY <2>2, <3>1, <3>2, ReadySignedIn, ReadyStage DEF Relays, Has
  <2> QED BY <1>1, <1>3, <1>4, <1>7, <2>1, <2>3, GoKeeps DEF Mailing, Data
<1> QED BY <1>1, <1>2, <1>6, <1>7 DEF VerifyChangePassword2fa, Form

LEMMA VerifyEmailChange2faKeeps ==
  ASSUME IInv, UNCHANGED scenario, NEW r \in Requests, VerifyEmailChange2fa(r)
  PROVE  IInv'
<1>1. PICK q : q = request[r]
  OBVIOUS
<1>2. PICK t : t = q.form.token
  OBVIOUS
<1>3. q.at = "verifyEmailChange2fa" /\ Reads
  BY <1>1 DEF VerifyEmailChange2fa, At
<1>4. q # Idle /\ RequestOK(q) /\ Ready(q, q.at) /\ ~Has(q, {"token"})
  BY <1>1, <1>3, AtStep, Plainly DEF Relays
<1>5. t \in Tokens /\ SignedIn(q)
  BY <1>2, <1>3, <1>4, ReadySignedIn
<1>6. CASE Ends(r)
  BY <1>3, <1>6, EndKeeps
<1>7. CASE Presents(t, "change_email_2fa")
           /\ Go(r, "delete tokens", [of |-> q.me.id, scope |-> "change_email_2fa",
                                      to |-> Data(t).email, next |-> "send change"])
  <2>1. PICK to, u : to = tokens[t].data.email /\ u = q.me.id
    OBVIOUS
  <2>2. to \in Addresses /\ u \in Known
    BY <1>5, <1>7, <2>1, TokenFacts DEF TokenOK, DataOK, Scopes, SignedIn, Active
  <2>3. ASSUME NEW n, Extended(n, q, "delete tokens", [of |-> u, scope |-> "change_email_2fa",
                                                       to |-> to, next |-> "send change"])
        PROVE  Stage(n)
    <3>1. /\ n.at = "delete tokens" /\ Has(n, {"me", "of", "scope", "to", "next"}) /\ n.me = q.me
          /\ n.of = u /\ n.scope = "change_email_2fa" /\ n.to = to /\ n.next = "send change"
      BY <1>5, <2>3 DEF Extended, SignedIn, Has
    <3>2. SignedIn(n)
      BY <1>5, <3>1 DEF SignedIn, Has
    <3>3. Ready(n, n.next)
      BY <2>2, <3>1, <3>2, ReadySignedIn DEF Has
    <3>4. Leads(n)
      BY <2>2, <3>1, <3>3 DEF Leads, Scopes, Mailing, Has
    <3> QED BY <3>1, <3>4 DEF Stage, Relays
  <2> QED BY <1>1, <1>3, <1>4, <1>7, <2>1, <2>3, GoKeeps DEF Mailing, Data
<1> QED BY <1>1, <1>2, <1>6, <1>7 DEF VerifyEmailChange2fa, Form

LEMMA ResetPasswordKeeps ==
  ASSUME IInv, UNCHANGED scenario, NEW r \in Requests, ResetPassword(r)
  PROVE  IInv'
<1>1. PICK q : q = request[r]
  OBVIOUS
<1>2. PICK t : t = q.form.token
  OBVIOUS
<1>3. q.at = "resetPassword" /\ Reads
  BY <1>1 DEF ResetPassword, At
<1>4. q # Idle /\ RequestOK(q) /\ Ready(q, q.at) /\ ~Has(q, {"token"})
  BY <1>1, <1>3, AtStep, Plainly DEF Relays
<1>5. t \in Tokens /\ q.form.password \in Passwords
  BY <1>2, <1>3, <1>4, ReadyAt
<1>6. CASE Ends(r)
  BY <1>3, <1>6, EndKeeps
<1>7. ASSUME MayReset(t), NEW u \in ResetsOf(t),
             Go(r, "store new password", [of |-> u, named |-> Data(t).email, email |-> users[u].email,
                                          mailbox |-> tokens[t].mailbox])
      PROVE  IInv'
  <2>1. PICK named, email, mailbox : named = Data(t).email /\ email = users[u].email /\ mailbox = tokens[t].mailbox
    OBVIOUS
  <2>2. u \in Known /\ named \in Addresses /\ email \in Named(named) /\ mailbox \in Named(named) /\ HasStill(u, email)
    <3>1. tokens[t].mailbox \in Named(tokens[t].data.email) /\ tokens[t].data.email \in Addresses
      BY <1>5, <1>7, TokenFacts DEF MayReset, TokenOK, DataOK, Belongs, Scopes
    <3> QED BY <1>7, <2>1, <3>1 DEF ResetsOf, GetByEmail, Data, Named, HasStill
  <2>3. ASSUME NEW n, Extended(n, q, "store new password",
                               [of |-> u, named |-> named, email |-> email, mailbox |-> mailbox])
        PROVE  Stage(n)
    <3>1. /\ n.at = "store new password" /\ Has(n, {"form", "of", "named", "email", "mailbox"}) /\ n.form = q.form
          /\ n.of = u /\ n.named = named /\ n.email = email /\ n.mailbox = mailbox
      <4>1. Has(q, {"form"})
        BY <1>4 DEF RequestOK, Fresh, Has
      <4> QED BY <2>3, <4>1 DEF Extended, Has
    <3> QED BY <1>5, <2>2, <3>1, ReadyInside, ReadyStage DEF Relays, Has
  <2> QED BY <1>1, <1>3, <1>4, <1>7, <2>1, <2>2, <2>3, GoKeeps DEF Mailing
<1> QED BY <1>1, <1>2, <1>6, <1>7 DEF ResetPassword, Form

LEMMA GetCurrentUserKeeps ==
  ASSUME IInv, UNCHANGED scenario, NEW r \in Requests, GetCurrentUser(r)
  PROVE  IInv'
BY EndKeeps DEF GetCurrentUser

-----------------------------------------------------------------------------
(* Steps that change an account.                                           *)

LEMMA RowChanges ==
  ASSUME IInv, NEW u \in Known, NEW row \in UserRows, users' = [users EXCEPT ![u] = row],
         row.email = users[u].email, users[u].active => row.active,
         row.active => \E p \in proved' : p[1] = u /\ row.email \in Named(p[2]),
         proved \subseteq proved', proved' \subseteq UserIds \X Addresses
  PROVE  UsersKept /\ UsersOK'
<1>1. /\ u \in UserIds /\ users \in [UserIds -> UserRows \cup {NoUser}]
      /\ row # NoUser
  BY NoUserNoRow DEF IInv, UsersOK, Known
<1>2. /\ users' \in [UserIds -> UserRows \cup {NoUser}] /\ Known' = Known
      /\ users'[u] = row /\ \A v \in UserIds : v # u => users'[v] = users[v]
      /\ \A v \in Known : users'[v].email = users[v].email
  BY <1>1 DEF Known
<1>3. UsersKept
  BY <1>1, <1>2 DEF UsersKept, Known
<1>4. AddressesDistinct'
  BY <1>2 DEF AddressesDistinct, IInv, UsersOK
<1>5. AddressesProved'
  <2>1. ASSUME NEW v \in Known, v # u, users'[v].active PROVE OwnerKnown(v)'
    <3>1. users'[v] = users[v] /\ OwnerKnown(v)
      BY <1>2, <2>1 DEF AddressesProved, IInv, UsersOK, Known
    <3> QED BY <3>1 DEF OwnerKnown
  <2>2. users'[u].active => OwnerKnown(u)'
    BY <1>2 DEF OwnerKnown
  <2> QED BY <1>2, <2>1, <2>2 DEF AddressesProved
<1> QED BY <1>2, <1>3, <1>4, <1>5 DEF UsersOK

LEMMA HistoriesKept ==
  ASSUME IInv, UNCHANGED <<signIns, resets>>, proved \subseteq proved'
  PROVE  HistoriesOK'
BY DEF IInv, HistoriesOK, SignInsProved, MailboxSetsPassword

LEMMA EndMoves ==
  ASSUME IInv, Stores, UNCHANGED scenario, UsersKept, UsersOK', HistoriesOK',
         NEW r \in Requests, Ends(r)
  PROVE  IInv'
BY EndsAt, IdleOK, IdleOKNext, MoveKeeps DEF Stores

LEMMA GoMoves ==
  ASSUME IInv, Stores, UNCHANGED scenario, UsersKept, UsersOK', HistoriesOK',
         NEW r \in Requests, NEW q, q = request[r], q # Idle, ~Has(q, {"token"}), NEW at,
         at \notin Mailing \cup {"list token", "set token", "verify codes"}, NEW more,
         DOMAIN more \cap {"at", "since", "form", "issued", "token"} = {},
         Go(r, at, more), \A n : Extended(n, q, at, more) => Stage(n)
  PROVE  IInv'
<1>1. RequestOK(q) /\ "at" \in DOMAIN q
  BY DEF IInv, RequestsOK, RequestOK, Fresh, Has
<1>2. PICK n : request' = [request EXCEPT ![r] = n] /\ Extended(n, q, at, more)
  BY <1>1, GoTo
<1>3. RequestOK(n) /\ Follows(n, q) /\ Copies(n, q)
  BY <1>1, <1>2, GoesOn
<1>4. RequestOK(n)'
  BY <1>3, RequestKept DEF Stores
<1> QED BY <1>2, <1>3, <1>4, MoveKeeps DEF Stores

\* The fields of a row that a step may change without a look at the others.
LEMMA FieldChanges ==
  ASSUME IInv, NEW u \in Known, NEW row,
         \/ \E password \in Passwords : row = [users[u] EXCEPT !.password = password]
         \/ \E on \in BOOLEAN : row = [users[u] EXCEPT !.twoFactor = on]
         \/ \E on \in BOOLEAN : row = [users[u] EXCEPT !.codes = on]
         \/ row = [users[u] EXCEPT !.twoFactor = FALSE, !.codes = FALSE]
         \/ \E id \in GoogleAccounts : row = [users[u] EXCEPT !.oauth = @ \cup {id}],
         users' = [users EXCEPT ![u] = row], proved' = proved
  PROVE  UsersKept /\ UsersOK'
<1>1. users[u] \in UserRows
  BY KnownRow DEF IInv
<1>2. row \in UserRows /\ row.email = users[u].email /\ row.active = users[u].active
  <2>1. CASE \/ \E password \in Passwords : row = [users[u] EXCEPT !.password = password]
             \/ \E on \in BOOLEAN : row = [users[u] EXCEPT !.twoFactor = on]
             \/ \E on \in BOOLEAN : row = [users[u] EXCEPT !.codes = on]
             \/ row = [users[u] EXCEPT !.twoFactor = FALSE, !.codes = FALSE]
    BY <1>1, <2>1 DEF UserRows
  <2>2. ASSUME NEW id \in GoogleAccounts, row = [users[u] EXCEPT !.oauth = @ \cup {id}]
        PROVE  row \in UserRows /\ row.email = users[u].email /\ row.active = users[u].active
    <3>1. PICK links : links = users[u].oauth \cup {id}
      OBVIOUS
    <3>2. links \in SUBSET GoogleAccounts
      BY <1>1, <2>2, <3>1 DEF UserRows
    <3>3. row = [users[u] EXCEPT !.oauth = links]
      BY <2>2, <3>1
    <3> QED BY <1>1, <3>2, <3>3 DEF UserRows
  <2> QED BY <2>1, <2>2
<1>3. users[u].active => \E p \in proved : p[1] = u /\ users[u].email \in Named(p[2])
  BY DEF IInv, UsersOK, AddressesProved, OwnerKnown
<1>4. proved \subseteq UserIds \X Addresses
  BY DEF IInv, UsersOK
<1> QED BY <1>2, <1>3, <1>4, RowChanges

LEMMA UpdatePasswordKeeps ==
  ASSUME IInv, UNCHANGED scenario, NEW r \in Requests, UpdatePassword(r)
  PROVE  IInv'
<1>1. PICK q : q = request[r]
  OBVIOUS
<1>2. q.at = "store new password" /\ Stores /\ UNCHANGED <<proved, signIns>>
  BY <1>1 DEF UpdatePassword, At
<1>3. q # Idle /\ RequestOK(q) /\ Ready(q, q.at) /\ ~Has(q, {"token"})
  BY <1>1, <1>2, AtStep, Plainly DEF Relays
<1>4. /\ Has(q, {"of", "named", "email", "mailbox"}) /\ q.of \in Known /\ q.form.password \in Passwords
      /\ q.named \in Addresses /\ q.email \in Named(q.named) /\ q.mailbox \in Named(q.named)
      /\ HasStill(q.of, q.email)
  BY <1>2, <1>3, ReadyInside
<1>5. UsersKept /\ UsersOK'
  <2>1. PICK u, row : u = q.of /\ row = [users[u] EXCEPT !.password = q.form.password]
    OBVIOUS
  <2>2. users' = [users EXCEPT ![u] = row]
    BY <1>1, <2>1 DEF UpdatePassword, Form
  <2> QED BY <1>2, <1>4, <2>1, <2>2, FieldChanges
<1>6. HistoriesOK'
  <2>1. PICK u, named, mailbox, found, has :
          u = q.of /\ named = q.named /\ mailbox = q.mailbox /\ found = q.email /\ has = users[u].email
    OBVIOUS
  <2>2. PICK x : x = [user |-> u, named |-> named, mailbox |-> mailbox, found |-> found, has |-> has]
    OBVIOUS
  <2>3. resets' = resets \cup {x} /\ proved' = proved
    BY <1>1, <1>2, <2>1, <2>2 DEF UpdatePassword
  <2>4. u \in UserIds /\ {named, mailbox, found, has} \subseteq Addresses
    BY <1>4, <2>1, NamedAddresses, EmailType DEF Known
  <2>5. x \in PasswordResets
    BY <2>2, <2>4 DEF PasswordResets
  <2>6. {x.mailbox, x.found} \subseteq Named(x.named) /\ (x.has # x.found => <<x.user, x.has>> \in proved)
    BY <1>4, <2>1, <2>2 DEF HasStill
  <2>7. resets' \subseteq PasswordResets
    BY <2>3, <2>5 DEF IInv, HistoriesOK
  <2>8. MailboxSetsPassword'
    BY <2>3, <2>6 DEF IInv, HistoriesOK, MailboxSetsPassword
  <2> QED BY <1>2, <2>7, <2>8 DEF IInv, HistoriesOK, SignInsProved
<1>7. Go(r, "delete tokens", [scope |-> "forget_password", next |-> "done"])
  BY DEF UpdatePassword
<1>8. ASSUME NEW n, Extended(n, q, "delete tokens", [scope |-> "forget_password", next |-> "done"])
      PROVE  Stage(n)
  <2>1. /\ n.at = "delete tokens" /\ Has(n, {"of", "scope", "next"}) /\ n.of = q.of
        /\ n.scope = "forget_password" /\ n.next = "done"
    BY <1>4, <1>8 DEF Extended, Has
  <2>2. Ready(n, n.next)
    BY <2>1, ReadyInside
  <2>3. Leads(n)
    BY <1>4, <2>1, <2>2 DEF Leads, Scopes, Mailing, Has
  <2> QED BY <2>1, <2>3 DEF Stage, Relays
<1> QED BY <1>1, <1>2, <1>3, <1>5, <1>6, <1>7, <1>8, GoMoves DEF Mailing

LEMMA StorePasswordKeeps ==
  ASSUME IInv, UNCHANGED scenario, NEW r \in Requests, StorePassword(r)
  PROVE  IInv'
<1>1. PICK q : q = request[r]
  OBVIOUS
<1>2. q.at = "store password" /\ Stores /\ UNCHANGED history
  BY <1>1 DEF StorePassword, At
<1>3. q # Idle /\ RequestOK(q) /\ Ready(q, q.at) /\ ~Has(q, {"token"})
  BY <1>1, <1>2, AtStep, Plainly DEF Relays
<1>4. SignedIn(q) /\ q.new \in Passwords
  BY <1>2, <1>3, ReadySignedIn
<1>5. PICK u : u = q.me.id
  OBVIOUS
<1>6. u \in Known
  BY <1>4, <1>5 DEF SignedIn, Active
<1>7. UsersKept /\ UsersOK'
  <2>1. PICK row : row = [users[u] EXCEPT !.password = q.new]
    OBVIOUS
  <2>2. users' = [users EXCEPT ![u] = row]
    BY <1>1, <1>5, <2>1 DEF StorePassword
  <2> QED BY <1>2, <1>4, <1>6, <2>1, <2>2, FieldChanges DEF history
<1>8. HistoriesOK'
  BY <1>2, HistoriesKept DEF history
<1>9. CASE Ends(r)
  BY <1>2, <1>7, <1>8, <1>9, EndMoves
<1>10. CASE Go(r, "delete tokens", [of |-> u, scope |-> "change_password_2fa", next |-> "done"])
  <2>1. ASSUME NEW n, Extended(n, q, "delete tokens",
                               [of |-> u, scope |-> "change_password_2fa", next |-> "done"])
        PROVE  Stage(n)
    <3>1. /\ n.at = "delete tokens" /\ Has(n, {"of", "scope", "next"}) /\ n.of = u
          /\ n.scope = "change_password_2fa" /\ n.next = "done"
      BY <2>1 DEF Extended, Has
    <3>2. Ready(n, n.next)
      BY <3>1, ReadyInside
    <3>3. Leads(n)
      BY <1>6, <3>1, <3>2 DEF Leads, Scopes, Mailing, Has
    <3> QED BY <3>1, <3>3 DEF Stage, Relays
  <2> QED BY <1>1, <1>2, <1>3, <1>7, <1>8, <1>10, <2>1, GoMoves DEF Mailing
<1> QED BY <1>1, <1>5, <1>9, <1>10 DEF StorePassword

LEMMA DisableTwoFactorAuthKeeps ==
  ASSUME IInv, UNCHANGED scenario, NEW r \in Requests, DisableTwoFactorAuth(r)
  PROVE  IInv'
<1>1. PICK q : q = request[r]
  OBVIOUS
<1>2. q.at \in {"disable 2fa", "disable 2fa and end"} /\ Stores /\ UNCHANGED history
  BY <1>1 DEF DisableTwoFactorAuth, At
<1>3. q # Idle /\ RequestOK(q) /\ Stage(q)
  BY <1>1, <1>2, AtStep
<1>4. Has(q, {"of"}) /\ q.of \in Known
  <2>1. CASE q.at = "disable 2fa"
    BY <1>3, <2>1 DEF Stage, Relays, Leads, Has
  <2>2. CASE q.at = "disable 2fa and end"
    BY <1>3, <2>2, ReadyInside DEF Stage, Relays
  <2> QED BY <1>2, <2>1, <2>2
<1>5. UsersKept /\ UsersOK'
  <2>1. PICK u, row : u = q.of /\ row = [users[u] EXCEPT !.twoFactor = FALSE, !.codes = FALSE]
    OBVIOUS
  <2>2. users' = [users EXCEPT ![u].twoFactor = FALSE, ![u].codes = FALSE]
    BY <1>1, <2>1 DEF DisableTwoFactorAuth
  <2>3. users' = [users EXCEPT ![u] = row]
    BY <1>4, <2>1, <2>2 DEF IInv, UsersOK, Known
  <2> QED BY <1>2, <1>4, <2>1, <2>3, FieldChanges DEF history
<1>6. HistoriesOK'
  BY <1>2, HistoriesKept DEF history
<1>7. CASE Ends(r)
  BY <1>2, <1>5, <1>6, <1>7, EndMoves
<1>8. CASE q.at = "disable 2fa" /\ Go(r, "delete tokens", <<>>)
  <2>1. Leads(q)
    BY <1>3, <1>8 DEF Stage, Relays
  <2>2. Has(q, {"of", "scope", "next"}) /\ q.scope \in Scopes /\ q.next = "open session"
        /\ Ready(q, "open session") /\ ~Has(q, {"token"})
    BY <1>3, <1>8, <2>1, Plainly DEF Leads, Has
  <2>3. ASSUME NEW n, Extended(n, q, "delete tokens", <<>>)
        PROVE  Stage(n)
    <3>1. Has(q, {"shown", "asked"}) /\ Earned(q.shown, q.asked)
      BY <2>2, ReadyInside DEF Has
    <3>2. /\ n.at = "delete tokens" /\ Has(n, {"of", "scope", "next", "shown", "asked"})
          /\ n.of = q.of /\ n.scope = q.scope /\ n.next = "open session"
          /\ n.shown = q.shown /\ n.asked = q.asked
      BY <2>2, <2>3, <3>1, NoMore, <1>4 DEF Extended, Has
    <3>3. Ready(n, n.next)
      BY <1>4, <3>1, <3>2, ReadyInside DEF Has
    <3>4. Leads(n)
      BY <1>4, <2>2, <3>2, <3>3 DEF Leads, Mailing, Has
    <3> QED BY <3>2, <3>4 DEF Stage, Relays
  <2>4. DOMAIN <<>> \cap {"at", "since", "form", "issued", "token"} = {}
    BY NoMore
  <2> QED BY <1>1, <1>2, <1>3, <1>5, <1>6, <1>8, <2>2, <2>3, <2>4, GoMoves DEF Mailing
<1> QED BY <1>1, <1>7, <1>8 DEF DisableTwoFactorAuth, At

LEMMA OpenSessionKeeps ==
  ASSUME IInv, UNCHANGED scenario, NEW r \in Requests, OpenSession(r)
  PROVE  IInv'
<1>1. PICK q : q = request[r]
  OBVIOUS
<1>2. q.at = "open session" /\ Stores /\ UNCHANGED <<users, proved, resets>> /\ Ends(r)
  BY <1>1 DEF OpenSession, At, Stores
<1>3. q.of \in Known /\ Earned(q.shown, q.asked)
  BY <1>1, <1>2, AtStep, ReadyInside DEF Relays
<1>4. UsersKept /\ UsersOK'
  BY <1>2, UsersSame DEF IInv, UsersOK, AddressesDistinct, AddressesProved, OwnerKnown, Known
<1>5. HistoriesOK'
  <2>1. PICK s : s = [user |-> q.of, shown |-> q.shown, asked |-> q.asked]
    OBVIOUS
  <2>2. signIns' = signIns \cup {s}
    BY <1>1, <2>1 DEF OpenSession
  <2>3. s \in [user : UserIds, shown : SUBSET {"google", "password", "code"}, asked : BOOLEAN]
    BY <1>3, <2>1 DEF Earned, Known
  <2>4. "google" \in s.shown \/ ("password" \in s.shown /\ (s.asked => "code" \in s.shown))
    BY <1>3, <2>1 DEF Earned
  <2> QED BY <1>2, <2>2, <2>3, <2>4 DEF IInv, HistoriesOK, SignInsProved, MailboxSetsPassword
<1> QED BY <1>2, <1>4, <1>5, EndMoves

LEMMA UpsertAccountKeeps ==
  ASSUME IInv, UNCHANGED scenario, NEW r \in Requests, UpsertAccount(r)
  PROVE  IInv'
<1>1. PICK q : q = request[r]
  OBVIOUS
<1>2. q.at = "upsert account" /\ Stores /\ UNCHANGED history
  BY <1>1 DEF UpsertAccount, At
<1>3. q # Idle /\ RequestOK(q) /\ Ready(q, q.at) /\ ~Has(q, {"token"})
  BY <1>1, <1>2, AtStep, Plainly DEF Relays
<1>4. Has(q, {"of"}) /\ q.of \in Known /\ OwnerKnown(q.of) /\ q.form.google \in GoogleAccounts
  BY <1>2, <1>3, ReadyInside DEF Has
<1>5. UsersKept /\ UsersOK'
  <2>1. PICK u, id, row : u = q.of /\ id = q.form.google /\ row = [users[u] EXCEPT !.oauth = @ \cup {id}]
    OBVIOUS
  <2>2. CASE users' = users
    BY <1>2, <2>2, UsersSame
       DEF IInv, UsersOK, AddressesDistinct, AddressesProved, OwnerKnown, Known, history
  <2>3. CASE users' = [users EXCEPT ![u] = row]
    BY <1>2, <1>4, <2>1, <2>3, FieldChanges DEF history
  <2> QED BY <1>1, <2>1, <2>2, <2>3 DEF UpsertAccount, Form
<1>6. HistoriesOK'
  BY <1>2, HistoriesKept DEF history
<1>7. PICK at \in {"open session", "activate google"} : Go(r, at, [shown |-> {"google"}, asked |-> FALSE])
  BY DEF UpsertAccount
<1>8. ASSUME NEW n, Extended(n, q, at, [shown |-> {"google"}, asked |-> FALSE])
      PROVE  Stage(n)
  <2>1. /\ n.at = at /\ Has(n, {"of", "shown", "asked"}) /\ n.of = q.of
        /\ n.shown = {"google"} /\ n.asked = FALSE
    BY <1>4, <1>8 DEF Extended, Has
  <2>2. Earned(n.shown, n.asked)
    BY <2>1 DEF Earned
  <2> QED BY <1>4, <2>1, <2>2, ReadyInside, ReadyStage DEF Relays
<1> QED BY <1>1, <1>2, <1>3, <1>5, <1>6, <1>7, <1>8, GoMoves DEF Mailing

LEMMA ActivateGoogleKeeps ==
  ASSUME IInv, UNCHANGED scenario, NEW r \in Requests, ActivateGoogle(r)
  PROVE  IInv'
<1>1. PICK q : q = request[r]
  OBVIOUS
<1>2. q.at = "activate google" /\ Stores /\ UNCHANGED history
  BY <1>1 DEF ActivateGoogle, At
<1>3. q # Idle /\ RequestOK(q) /\ Ready(q, q.at) /\ ~Has(q, {"token"})
  BY <1>1, <1>2, AtStep, Plainly DEF Relays
<1>4. /\ Has(q, {"of", "shown", "asked"}) /\ q.of \in Known /\ Earned(q.shown, q.asked)
      /\ OwnerKnown(q.of)
  BY <1>2, <1>3, ReadyInside
<1>5. UsersKept /\ UsersOK'
  <2>1. PICK u, row : u = q.of /\ row = [users[u] EXCEPT !.active = TRUE]
    OBVIOUS
  <2>2. users' = [users EXCEPT ![u] = row]
    BY <1>1, <2>1 DEF ActivateGoogle
  <2>3. row \in UserRows /\ row.email = users[u].email /\ row.active
    BY <1>4, <2>1, KnownRow DEF IInv, UserRows
  <2>4. proved' = proved /\ proved \subseteq UserIds \X Addresses
    BY <1>2 DEF IInv, UsersOK, history
  <2>5. u \in Known /\ \E p \in proved' : p[1] = u /\ row.email \in Named(p[2])
    BY <1>4, <2>1, <2>3, <2>4 DEF OwnerKnown
  <2> QED BY <2>2, <2>3, <2>4, <2>5, RowChanges
<1>6. HistoriesOK'
  BY <1>2, HistoriesKept DEF history
<1>7. Go(r, "open session", <<>>)
  BY DEF ActivateGoogle
<1>8. ASSUME NEW n, Extended(n, q, "open session", <<>>)
      PROVE  Stage(n)
  <2>1. /\ n.at = "open session" /\ Has(n, {"of", "shown", "asked"}) /\ n.of = q.of
        /\ n.shown = q.shown /\ n.asked = q.asked
    BY <1>4, <1>8, NoMore DEF Extended, Has
  <2> QED BY <1>4, <2>1, ReadyInside, ReadyStage DEF Relays
<1>9. DOMAIN <<>> \cap {"at", "since", "form", "issued", "token"} = {}
  BY NoMore
<1> QED BY <1>1, <1>2, <1>3, <1>5, <1>6, <1>7, <1>8, <1>9, GoMoves DEF Mailing

LEMMA SetUserAccountAsActivateKeeps ==
  ASSUME IInv, UNCHANGED scenario, NEW r \in Requests, SetUserAccountAsActivate(r)
  PROVE  IInv'
<1>1. PICK q : q = request[r]
  OBVIOUS
<1>2. q.at = "activate" /\ Stores /\ UNCHANGED <<signIns, resets>>
  BY <1>1 DEF SetUserAccountAsActivate, At
<1>3. q # Idle /\ RequestOK(q) /\ Ready(q, q.at) /\ ~Has(q, {"token"})
  BY <1>1, <1>2, AtStep, Plainly DEF Relays
<1>4. PICK u, mailbox : u = q.of /\ mailbox = q.mailbox
  OBVIOUS
<1>5. Has(q, {"of", "email", "mailbox"}) /\ Owned(u, mailbox) /\ q.email = mailbox /\ u \in Known
  BY <1>2, <1>3, <1>4, ReadyInside DEF Owned
<1>6. UsersKept /\ UsersOK'
  <2>1. PICK row : row = [users[u] EXCEPT !.active = TRUE]
    OBVIOUS
  <2>2. users' = [users EXCEPT ![u] = row] /\ proved' = proved \cup {<<u, mailbox>>}
    BY <1>1, <1>4, <2>1 DEF SetUserAccountAsActivate
  <2>3. row \in UserRows /\ row.email = users[u].email /\ row.active
    BY <1>5, <2>1, KnownRow DEF IInv, UserRows
  <2>4. proved' \subseteq UserIds \X Addresses
    BY <1>5, <2>2 DEF IInv, UsersOK, Owned, Known
  <2>5. \E p \in proved' : p[1] = u /\ row.email \in Named(p[2])
    <3>1. CASE users[u].active
      BY <1>5, <2>2, <2>3, <3>1 DEF IInv, UsersOK, AddressesProved, OwnerKnown
    <3>2. CASE users[u].email = mailbox
      <4>1. <<u, row.email>> \in proved'
        BY <2>2, <2>3, <3>2
      <4> QED BY <4>1, OwnerByProof
    <3> QED BY <1>5, <3>1, <3>2 DEF Owned
  <2> QED BY <1>5, <2>2, <2>3, <2>4, <2>5, RowChanges
<1>7. HistoriesOK'
  BY <1>2, <1>6, HistoriesKept DEF UsersKept
<1>8. PICK next \in {"force reset", "done"} : Go(r, "delete tokens", [scope |-> "activation", next |-> next])
  BY DEF SetUserAccountAsActivate
<1>9. ASSUME NEW n, Extended(n, q, "delete tokens", [scope |-> "activation", next |-> next])
      PROVE  Stage(n)
  <2>1. /\ n.at = "delete tokens" /\ Has(n, {"of", "email", "mailbox", "scope", "next"})
        /\ n.of = u /\ n.mailbox = mailbox /\ n.email = mailbox
        /\ n.scope = "activation" /\ n.next = next
    BY <1>4, <1>5, <1>9 DEF Extended, Has
  <2>2. Ready(n, n.next)
    BY <1>5, <2>1, ReadyInside DEF Has
  <2>3. Leads(n)
    BY <1>5, <2>1, <2>2 DEF Leads, Scopes, Mailing, Has
  <2> QED BY <2>1, <2>3 DEF Stage, Relays
<1> QED BY <1>1, <1>2, <1>3, <1>6, <1>7, <1>8, <1>9, GoMoves DEF Mailing

LEMMA EnableTwoFactorAuthKeeps ==
  ASSUME IInv, UNCHANGED scenario, NEW r \in Requests, EnableTwoFactorAuth(r) \/ ResetRecoveryCodes(r)
  PROVE  IInv'
<1>1. PICK q : q = request[r]
  OBVIOUS
<1>2. q.at \in {"verify2faSetup", "resetRecoveryCodes"} /\ Stores /\ UNCHANGED history /\ Ends(r)
  BY <1>1 DEF EnableTwoFactorAuth, ResetRecoveryCodes, At
<1>3. q.me.id \in Known
  <2>1. Ready(q, q.at)
    BY <1>1, <1>2, AtStep DEF Relays
  <2>2. SignedIn(q)
    BY <1>2, <2>1, ReadySignedIn
  <2> QED BY <2>2 DEF SignedIn, Active
<1>4. UsersKept /\ UsersOK'
  <2>1. PICK u : u = q.me.id
    OBVIOUS
  <2>2. CASE users' = [users EXCEPT ![u].twoFactor = TRUE]
    <3>1. PICK row : row = [users[u] EXCEPT !.twoFactor = TRUE]
      OBVIOUS
    <3>2. users' = [users EXCEPT ![u] = row]
      BY <2>2, <3>1
    <3> QED BY <1>2, <1>3, <2>1, <3>1, <3>2, FieldChanges DEF history
  <2>3. CASE users' = [users EXCEPT ![u].codes = TRUE]
    <3>1. PICK row : row = [users[u] EXCEPT !.codes = TRUE]
      OBVIOUS
    <3>2. users' = [users EXCEPT ![u] = row]
      BY <2>3, <3>1
    <3> QED BY <1>2, <1>3, <2>1, <3>1, <3>2, FieldChanges DEF history
  <2>4. CASE users' = users
    BY <1>2, <2>4, UsersSame DEF IInv, UsersOK, AddressesDistinct, AddressesProved, OwnerKnown, Known, history
  <2> QED BY <1>1, <2>1, <2>2, <2>3, <2>4 DEF EnableTwoFactorAuth, ResetRecoveryCodes
<1>5. HistoriesOK'
  BY <1>2, HistoriesKept DEF history
<1> QED BY <1>2, <1>4, <1>5, EndMoves

LEMMA UpdateEmailKeeps ==
  ASSUME IInv, UNCHANGED scenario, NEW r \in Requests, UpdateEmail(r)
  PROVE  IInv'
<1>1. PICK q : q = request[r]
  OBVIOUS
<1>2. q.at = "store address" /\ Stores /\ UNCHANGED <<signIns, resets>>
  BY <1>1 DEF UpdateEmail, At
<1>3. q # Idle /\ RequestOK(q) /\ Ready(q, q.at) /\ ~Has(q, {"token"})
  BY <1>1, <1>2, AtStep, Plainly DEF Relays
<1>4. PICK u, to : u = q.me.id /\ to = q.to
  OBVIOUS
<1>5. Active(u) /\ to \in Addresses /\ q.mailbox = to
  BY <1>2, <1>3, <1>4, ReadySignedIn
<1>6. proved \subseteq proved' => HistoriesOK'
  BY <1>2, HistoriesKept
<1>7. CASE Ends(r) /\ UNCHANGED <<users, proved>>
  <2>1. UsersKept /\ UsersOK'
    BY <1>7, UsersSame DEF IInv, UsersOK, AddressesDistinct, AddressesProved, OwnerKnown, Known
  <2> QED BY <1>2, <1>6, <1>7, <2>1, EndMoves
<1>8. CASE /\ EmailFree(to, {u})
           /\ users' = [users EXCEPT ![u].email = to] /\ proved' = proved \cup {<<u, to>>}
           /\ Go(r, "delete tokens", [of |-> u, scope |-> "change_email", next |-> "done"])
  <2>1. PICK row : row = [users[u] EXCEPT !.email = to]
    OBVIOUS
  <2>2. u \in Known /\ u \in UserIds /\ users[u].active /\ users[u] \in UserRows
    BY <1>5, KnownRow DEF Active, IInv
  <2>3. row \in UserRows /\ row.email = to /\ row.active /\ row # NoUser
    BY <1>5, <2>1, <2>2, NoUserNoRow DEF UserRows
  <2>4. /\ users' \in [UserIds -> UserRows \cup {NoUser}] /\ Known' = Known
        /\ users'[u] = row /\ \A v \in UserIds : v # u => users'[v] = users[v]
    BY <1>8, <2>1, <2>2, <2>3 DEF IInv, UsersOK, Known
  <2>5. proved \subseteq proved' /\ <<u, to>> \in proved' /\ proved' \subseteq UserIds \X Addresses
    <3>1. PICK pair : pair = <<u, to>>
      OBVIOUS
    <3>2. pair \in UserIds \X Addresses
      BY <1>5, <2>2, <3>1
    <3>3. proved' = proved \cup {pair} /\ proved \subseteq UserIds \X Addresses
      BY <1>8, <3>1 DEF IInv, UsersOK
    <3> QED BY <3>1, <3>2, <3>3
  <2>6. UsersKept
    <3>1. ASSUME NEW v \in Known, v # u PROVE users'[v] = users[v]
      BY <2>4, <3>1 DEF Known
    <3> QED BY <2>2, <2>3, <2>4, <2>5, <3>1 DEF UsersKept
  <2>7. AddressesDistinct'
    <3>1. \A v \in Known : v # u => users[v].email # to
      BY <1>8 DEF EmailFree
    <3> QED BY <2>3, <2>4, <3>1 DEF AddressesDistinct, IInv, UsersOK, Known
  <2>8. UsersOK'
    <3>1. AddressesProved'
      <4>1. ASSUME NEW v \in Known, v # u, users'[v].active PROVE OwnerKnown(v)'
        <5>1. users'[v] = users[v] /\ OwnerKnown(v)
          BY <2>4, <4>1 DEF AddressesProved, IInv, UsersOK, Known
        <5> QED BY <2>5, <5>1 DEF OwnerKnown
      <4>2. OwnerKnown(u)'
        BY <2>3, <2>4, <2>5, OwnerByProof DEF OwnerKnown
      <4> QED BY <2>4, <4>1, <4>2 DEF AddressesProved
    <3> QED BY <2>4, <2>5, <2>7, <3>1 DEF UsersOK
  <2>9. ASSUME NEW n, Extended(n, q, "delete tokens", [of |-> u, scope |-> "change_email", next |-> "done"])
        PROVE  Stage(n)
    <3>1. /\ n.at = "delete tokens" /\ Has(n, {"of", "scope", "next"}) /\ n.of = u
          /\ n.scope = "change_email" /\ n.next = "done"
      BY <2>9 DEF Extended, Has
    <3>2. Ready(n, n.next)
      BY <3>1, ReadyInside
    <3>3. Leads(n)
      BY <2>2, <3>1, <3>2 DEF Leads, Scopes, Mailing, Has
    <3> QED BY <3>1, <3>3 DEF Stage, Relays
  <2> QED BY <1>1, <1>2, <1>3, <1>6, <1>8, <2>5, <2>6, <2>8, <2>9, GoMoves DEF Mailing
<1> QED BY <1>1, <1>4, <1>5, <1>7, <1>8 DEF UpdateEmail

-----------------------------------------------------------------------------
(* Steps that make an account.                                             *)

LEMMA Creates ==
  ASSUME IInv, NEW u \in UserIds \ Known, NEW row \in UserRows, EmailFree(row.email, {}),
         users' = [users EXCEPT ![u] = row],
         proved \subseteq proved', proved' \subseteq UserIds \X Addresses,
         row.active => <<u, row.email>> \in proved'
  PROVE  UsersKept /\ UsersOK' /\ u \in Known' /\ users'[u] = row
<1>1. row # NoUser
  BY NoUserNoRow
<1>2. /\ users' \in [UserIds -> UserRows \cup {NoUser}] /\ Known' = Known \cup {u}
      /\ users'[u] = row /\ \A v \in UserIds : v # u => users'[v] = users[v]
  BY <1>1 DEF IInv, UsersOK, Known
<1>3. UsersKept
  BY <1>2 DEF UsersKept, Known
<1>4. \A v \in Known : v # u /\ users[v].email # row.email
  BY DEF EmailFree
<1>5. AddressesDistinct'
  BY <1>2, <1>4 DEF AddressesDistinct, IInv, UsersOK, Known
<1>6. AddressesProved'
  <2>1. ASSUME NEW v \in Known, users'[v].active PROVE OwnerKnown(v)'
    <3>1. users'[v] = users[v] /\ OwnerKnown(v)
      BY <1>2, <2>1 DEF AddressesProved, IInv, UsersOK, Known
    <3> QED BY <3>1 DEF OwnerKnown
  <2>2. users'[u].active => OwnerKnown(u)'
    BY <1>2, OwnerByProof DEF OwnerKnown
  <2> QED BY <1>2, <2>1, <2>2 DEF AddressesProved
<1> QED BY <1>2, <1>3, <1>5, <1>6 DEF UsersOK

\* The step it goes to is one for the users that there are then.
LEMMA GoMovesNext ==
  ASSUME IInv, Stores, UNCHANGED scenario, UsersKept, UsersOK', HistoriesOK',
         NEW r \in Requests, NEW q, q = request[r], q # Idle, ~Has(q, {"token"}), NEW at,
         at \notin Mailing \cup Relays \cup {"verify codes"}, NEW more,
         DOMAIN more \cap {"at", "since", "form", "issued", "token"} = {},
         Go(r, at, more), \A n : Extended(n, q, at, more) => Ready(n, at)'
  PROVE  IInv'
<1>1. RequestOK(q) /\ Fresh(q)
  BY DEF IInv, RequestsOK, RequestOK
<1>2. PICK n : request' = [request EXCEPT ![r] = n] /\ Extended(n, q, at, more)
  <2>1. "at" \in DOMAIN q
    BY <1>1 DEF Fresh, Has
  <2> QED BY <2>1, GoTo
<1>3. Follows(n, q) /\ Copies(n, q)
  BY <1>1, <1>2, GoesOn DEF Relays
<1>4. RequestOK(n)'
  <2>1. /\ Has(n, {"at", "since", "form"}) /\ n.since = q.since /\ n.at = at
        /\ Has(n, {"issued"}) => Has(q, {"issued"}) /\ n.issued = q.issued
        /\ ~Has(n, {"token"})
    BY <1>1, <1>2 DEF Extended, Fresh, Has
  <2>2. Fresh(n)'
    BY <1>1, <2>1 DEF Fresh, Stores
  <2>3. Has(n, {"issued"}) => n.issued \in Tokens
    BY <1>1, <2>1 DEF RequestOK
  <2>4. Ready(n, at)'
    BY <1>2
  <2>5. Stage(n)'
    BY <2>1, <2>4 DEF Stage
  <2> QED BY <2>1, <2>2, <2>3, <2>5 DEF RequestOK
<1> QED BY <1>2, <1>3, <1>4, MoveKeeps DEF Stores

\* createUser, for the step that comes next.
LEMMA CreateKeeps ==
  ASSUME IInv, Stores, UNCHANGED scenario, HistoriesOK',
         proved \subseteq proved', proved' \subseteq UserIds \X Addresses,
         NEW r \in Requests, NEW q, q = request[r], q # Idle, ~Has(q, {"token"}),
         NEW row \in UserRows, NEW at \in {"send activation", "upsert account"}, Create(r, row, at),
         at = "upsert account" => q.form.google \in GoogleAccounts,
         \A u \in UserIds \ Known : users' = [users EXCEPT ![u] = row] =>
           /\ row.active => <<u, row.email>> \in proved'
           /\ at = "upsert account" => <<u, row.email>> \in proved'
  PROVE  IInv'
<1>1. CASE Ends(r) /\ UNCHANGED users
  <2>1. UsersKept
    BY <1>1, UsersSame
  <2>2. UsersOK'
    BY <1>1 DEF IInv, UsersOK, AddressesDistinct, AddressesProved, OwnerKnown, Known
  <2> QED BY <1>1, <2>1, <2>2, EndMoves
<1>2. ASSUME EmailFree(row.email, {}), NEW u \in UserIds \ Known, users' = [users EXCEPT ![u] = row],
             Go(r, at, [of |-> u, email |-> row.email, active |-> row.active])
      PROVE  IInv'
  <2>1. UsersKept /\ UsersOK' /\ u \in Known' /\ users'[u] = row
    BY <1>2, Creates
  <2>2. PICK email, active : email = row.email /\ active = row.active
    OBVIOUS
  <2>3. email \in Addresses
    BY <2>2 DEF UserRows
  <2>4. ASSUME NEW n, Extended(n, q, at, [of |-> u, email |-> email, active |-> active])
        PROVE  Ready(n, at)'
    <3>1. /\ Has(n, {"of", "email", "active"}) /\ n.of = u /\ n.email = email /\ n.active = active
          /\ n.form = q.form
      <4>1. Fresh(q)
        BY DEF IInv, RequestsOK, RequestOK
      <4> QED BY <2>4, <4>1 DEF Extended, Fresh, Has
    <3>2. Owned(u, email)'
      BY <2>1, <2>2, <2>3 DEF Owned
    <3>3. CASE at = "send activation"
      BY <3>1, <3>2, <3>3 DEF Ready, MakesAccount, Mailing, Steps, Public, Private, TakesToken, Has
    <3>4. CASE at = "upsert account"
      <4>1. n.of \in Known' /\ users'[n.of].active = n.active /\ OwnerKnown(n.of)'
        <5>1. <<u, users'[u].email>> \in proved'
          BY <1>2, <2>1, <3>4
        <5>2. OwnerKnown(u)'
          <6>1. PICK p : p = <<u, users'[u].email>>
            OBVIOUS
          <6>2. p \in proved' /\ p[1] = u /\ users'[u].email \in Named(p[2])
            BY <5>1, <6>1, NamesItself
          <6> QED BY <6>2 DEF OwnerKnown
        <5> QED BY <2>1, <2>2, <3>1, <5>2
      <4> QED BY <3>1, <3>4, <4>1
              DEF Ready, MakesAccount, Mailing, Steps, Public, Private, TakesToken, Has
    <3> QED BY <3>3, <3>4
  <2> QED BY <1>2, <2>1, <2>2, <2>4, GoMovesNext DEF Mailing, Relays
<1> QED BY <1>1, <1>2 DEF Create

LEMMA NewUserRow ==
  ASSUME NEW email \in Addresses, NEW password \in Passwords \cup {"none"},
         NEW active \in BOOLEAN, NEW force \in BOOLEAN
  PROVE  /\ NewUser(email, password, active, force) \in UserRows
         /\ NewUser(email, password, active, force).email = email
         /\ NewUser(email, password, active, force).active = active
BY DEF NewUser, UserRows

LEMMA RegisterNormalUserKeeps ==
  ASSUME IInv, UNCHANGED scenario, NEW r \in Requests, RegisterNormalUser(r) \/ CreateVendor(r)
  PROVE  IInv'
<1>1. PICK q : q = request[r]
  OBVIOUS
<1>2. q.at \in {"registerNormalUser", "createVendor"} /\ Stores /\ UNCHANGED history
  BY <1>1 DEF RegisterNormalUser, CreateVendor, At
<1>3. q # Idle /\ RequestOK(q) /\ Ready(q, q.at) /\ ~Has(q, {"token"})
  BY <1>1, <1>2, AtStep, Plainly DEF Relays
<1>4. q.form.email \in Addresses /\ (q.at = "registerNormalUser" => q.form.password \in Passwords)
  BY <1>2, <1>3, ReadyAt
<1>5. PICK password \in Passwords \cup {"none"}, force \in BOOLEAN :
        Create(r, NewUser(q.form.email, password, FALSE, force), "send activation")
  BY <1>1, <1>4 DEF RegisterNormalUser, CreateVendor, Form, At
<1>6. PICK row : row = NewUser(q.form.email, password, FALSE, force)
  OBVIOUS
<1>7. row \in UserRows /\ row.active = FALSE
  BY <1>4, <1>6, NewUserRow
<1>8. HistoriesOK' /\ proved' = proved /\ proved \subseteq UserIds \X Addresses
  BY <1>2, HistoriesKept DEF history, IInv, UsersOK
<1> QED BY <1>1, <1>2, <1>3, <1>5, <1>6, <1>7, <1>8, CreateKeeps

LEMMA CreateWithGoogleKeeps ==
  ASSUME IInv, UNCHANGED scenario, NEW r \in Requests, CreateWithGoogle(r)
  PROVE  IInv'
<1>1. PICK q : q = request[r]
  OBVIOUS
<1>2. q.at = "create with google" /\ Stores /\ UNCHANGED <<signIns, resets>>
  BY <1>1 DEF CreateWithGoogle, At
<1>3. q # Idle /\ RequestOK(q) /\ Ready(q, q.at) /\ ~Has(q, {"token"})
  BY <1>1, <1>2, AtStep, Plainly DEF Relays
<1>4. q.form.email \in Addresses /\ q.form.verified \in BOOLEAN /\ q.form.google \in GoogleAccounts
  BY <1>2, <1>3, ReadyAt
<1>5. PICK email, row : email = q.form.email /\ row = NewUser(email, "none", q.form.verified, FALSE)
  OBVIOUS
<1>6. row \in UserRows /\ row.email = email
  BY <1>4, <1>5, NewUserRow
<1>7. /\ Create(r, row, "upsert account")
      /\ proved' = proved \cup {<<u, email>> : u \in {x \in UserIds : users'[x] # users[x]}}
  BY <1>1, <1>5 DEF CreateWithGoogle, Form
<1>8. proved \subseteq proved' /\ proved' \subseteq UserIds \X Addresses
  <2>1. PICK new : new = {x \in UserIds : users'[x] # users[x]}
    OBVIOUS
  <2>2. new \subseteq UserIds /\ proved' = proved \cup {<<u, email>> : u \in new}
    BY <1>7, <2>1
  <2>3. proved \subseteq UserIds \X Addresses
    BY DEF IInv, UsersOK
  <2> QED BY <1>4, <1>5, <2>2, <2>3
<1>9. ASSUME NEW u \in UserIds \ Known, users' = [users EXCEPT ![u] = row]
      PROVE  <<u, row.email>> \in proved'
  <2>1. users'[u] # users[u]
    BY <1>6, <1>9, NoUserNoRow DEF Known, IInv, UsersOK
  <2> QED BY <1>6, <1>7, <2>1
<1>10. HistoriesOK'
  BY <1>2, <1>8, HistoriesKept
<1> QED BY <1>1, <1>2, <1>3, <1>4, <1>6, <1>7, <1>8, <1>9, <1>10, CreateKeeps

LEMMA GoogleCallbackKeeps ==
  ASSUME IInv, UNCHANGED scenario, NEW r \in Requests, GoogleCallback(r)
  PROVE  IInv'
<1>1. PICK q : q = request[r]
  OBVIOUS
<1>2. q.at = "googleCallbackHandler" /\ Stores /\ UNCHANGED <<users, signIns, resets>>
  BY <1>1 DEF GoogleCallback, At, Stores
<1>3. q # Idle /\ RequestOK(q) /\ Ready(q, q.at) /\ ~Has(q, {"token"})
  BY <1>1, <1>2, AtStep, Plainly DEF Relays
<1>4. PICK email : email = q.form.email
  OBVIOUS
<1>5. /\ email \in Addresses /\ q.form.verified \in BOOLEAN /\ q.form.google \in GoogleAccounts
      /\ Has(q, {"form"})
  BY <1>2, <1>3, <1>4, ReadyAt DEF RequestOK, Fresh, Has
<1>6. proved' = proved \/ \E u \in GetByEmail(email) : proved' = proved \cup {<<u, email>>}
  BY <1>1, <1>4 DEF GoogleCallback, Form
<1>7. proved \subseteq proved' /\ proved' \subseteq UserIds \X Addresses
  <2>1. proved \subseteq UserIds \X Addresses
    BY DEF IInv, UsersOK
  <2>2. ASSUME NEW u \in GetByEmail(email) PROVE <<u, email>> \in UserIds \X Addresses
    BY <1>5 DEF GetByEmail, Known
  <2> QED BY <1>6, <2>1, <2>2
<1>8. UsersKept
  BY <1>2, <1>7, UsersSame
<1>9. UsersOK'
  BY <1>2, <1>7 DEF IInv, UsersOK, AddressesDistinct, AddressesProved, OwnerKnown, Known
<1>10. HistoriesOK'
  BY <1>2, <1>7, HistoriesKept
<1>11. CASE Go(r, "create with google", <<>>)
  <2>1. ASSUME NEW n, Extended(n, q, "create with google", <<>>)
        PROVE  Stage(n)
    <3>1. n.at = "create with google" /\ n.form = q.form
      BY <1>5, <2>1, NoMore DEF Extended, Has
    <3> QED BY <1>4, <1>5, <3>1, ReadyAt, ReadyStage DEF Relays
  <2>2. DOMAIN <<>> \cap {"at", "since", "form", "issued", "token"} = {}
    BY NoMore
  <2> QED BY <1>1, <1>2, <1>3, <1>8, <1>9, <1>10, <1>11, <2>1, <2>2, GoMoves DEF Mailing
<1>12. ASSUME NEW u \in GetByEmail(email), Go(r, "upsert account", [of |-> u, active |-> users[u].active]),
              proved' = proved \cup {<<u, email>>}
       PROVE  IInv'
  <2>1. PICK active : active = users[u].active
    OBVIOUS
  <2>2. u \in Known' /\ OwnerKnown(u)' /\ users'[u].active = active
    <3>1. PICK pair : pair = <<u, email>>
      OBVIOUS
    <3>2. pair \in proved' /\ pair[1] = u /\ pair[2] = email
      BY <1>12, <3>1
    <3>3. users'[u].email \in Named(pair[2])
      BY <1>2, <3>2 DEF GetByEmail, Named
    <3> QED BY <1>2, <2>1, <3>2, <3>3 DEF GetByEmail, Known, OwnerKnown
  <2>3. ASSUME NEW n, Extended(n, q, "upsert account", [of |-> u, active |-> active])
        PROVE  Ready(n, "upsert account")'
    <3>1. Has(n, {"of", "active"}) /\ n.of = u /\ n.active = active /\ n.form = q.form
      BY <1>5, <2>3 DEF Extended, Has
    <3> QED BY <1>5, <2>2, <3>1 DEF Ready, MakesAccount, Mailing, Steps, Public, Private, TakesToken, Has
  <2> QED BY <1>1, <1>2, <1>3, <1>8, <1>9, <1>10, <1>12, <2>1, <2>3, GoMovesNext DEF Mailing, Relays
<1> QED BY <1>1, <1>4, <1>11, <1>12 DEF GoogleCallback, Form

-----------------------------------------------------------------------------
(* Steps that change the tokens.                                           *)

LEMMA ReadySame ==
  ASSUME NEW q, Has(q, {"form"}), NEW at, Ready(q, at), NEW n, DOMAIN q \subseteq DOMAIN n,
         \A f \in DOMAIN q \ {"at", "next", "issued"} : n[f] = q[f],
         at = "store password" => n.next = q.next
  PROVE  Ready(n, at)
<1>1. n.form = q.form
  BY DEF Has
<1>2. /\ "of" \in DOMAIN q => n.of = q.of
      /\ "email" \in DOMAIN q => n.email = q.email
      /\ "mailbox" \in DOMAIN q => n.mailbox = q.mailbox
      /\ "named" \in DOMAIN q => n.named = q.named
      /\ "active" \in DOMAIN q => n.active = q.active
      /\ "shown" \in DOMAIN q => n.shown = q.shown
      /\ "asked" \in DOMAIN q => n.asked = q.asked
      /\ "me" \in DOMAIN q => n.me = q.me
      /\ "to" \in DOMAIN q => n.to = q.to
      /\ "new" \in DOMAIN q => n.new = q.new
  OBVIOUS
<1>3. SignedIn(q) => SignedIn(n)
  BY <1>2 DEF SignedIn, Has
<1>4. CASE at \in Public
  BY <1>1, <1>4, ReadyAt DEF Public
<1>5. CASE at \in Private
  BY <1>1, <1>3, <1>5, ReadySignedIn DEF Private
<1>6. CASE at \in Mailing
  BY <1>1, <1>2, <1>3, <1>6, ReadyAt, ReadyInside, ReadySignedIn DEF Mailing, Has
<1>7. CASE at \in Steps
  <2>1. CASE at \in {"done", "send activation", "activate", "force reset", "ask for code",
                     "check code", "check recovery code", "disable 2fa and end", "open session"}
    BY <1>1, <1>2, <2>1, ReadyInside DEF Has
  <2>2. CASE at \in {"create with google", "upsert account", "activate google", "issue reset",
                     "verify codes", "store new password"}
    BY <1>1, <1>2, <2>2, ReadyAt, ReadyInside DEF Has
  <2>3. CASE at \in {"authenticate", "compare new", "change password", "store password",
                     "look for address", "send change", "store address"}
    BY <1>1, <1>2, <1>3, <2>3, ReadySignedIn DEF Has
  <2> QED BY <1>7, <2>1, <2>2, <2>3 DEF Steps
<1> QED BY <1>4, <1>5, <1>6, <1>7 DEF Ready

LEMMA TokenMoves ==
  ASSUME IInv, UNCHANGED <<now, users, cache, history, scenario>>, TimesOK',
         TokensStay, TokensOK', NEW r \in Requests, NEW n,
         request' = [request EXCEPT ![r] = n], RequestOK(n),
         Follows(n, request[r]), Copies(n, request[r])
  PROVE  IInv'
<1>1. UsersKept
  BY UsersSame DEF history
<1>2. UsersOK' /\ HistoriesOK'
  BY DEF IInv, history, UsersOK, AddressesDistinct, AddressesProved, OwnerKnown, Known, HistoriesOK,
         SignInsProved, MailboxSetsPassword
<1>3. RequestOK(n)'
  BY <1>1, RequestKept
<1>4. RequestsOK'
  BY <1>1, <1>3, OneMoves DEF IInv
<1>5. IssuedOK'
  BY <1>1, <1>3, IssuedKept DEF IInv
<1>6. CallersOK'
  BY <1>1, ActiveKept DEF CallersOK, IInv
<1> QED BY <1>2, <1>4, <1>5, <1>6 DEF IInv, CopiesOK

LEMMA TimesSame ==
  ASSUME IInv, UNCHANGED <<now, faults, scenario>>
  PROVE  TimesOK'
BY DEF IInv, TimesOK

\* A token that only its list, or where it has been sent, changes of.
LEMMA TokenSent ==
  ASSUME NEW token, TokenOK(token), NEW mailbox, Belongs(token, mailbox)
  PROVE  /\ TokenOK([token EXCEPT !.mailbox = mailbox])
         /\ SameKind([token EXCEPT !.mailbox = mailbox], token)
<1>1. PICK scope, user, data, listed, old :
        token = [scope |-> scope, user |-> user, data |-> data, listed |-> listed, mailbox |-> old]
  BY DEF TokenOK
<1>2. [token EXCEPT !.mailbox = mailbox] =
        [scope |-> scope, user |-> user, data |-> data, listed |-> listed, mailbox |-> mailbox]
  BY <1>1
<1>3. PICK new : new = [scope |-> scope, user |-> user, data |-> data, listed |-> listed, mailbox |-> mailbox]
  OBVIOUS
<1>4. /\ token.scope = scope /\ token.user = user /\ token.data = data /\ token.listed = listed
      /\ new.scope = scope /\ new.user = user /\ new.data = data /\ new.listed = listed
      /\ new.mailbox = mailbox
  BY <1>1, <1>3
<1>5. TokenOK(new) /\ SameKind(new, token)
  BY <1>3, <1>4 DEF TokenOK, SameKind, Belongs
<1> QED BY <1>2, <1>3, <1>5

LEMMA TokenListed ==
  ASSUME NEW token, TokenOK(token), NEW listed \in BOOLEAN
  PROVE  /\ TokenOK([token EXCEPT !.listed = listed])
         /\ SameKind([token EXCEPT !.listed = listed], token)
<1>1. PICK scope, user, data, old, mailbox :
        token = [scope |-> scope, user |-> user, data |-> data, listed |-> old, mailbox |-> mailbox]
  BY DEF TokenOK
<1>2. [token EXCEPT !.listed = listed] =
        [scope |-> scope, user |-> user, data |-> data, listed |-> listed, mailbox |-> mailbox]
  BY <1>1
<1>3. PICK new : new = [scope |-> scope, user |-> user, data |-> data, listed |-> listed, mailbox |-> mailbox]
  OBVIOUS
<1>4. /\ token.scope = scope /\ token.user = user /\ token.data = data /\ token.mailbox = mailbox
      /\ new.scope = scope /\ new.user = user /\ new.data = data /\ new.mailbox = mailbox
      /\ new.listed = listed
  BY <1>1, <1>3
<1>5. TokenOK(new) /\ SameKind(new, token)
  BY <1>3, <1>4 DEF TokenOK, SameKind, Belongs
<1> QED BY <1>2, <1>3, <1>5

\* Tokens stay sound if each goes, or is replaced by one that is.
LEMMA TokensReplaced ==
  ASSUME IInv, UNCHANGED users, proved' = proved, DOMAIN tokens' = Tokens,
         \A t \in Tokens : \A token : token = tokens'[t] => token = NoToken \/ TokenOK(token)
  PROVE  TokensOK'
<1>1. UsersKept
  BY UsersSame
<1>2. ASSUME NEW t \in Tokens, NEW token, token = tokens'[t], token # NoToken
      PROVE  TokenOK(token)'
  BY <1>1, <1>2, TokenKept
<1> QED BY <1>2 DEF TokensOK

\* On to the next step, or to the end.
LEMMA GoesNext ==
  ASSUME IInv, NEW r \in Requests, NEW q, q = request[r],
         q.at \in {"cache user", "list token", "delete tokens"},
         IF q.next = "done" THEN Ends(r) ELSE Go(r, q.next, <<>>)
  PROVE  \E n : /\ request' = [request EXCEPT ![r] = n]
                /\ RequestOK(n) /\ Follows(n, q) /\ Copies(n, q)
<1>1. CASE Ends(r)
  BY <1>1, EndsAt, IdleOK
<1>2. CASE q.next # "done" /\ Go(r, q.next, <<>>)
  <2>1. q # Idle /\ RequestOK(q) /\ Fresh(q) /\ Leads(q)
    BY AtStep DEF Relays
  <2>2. Has(q, {"at", "since", "form", "next"}) /\ Ready(q, q.next)
    BY <2>1 DEF Fresh, Leads, Has
  <2>3. PICK n : request' = [request EXCEPT ![r] = n] /\ Extended(n, q, q.next, <<>>)
    <3>1. "at" \notin DOMAIN <<>> /\ "at" \in DOMAIN q
      BY <2>2, NoMore DEF Has
    <3> QED BY <1>2, <3>1, GoTo
  <2>4. DOMAIN n = DOMAIN q /\ n.at = q.next /\ \A f \in DOMAIN q \ {"at"} : n[f] = q[f]
    BY <2>3, NoMore DEF Extended
  <2>5. n.next = q.next /\ n.since = q.since /\ n.form = q.form
    BY <2>2, <2>4 DEF Has
  <2>6. /\ Has(n, {"issued"}) <=> Has(q, {"issued"})
        /\ Has(q, {"issued"}) => n.issued = q.issued
        /\ Has(n, {"token"}) <=> Has(q, {"token"})
        /\ Has(q, {"token"}) => n.token = q.token
    BY <2>4 DEF Has
  <2>7. Ready(n, n.at)
    BY <2>2, <2>4, <2>5, ReadySame DEF Has
  <2>8. n.at \notin Relays
    BY <2>7 DEF Ready, Relays, Public, Private, Mailing, Steps
  <2>9. Stage(n)
    BY <2>7, <2>8, ReadyStage
  <2>10. n.at \in Mailing => Has(n, {"issued"})
    BY <2>1, <2>4, <2>6 DEF Leads
  <2>11. Has(n, {"token"}) => Rewrites(n)
    BY <1>2, <2>1, <2>4, <2>6 DEF RequestOK, Rewrites
  <2>12. n.at = "verify codes" => Has(n, {"token"})
    BY <2>1, <2>4, <2>6 DEF Leads
  <2>13. RequestOK(n)
    <3>1. Fresh(n)
      BY <2>1, <2>2, <2>4, <2>5 DEF Fresh, Has
    <3> QED BY <2>1, <2>6, <2>9, <2>10, <2>11, <2>12, <3>1 DEF RequestOK
  <2>14. Follows(n, q)
    <3>1. CASE n.at \notin Mailing
      BY <2>8, <3>1 DEF Follows, Place, Relays
    <3>2. CASE n.at \in Mailing
      <4>1. q.at = "list token" /\ Place(n) = q.next /\ Place(q) = q.next
        BY <2>1, <2>4, <2>8, <3>2 DEF Leads, Place, Relays
      <4>2. Goes(q) = Goes(n)
        <5>1. /\ q.next \in {"mail activation", "mail reset"} => n.email = q.email
              /\ q.next = "answer reset" => n.mailbox = q.mailbox
          BY <2>2, <2>4, ReadyAt, ReadyInside DEF Has
        <5>2. q.next = "mail change" => n.to = q.to
          BY <2>2, <2>4, ReadySignedIn DEF Has
        <5>3. q.next \in Mailing
          BY <2>4, <3>2
        <5> QED BY <2>5, <4>1, <5>1, <5>2, <5>3 DEF Goes, Mailing
      <4> QED BY <2>6, <4>1, <4>2 DEF Follows
    <3> QED BY <3>1, <3>2
  <2>15. Copies(n, q)
    BY <2>6 DEF Copies, SameKind, Has
  <2> QED BY <2>3, <2>13, <2>14, <2>15
<1> QED BY <1>1, <1>2

LEMMA DeleteTokensKeeps ==
  ASSUME IInv, UNCHANGED scenario, NEW r \in Requests, DeleteTokens(r)
  PROVE  IInv'
<1>1. PICK q : q = request[r]
  OBVIOUS
<1>2. q.at = "delete tokens" /\ Issues
  BY <1>1 DEF DeleteTokens, At
<1>3. PICK n : /\ request' = [request EXCEPT ![r] = n]
               /\ RequestOK(n) /\ Follows(n, q) /\ Copies(n, q)
  BY <1>1, <1>2, GoesNext DEF DeleteTokens
<1>4. DOMAIN tokens' = Tokens /\ \A t \in Tokens : tokens'[t] \in {NoToken, tokens[t]}
  BY DEF DeleteTokens, DeleteAllForUser, Without
<1>5. TokensStay
  BY <1>4 DEF TokensStay, SameKind
<1>6. TokensOK'
  BY <1>2, <1>4, TokensReplaced DEF Issues, history, IInv, TokensOK
<1> QED BY <1>1, <1>2, <1>3, <1>5, <1>6, TimesSame, TokenMoves DEF Issues

LEMMA ListTokenKeeps ==
  ASSUME IInv, UNCHANGED <<history, scenario>>, NEW r \in Requests, ListToken(r)
  PROVE  IInv'
<1>1. PICK q : q = request[r]
  OBVIOUS
<1>2. q.at = "list token" /\ UNCHANGED <<now, faults, users, cache>>
  BY <1>1 DEF ListToken
<1>3. PICK n : /\ request' = [request EXCEPT ![r] = n]
               /\ RequestOK(n) /\ Follows(n, q) /\ Copies(n, q)
  BY <1>1, <1>2, GoesNext DEF ListToken
<1>4. PICK t : t = q.issued
  OBVIOUS
<1>5. tokens' = IF tokens[t] = NoToken THEN tokens ELSE [tokens EXCEPT ![t].listed = TRUE]
  BY <1>1, <1>4 DEF ListToken
<1>6. CASE tokens' = tokens
  BY <1>1, <1>2, <1>3, <1>6, TimesSame, TokensSame, TokensReplaced, TokenMoves
     DEF IInv, TokensOK, history
<1>7. CASE tokens[t] # NoToken /\ tokens' = [tokens EXCEPT ![t].listed = TRUE]
  <2>1. t \in Tokens /\ DOMAIN tokens = Tokens /\ TokenOK(tokens[t])
    BY <1>1, <1>2, <1>4, <1>7, AtStep DEF RequestOK, Leads, Relays, IInv, TokensOK
  <2>2. PICK token : token = [tokens[t] EXCEPT !.listed = TRUE]
    OBVIOUS
  <2>3. TokenOK(token) /\ SameKind(token, tokens[t])
    BY <2>1, <2>2, TokenListed
  <2>4. /\ DOMAIN tokens' = Tokens /\ tokens'[t] = token
        /\ \A x \in Tokens : x # t => tokens'[x] = tokens[x]
    BY <1>7, <2>1, <2>2
  <2>5. TokensStay
    <3>1. ASSUME NEW x \in Tokens, x # t PROVE SameKind(tokens'[x], tokens[x])
      BY <2>4, <3>1 DEF SameKind
    <3> QED BY <1>7, <2>3, <2>4, <3>1 DEF TokensStay
  <2>6. TokensOK'
    BY <1>2, <2>3, <2>4, TokensReplaced DEF IInv, TokensOK, history
  <2> QED BY <1>1, <1>2, <1>3, <2>5, <2>6, TimesSame, TokenMoves
<1> QED BY <1>5, <1>6, <1>7

LEMMA CacheUserKeeps ==
  ASSUME IInv, UNCHANGED <<history, scenario>>, NEW r \in Requests, CacheUser(r)
  PROVE  IInv'
<1>1. PICK q : q = request[r]
  OBVIOUS
<1>2. q.at = "cache user" /\ UNCHANGED <<now, faults, users, tokens>>
  BY <1>1 DEF CacheUser
<1>3. PICK n : /\ request' = [request EXCEPT ![r] = n]
               /\ RequestOK(n) /\ Follows(n, q) /\ Copies(n, q)
  BY <1>1, <1>2, GoesNext DEF CacheUser
<1>4. UsersKept
  BY <1>2, UsersSame DEF history
<1>5. RequestOK(n)'
  BY <1>2, <1>3, <1>4, RequestKept
<1>6. RequestsOK' /\ IssuedOK' /\ CallersOK' /\ TimesOK'
  <2>1. RequestsOK'
    BY <1>2, <1>3, <1>4, <1>5, OneMoves DEF IInv
  <2>2. IssuedOK'
    BY <1>1, <1>2, <1>3, <1>4, <1>5, TokensSame, IssuedKept DEF IInv
  <2>3. CallersOK'
    BY <1>4, ActiveKept DEF CallersOK, IInv
  <2>4. TimesOK'
    BY <1>2, TimesSame
  <2> QED BY <2>1, <2>2, <2>3, <2>4
<1>7. UsersOK' /\ HistoriesOK' /\ TokensOK'
  <2>1. UsersOK' /\ HistoriesOK'
    BY <1>2 DEF IInv, history, UsersOK, AddressesDistinct, AddressesProved, OwnerKnown, Known, HistoriesOK,
           SignInsProved, MailboxSetsPassword
  <2>2. TokensOK'
    BY <1>2, TokensReplaced DEF history, IInv, TokensOK
  <2> QED BY <2>1, <2>2
<1>8. CopiesOK'
  <2>1. PICK u, copy : u = q.of /\ copy = q.copy
    OBVIOUS
  <2>2. /\ u \in UserIds /\ copy = [email |-> copy.email, read |-> copy.read]
        /\ copy.email \in Addresses /\ copy.read \in q.since..now
        /\ q.since \in Nat /\ q.since <= now /\ now <= q.since + 1
    <3>1. Leads(q) /\ Fresh(q)
      BY <1>1, <1>2, AtStep DEF Relays
    <3> QED BY <1>2, <2>1, <3>1 DEF Leads, Fresh, Known
  <2>3. PICK email, read : copy = [email |-> email, read |-> read]
    BY <2>2
  <2>4. email \in Addresses /\ read \in Nat /\ now <= read + 1
    <3>1. copy.email = email /\ copy.read = read
      BY <2>3
    <3> QED BY <2>2, <3>1, Bounds
  <2>5. PICK until : until = now + CacheTTL
    OBVIOUS
  <2>6. PICK row : row = Over([until |-> until], copy)
    OBVIOUS
  <2>7. row = [email |-> email, read |-> read, until |-> until]
    BY <2>3, <2>6 DEF Over
  <2>8. until \in Nat /\ until <= read + 1 + CacheTTL
    BY <2>4, <2>5, Bounds, AccountAssumptions
  <2>9. cache' = [cache EXCEPT ![u] = row]
    BY <1>1, <2>1, <2>5, <2>6 DEF CacheUser
  <2>10. /\ row \in [email : Addresses, read : Nat, until : Nat]
         /\ row.until <= row.read + 1 + CacheTTL
    BY <2>4, <2>7, <2>8
  <2> QED BY <2>2, <2>9, <2>10 DEF CopiesOK, IInv
<1> QED BY <1>6, <1>7, <1>8 DEF IInv

\* The mail of a request, or its answer, takes its token where it goes.
LEMMA MailKeeps ==
  ASSUME IInv, UNCHANGED scenario, NEW r \in Requests, NEW q, q = request[r],
         NEW at \in Mailing, NEW mailbox, mailbox = Goes(q), Mail(r, at, mailbox)
  PROVE  IInv'
<1>1. q.at = at /\ Issues /\ Ends(r)
  BY DEF Mail, At
<1>2. RequestOK(q) /\ q # Idle /\ Has(q, {"issued"}) /\ q.issued \in Tokens
  <2>1. q # Idle /\ RequestOK(q)
    BY <1>1, AtStep DEF Mailing
  <2> QED BY <1>1, <2>1 DEF RequestOK
<1>3. PICK t : t = q.issued
  OBVIOUS
<1>4. tokens' = IF tokens[t] = NoToken THEN tokens ELSE [tokens EXCEPT ![t].mailbox = mailbox]
  BY <1>3 DEF Mail, HandOver
<1>5. RequestOK(Idle) /\ Follows(Idle, q) /\ Copies(Idle, q)
      /\ request' = [request EXCEPT ![r] = Idle]
  BY <1>1, IdleOK, EndsAt
<1>6. CASE tokens' = tokens
  BY <1>1, <1>5, <1>6, TimesSame, TokensSame, TokensReplaced, TokenMoves
     DEF IInv, TokensOK, history, Issues
<1>7. CASE tokens[t] # NoToken /\ tokens' = [tokens EXCEPT ![t].mailbox = mailbox]
  <2>1. t \in Tokens /\ DOMAIN tokens = Tokens /\ TokenOK(tokens[t])
    BY <1>2, <1>3, <1>7 DEF IInv, TokensOK
  <2>2. Belongs(tokens[t], mailbox)
    <3>1. Fits(q, tokens[t])
      BY <1>2, <1>3, <1>7 DEF IInv, IssuedOK
    <3>2. Place(q) \in Mailing
      BY <1>1 DEF Place, Mailing
    <3> QED BY <3>1, <3>2 DEF Fits
  <2>3. PICK token : token = [tokens[t] EXCEPT !.mailbox = mailbox]
    OBVIOUS
  <2>4. TokenOK(token) /\ SameKind(token, tokens[t])
    BY <2>1, <2>2, <2>3, TokenSent
  <2>5. /\ DOMAIN tokens' = Tokens /\ tokens'[t] = token
        /\ \A x \in Tokens : x # t => tokens'[x] = tokens[x]
    BY <1>7, <2>1, <2>3
  <2>6. TokensStay
    <3>1. ASSUME NEW x \in Tokens, x # t PROVE SameKind(tokens'[x], tokens[x])
      BY <2>5, <3>1 DEF SameKind
    <3> QED BY <1>7, <2>4, <2>5, <3>1 DEF TokensStay
  <2>7. TokensOK'
    BY <1>1, <2>4, <2>5, TokensReplaced DEF IInv, TokensOK, history, Issues
  <2> QED BY <1>1, <1>5, <2>6, <2>7, TimesSame, TokenMoves DEF Issues
<1> QED BY <1>4, <1>6, <1>7

LEMMA MailsKeep ==
  ASSUME IInv, UNCHANGED scenario, NEW r \in Requests,
         MailActivation(r) \/ AnswerReset(r) \/ AnswerToken(r) \/ MailReset(r)
           \/ AnswerSettingsToken(r) \/ MailChange(r)
  PROVE  IInv'
<1>1. PICK q : q = request[r]
  OBVIOUS
<1>2. PICK at, mailbox : at \in Mailing /\ q.at = at /\ Mail(r, at, mailbox) /\ mailbox = Goes(q)
  BY <1>1 DEF MailActivation, AnswerReset, AnswerToken, MailReset, AnswerSettingsToken, MailChange,
              Mail, At, Form, Mailing, Goes, Place
<1> QED BY <1>1, <1>2, MailKeeps

\* A new token belongs where the request that issues it is going to send it.
BelongsAt(to, scope, u, data) ==
  \A token : token.scope = scope /\ token.user = u /\ token.data = data => Belongs(token, to)

Heads(q, at, to) ==
  \A n : (/\ n.at = "list token" /\ n.next = at
          /\ DOMAIN q \subseteq DOMAIN n
          /\ \A f \in DOMAIN q \ {"at", "next", "issued"} : n[f] = q[f]) => Goes(n) = to

LEMMA IssueKeeps ==
  ASSUME IInv, Issues, UNCHANGED scenario, NEW r \in Requests, NEW q, q = request[r],
         q # Idle, ~Has(q, {"token"}),
         NEW scope \in Scopes, NEW u \in Known, NEW data, DataOK(scope, data),
         scope = "change_email" => Active(u),
         NEW at \in Mailing, Ready(q, at), Issue(r, scope, u, data, at),
         NEW to, BelongsAt(to, scope, u, data), Heads(q, at, to)
  PROVE  IInv'
<1>1. RequestOK(q) /\ Fresh(q) /\ Has(q, {"at", "since", "form"})
  BY DEF IInv, RequestsOK, RequestOK, Fresh
<1>2. PICK new : new = [scope |-> scope, user |-> u, data |-> data, listed |-> FALSE, mailbox |-> "none"]
  OBVIOUS
<1>3. PICK t \in Free : /\ tokens' = [tokens EXCEPT ![t] = new]
                        /\ Go(r, "list token", [issued |-> t, next |-> at])
  BY <1>2 DEF Issue
<1>4. t \in Tokens /\ \A s \in Requests : ~Knows(s, t)
  <2>1. scenario.tokens \subseteq Tokens
    BY ScenarioAssumption DEF IInv, TimesOK
  <2> QED BY <2>1 DEF Free
<1>5. PICK n : /\ request' = [request EXCEPT ![r] = n]
               /\ Extended(n, q, "list token", [issued |-> t, next |-> at])
  BY <1>1, <1>3, GoTo DEF Has
<1>6. /\ n.at = "list token" /\ n.next = at /\ n.issued = t /\ n.since = q.since /\ n.form = q.form
      /\ Has(n, {"at", "since", "form", "next", "issued"}) /\ ~Has(n, {"token"})
      /\ DOMAIN q \subseteq DOMAIN n
      /\ \A f \in DOMAIN q \ {"at", "next", "issued"} : n[f] = q[f]
  BY <1>1, <1>5 DEF Extended, Has
<1>7. RequestOK(n)
  <2>1. Ready(n, at)
    BY <1>1, <1>6, ReadySame DEF Mailing, Has
  <2>2. Leads(n)
    BY <1>6, <2>1 DEF Leads, Mailing, Has
  <2>3. Stage(n)
    BY <1>6, <2>2 DEF Stage, Relays
  <2>4. Fresh(n)
    BY <1>1, <1>6 DEF Fresh, Has
  <2> QED BY <1>4, <1>6, <2>3, <2>4 DEF RequestOK, Mailing
<1>8. UsersKept /\ UNCHANGED <<now, faults, users, cache, proved, signIns, resets>>
  BY UsersSame DEF Issues, history
<1>9. RequestOK(n)'
  BY <1>7, <1>8, RequestKept
<1>10. RequestsOK'
  BY <1>5, <1>8, <1>9, OneMoves DEF IInv
<1>11. /\ DOMAIN tokens' = Tokens /\ tokens'[t] = new
       /\ \A x \in Tokens : x # t => tokens'[x] = tokens[x]
  BY <1>3, <1>4 DEF IInv, TokensOK
<1>12. TokensOK'
  <2>1. /\ new.scope = scope /\ new.user = u /\ new.data = data /\ new.listed = FALSE
        /\ new.mailbox = "none"
    BY <1>2
  <2>2. TokenOK(new)
    BY <1>2, <2>1 DEF TokenOK
  <2> QED BY <1>8, <1>11, <2>2, TokensReplaced DEF IInv, TokensOK
<1>13. IssuedOK'
  <2> SUFFICES ASSUME NEW s \in Requests, NEW p, p = request'[s], Has(p, {"issued"}),
                      NEW x, x = p.issued
               PROVE  /\ \A token : token = tokens'[x] /\ token # NoToken => Fits(p, token)'
                      /\ \A z \in Requests : \A m, token :
                           m = request'[z] /\ Has(m, {"issued", "token"}) /\ m.issued = x /\ token = m.token =>
                             Fits(p, token)'
    BY IssuedNext
  <2>1. DOMAIN request = Requests /\ request'[r] = n /\ \A z \in Requests : z # r => request'[z] = request[z]
    BY <1>5 DEF IInv, RequestsOK
  <2>2. CASE s = r
    <3>1. p = n /\ x = t
      BY <1>6, <2>1, <2>2
    <3>2. ASSUME NEW token, token = tokens'[x] PROVE Fits(p, token)'
      <4>1. token.scope = scope /\ token.user = u /\ token.data = data
        <5>1. token = new
          BY <1>11, <3>1, <3>2
        <5> QED BY <1>2, <5>1
      <4>2. Belongs(token, to) /\ Goes(n) = to
        BY <1>6, <4>1 DEF BelongsAt, Heads
      <4>3. Fits(p, token)
        BY <3>1, <4>2 DEF Fits
      <4> QED BY <1>8, <4>3, FitsKept
    <3>3. ASSUME NEW z \in Requests, NEW m, m = request'[z], Has(m, {"issued", "token"}), m.issued = x
          PROVE  FALSE
      <4>1. z # r
        BY <1>6, <2>1, <3>3 DEF Has
      <4>2. Knows(z, t)
        BY <2>1, <3>1, <3>3, <4>1 DEF Knows, Has
      <4> QED BY <1>4, <4>2
    <3> QED BY <3>2, <3>3
  <2>3. CASE s # r
    <3>1. p = request[s] /\ x # t
      BY <1>4, <2>1, <2>3 DEF Knows, Has
    <3>2. x \in Tokens
      <4>1. RequestOK(p) /\ p # Idle
        BY <3>1 DEF IInv, RequestsOK, Has, Idle
      <4> QED BY <4>1 DEF RequestOK
    <3>3. ASSUME NEW token, token = tokens'[x], token # NoToken PROVE Fits(p, token)'
      <4>1. Fits(p, token)
        BY <1>11, <3>1, <3>2, <3>3 DEF IInv, IssuedOK
      <4> QED BY <1>8, <4>1, FitsKept
    <3>4. ASSUME NEW z \in Requests, NEW m, m = request'[z], Has(m, {"issued", "token"}), m.issued = x,
                 NEW token, token = m.token
          PROVE  Fits(p, token)'
      <4>1. z # r /\ m = request[z]
        BY <1>6, <2>1, <3>4 DEF Has
      <4>2. Fits(p, token)
        BY <3>1, <3>4, <4>1 DEF IInv, IssuedOK, Knows, Has
      <4> QED BY <1>8, <4>2, FitsKept
    <3> QED BY <3>3, <3>4
  <2> QED BY <2>2, <2>3
<1>14. UsersOK' /\ HistoriesOK' /\ CopiesOK' /\ CallersOK' /\ TimesOK'
  <2>1. CallersOK'
    BY <1>8, ActiveKept DEF CallersOK, IInv
  <2>2. UsersOK' /\ HistoriesOK' /\ CopiesOK' /\ TimesOK'
    BY <1>8 DEF IInv, UsersOK, AddressesDistinct, AddressesProved, OwnerKnown, Known, HistoriesOK,
           SignInsProved, MailboxSetsPassword, CopiesOK, TimesOK
  <2> QED BY <2>1, <2>2
<1> QED BY <1>10, <1>12, <1>13, <1>14 DEF IInv

\* A token that is written back fits whoever may send it.
LEMMA SetTokenKeeps ==
  ASSUME IInv, UNCHANGED <<history, scenario>>, NEW r \in Requests, SetToken(r)
  PROVE  IInv'
<1>1. PICK q : q = request[r]
  OBVIOUS
<1>2. q.at = "set token" /\ UNCHANGED <<now, faults, users, cache>>
  BY <1>1 DEF SetToken
<1>3. q # Idle /\ RequestOK(q) /\ Fresh(q) /\ Leads(q)
  BY <1>1, <1>2, AtStep DEF Relays
<1>4. /\ Has(q, {"at", "since", "form", "next", "issued", "token"}) /\ q.issued \in Tokens
      /\ q.next \in {"done", "disable 2fa and end"} /\ Ready(q, q.next)
      /\ Rewrites(q) /\ TokenOK(q.token)
  BY <1>2, <1>3 DEF RequestOK, Fresh, Leads, Rewrites, Has
<1>5. PICK t, old : t = q.issued /\ old = q.token
  OBVIOUS
<1>6. PICK listed \in BOOLEAN : listed = (tokens[t] # NoToken /\ tokens[t].listed)
  <2>1. tokens[t] # NoToken => tokens[t].listed \in BOOLEAN
    BY <1>4, <1>5 DEF IInv, TokensOK, TokenOK
  <2> QED BY <2>1
<1>7. PICK token : token = [old EXCEPT !.listed = listed]
  OBVIOUS
<1>8. TokenOK(token) /\ SameKind(token, old)
  BY <1>4, <1>5, <1>7, TokenListed
<1>9. /\ DOMAIN tokens' = Tokens /\ tokens'[t] = token
      /\ \A x \in Tokens : x # t => tokens'[x] = tokens[x]
  BY <1>1, <1>4, <1>5, <1>6, <1>7 DEF SetToken, IInv, TokensOK
<1>10. PICK n : request' = [request EXCEPT ![r] = n] /\ Extended(n, q, "list token", <<>>)
  <2>1. "at" \notin DOMAIN <<>> /\ "at" \in DOMAIN q
    BY <1>4, NoMore DEF Has
  <2> QED BY <1>1, <2>1, GoTo DEF SetToken
<1>11. /\ DOMAIN n = DOMAIN q /\ n.at = "list token" /\ n.next = q.next /\ n.since = q.since
       /\ n.form = q.form /\ n.issued = t /\ n.token = old
       /\ \A f \in DOMAIN q \ {"at"} : n[f] = q[f]
  BY <1>4, <1>5, <1>10, NoMore DEF Extended, Has
<1>12. RequestOK(n)
  <2>1. Ready(n, n.next)
    BY <1>4, <1>11, ReadySame DEF Has
  <2>2. Leads(n)
    BY <1>4, <1>11, <2>1 DEF Leads, Mailing, Has
  <2>3. Stage(n)
    BY <1>11, <2>2 DEF Stage, Relays
  <2>4. Fresh(n)
    BY <1>3, <1>11 DEF Fresh, Has
  <2>5. Rewrites(n)
    BY <1>4, <1>5, <1>11 DEF Rewrites, Has
  <2> QED BY <1>4, <1>5, <1>11, <2>3, <2>4, <2>5 DEF RequestOK, Mailing, Has
<1>13. UsersKept /\ UNCHANGED <<proved, signIns, resets>>
  BY <1>2, UsersSame DEF history
<1>14. RequestOK(n)'
  BY <1>2, <1>12, <1>13, RequestKept
<1>15. RequestsOK'
  BY <1>2, <1>10, <1>13, <1>14, OneMoves DEF IInv
<1>16. TokensOK'
  BY <1>2, <1>8, <1>9, <1>13, TokensReplaced DEF IInv, TokensOK
<1>17. IssuedOK'
  <2> SUFFICES ASSUME NEW s \in Requests, NEW p, p = request'[s], Has(p, {"issued"}),
                      NEW x, x = p.issued
               PROVE  /\ \A k : k = tokens'[x] /\ k # NoToken => Fits(p, k)'
                      /\ \A z \in Requests : \A m, k :
                           m = request'[z] /\ Has(m, {"issued", "token"}) /\ m.issued = x /\ k = m.token =>
                             Fits(p, k)'
    BY IssuedNext
  <2>1. DOMAIN request = Requests /\ request'[r] = n /\ \A z \in Requests : z # r => request'[z] = request[z]
    BY <1>10 DEF IInv, RequestsOK
  <2>2. CASE s = r
    <3>1. Place(p) \notin Mailing
      BY <1>4, <1>11, <2>1, <2>2 DEF Place, Mailing
    <3> QED BY <3>1 DEF Fits
  <2>3. CASE s # r
    <3>1. p = request[s]
      BY <2>1, <2>3
    <3>2. x \in Tokens
      <4>1. RequestOK(p) /\ p # Idle
        BY <3>1 DEF IInv, RequestsOK, Has, Idle
      <4> QED BY <4>1 DEF RequestOK
    <3>3. ASSUME NEW k, k = tokens'[x], k # NoToken PROVE Fits(p, k)'
      <4>1. CASE x # t
        <5>1. Fits(p, k)
          BY <1>9, <3>1, <3>2, <3>3, <4>1 DEF IInv, IssuedOK
        <5> QED BY <1>13, <5>1, FitsKept
      <4>2. CASE x = t
        <5>1. Fits(p, old)
          BY <1>1, <1>4, <1>5, <3>1, <4>2 DEF IInv, IssuedOK, Knows, Has
        <5>2. Fits(p, k)
          BY <1>8, <1>9, <3>3, <4>2, <5>1, FitsKind
        <5> QED BY <1>13, <5>2, FitsKept
      <4> QED BY <4>1, <4>2
    <3>4. ASSUME NEW z \in Requests, NEW m, m = request'[z], Has(m, {"issued", "token"}), m.issued = x,
                 NEW k, k = m.token
          PROVE  Fits(p, k)'
      <4>1. Has(request[z], {"issued", "token"}) /\ request[z].issued = x /\ request[z].token = k
        BY <1>1, <1>4, <1>5, <1>11, <2>1, <3>4 DEF Has
      <4>2. Fits(p, k)
        BY <3>1, <4>1 DEF IInv, IssuedOK, Knows, Has
      <4> QED BY <1>13, <4>2, FitsKept
    <3> QED BY <3>3, <3>4
  <2> QED BY <2>2, <2>3
<1>18. UsersOK' /\ HistoriesOK' /\ CopiesOK' /\ CallersOK' /\ TimesOK'
  <2>1. CallersOK'
    BY <1>13, ActiveKept DEF CallersOK, IInv
  <2>2. UsersOK' /\ HistoriesOK' /\ CopiesOK' /\ TimesOK'
    BY <1>2, <1>13 DEF IInv, UsersOK, AddressesDistinct, AddressesProved, OwnerKnown, Known, HistoriesOK,
           SignInsProved, MailboxSetsPassword, CopiesOK, TimesOK
  <2> QED BY <2>1, <2>2
<1> QED BY <1>15, <1>16, <1>17, <1>18 DEF IInv

LEMMA IssuesReads ==
  ASSUME Issues, UNCHANGED tokens
  PROVE  Reads
BY DEF Issues, Reads

LEMMA SendActivationKeeps ==
  ASSUME IInv, UNCHANGED scenario, NEW r \in Requests, SendActivation(r)
  PROVE  IInv'
<1>1. PICK q : q = request[r]
  OBVIOUS
<1>2. PICK u, email : u = q.of /\ email = q.email
  OBVIOUS
<1>3. q.at = "send activation" /\ Issues /\ Issue(r, "activation", u, <<>>, "mail activation")
  BY <1>1, <1>2 DEF SendActivation, At
<1>4. q # Idle /\ RequestOK(q) /\ Ready(q, q.at) /\ ~Has(q, {"token"})
  BY <1>1, <1>3, AtStep, Plainly DEF Relays
<1>5. Has(q, {"of", "email"}) /\ Owned(u, email) /\ u \in Known
  BY <1>2, <1>3, <1>4, ReadyInside DEF Owned
<1>6. Ready(q, "mail activation")
  BY <1>2, <1>5, ReadyInside
<1>7. DataOK("activation", <<>>)
  BY DEF DataOK
<1>8. BelongsAt(email, "activation", u, <<>>)
  BY <1>5 DEF BelongsAt, Belongs
<1>9. Heads(q, "mail activation", email)
  BY <1>2, <1>5 DEF Heads, Goes, Place, Has
<1>10. "activation" \in Scopes /\ "mail activation" \in Mailing
  BY DEF Scopes, Mailing
<1> QED BY <1>1, <1>3, <1>4, <1>5, <1>6, <1>7, <1>8, <1>9, <1>10, IssueKeeps

LEMMA ForceResetKeeps ==
  ASSUME IInv, UNCHANGED scenario, NEW r \in Requests, ForceReset(r)
  PROVE  IInv'
<1>1. PICK q : q = request[r]
  OBVIOUS
<1>2. PICK u, email, data : u = q.of /\ email = q.email /\ data = Reset(email, FALSE)
  OBVIOUS
<1>3. q.at = "force reset" /\ Issues /\ Issue(r, "forget_password", u, data, "answer reset")
  BY <1>1, <1>2 DEF ForceReset, At
<1>4. q # Idle /\ RequestOK(q) /\ Ready(q, q.at) /\ ~Has(q, {"token"})
  BY <1>1, <1>3, AtStep, Plainly DEF Relays
<1>5. Has(q, {"of", "email", "mailbox"}) /\ Owned(u, email) /\ u \in Known /\ q.mailbox = email
  BY <1>2, <1>3, <1>4, ReadyInside DEF Owned
<1>6. Ready(q, "answer reset")
  BY <1>2, <1>5, ReadyInside
<1>7. DataOK("forget_password", data) /\ data.email = email
  BY <1>2, <1>5 DEF DataOK, Reset, Owned, Has
<1>8. BelongsAt(email, "forget_password", u, data)
  BY <1>7, NamesItself DEF BelongsAt, Belongs
<1>9. Heads(q, "answer reset", email)
  BY <1>5 DEF Heads, Goes, Place, Has
<1>10. "forget_password" \in Scopes /\ "answer reset" \in Mailing
  BY DEF Scopes, Mailing
<1> QED BY <1>1, <1>3, <1>4, <1>5, <1>6, <1>7, <1>8, <1>9, <1>10, IssueKeeps

LEMMA AskForCodeKeeps ==
  ASSUME IInv, UNCHANGED scenario, NEW r \in Requests, AskForCode(r)
  PROVE  IInv'
<1>1. PICK q : q = request[r]
  OBVIOUS
<1>2. PICK u : u = q.of
  OBVIOUS
<1>3. q.at = "ask for code" /\ Issues /\ Issue(r, "login_2fa", u, <<>>, "answer token")
  BY <1>1, <1>2 DEF AskForCode, At
<1>4. q # Idle /\ RequestOK(q) /\ Ready(q, q.at) /\ ~Has(q, {"token"})
  BY <1>1, <1>3, AtStep, Plainly DEF Relays
<1>5. u \in Known /\ Ready(q, "answer token")
  BY <1>2, <1>3, <1>4, ReadyInside
<1>6. DataOK("login_2fa", <<>>)
  BY DEF DataOK
<1>7. BelongsAt("password", "login_2fa", u, <<>>)
  BY DEF BelongsAt, Belongs
<1>8. Heads(q, "answer token", "password")
  BY DEF Heads, Goes, Place
<1>9. "login_2fa" \in Scopes /\ "answer token" \in Mailing
  BY DEF Scopes, Mailing
<1> QED BY <1>1, <1>3, <1>4, <1>5, <1>6, <1>7, <1>8, <1>9, IssueKeeps

LEMMA ForgetPasswordKeeps ==
  ASSUME IInv, UNCHANGED scenario, NEW r \in Requests, ForgetPassword(r)
  PROVE  IInv'
<1>1. PICK q : q = request[r]
  OBVIOUS
<1>2. q.at = "forgetPassword" /\ Reads
  BY <1>1 DEF ForgetPassword, At
<1>3. q # Idle /\ RequestOK(q) /\ Ready(q, q.at) /\ ~Has(q, {"token"})
  BY <1>1, <1>2, AtStep, Plainly DEF Relays
<1>4. q.form.email \in Addresses /\ Has(q, {"form"})
  BY <1>2, <1>3, ReadyAt DEF RequestOK, Fresh, Has
<1>5. CASE Ends(r)
  BY <1>2, <1>5, EndKeeps
<1>6. ASSUME NEW u \in GetByEmail(q.form.email), NEW email, email = users[u].email, NEW twoFactor,
             Go(r, "issue reset", [of |-> u, email |-> email, twoFactor |-> twoFactor])
      PROVE  IInv'
  <2>1. u \in Known /\ email \in Named(q.form.email)
    BY <1>6 DEF GetByEmail, Named
  <2>2. ASSUME NEW n, Extended(n, q, "issue reset", [of |-> u, email |-> email, twoFactor |-> twoFactor])
        PROVE  Stage(n)
    <3>1. /\ n.at = "issue reset" /\ Has(n, {"of", "email"}) /\ n.of = u /\ n.email = email
          /\ n.form = q.form
      BY <1>4, <2>2 DEF Extended, Has
    <3> QED BY <1>4, <2>1, <3>1, ReadyInside, ReadyStage DEF Relays
  <2> QED BY <1>1, <1>2, <1>3, <1>6, <2>2, GoKeeps DEF Mailing
<1> QED BY <1>1, <1>5, <1>6 DEF ForgetPassword, Form

LEMMA IssueResetKeeps ==
  ASSUME IInv, UNCHANGED scenario, NEW r \in Requests, IssueReset(r)
  PROVE  IInv'
<1>1. PICK q : q = request[r]
  OBVIOUS
<1>2. PICK u, data : u = q.of /\ data = Reset(q.form.email, q.twoFactor)
  OBVIOUS
<1>3. q.at = "issue reset" /\ Issues /\ Issue(r, "forget_password", u, data, "mail reset")
  BY <1>1, <1>2 DEF IssueReset, At, Form
<1>4. q # Idle /\ RequestOK(q) /\ Ready(q, q.at) /\ ~Has(q, {"token"})
  BY <1>1, <1>3, AtStep, Plainly DEF Relays
<1>5. /\ Has(q, {"of", "email"}) /\ u \in Known
      /\ q.form.email \in Addresses /\ q.email \in Named(q.form.email)
  BY <1>2, <1>3, <1>4, ReadyInside
<1>6. Ready(q, "mail reset")
  BY <1>5, ReadyAt DEF Has
<1>7. DataOK("forget_password", data) /\ data.email = q.form.email
  BY <1>2, <1>5 DEF DataOK, Reset, Has
<1>8. BelongsAt(q.email, "forget_password", u, data)
  BY <1>5, <1>7 DEF BelongsAt, Belongs
<1>9. Heads(q, "mail reset", q.email)
  BY <1>5 DEF Heads, Goes, Place, Has
<1>10. "forget_password" \in Scopes /\ "mail reset" \in Mailing
  BY DEF Scopes, Mailing
<1> QED BY <1>1, <1>3, <1>4, <1>5, <1>6, <1>7, <1>8, <1>9, <1>10, IssueKeeps

\* A code is asked of somebody signed in.
LEMMA Asks2faKeeps ==
  ASSUME IInv, Issues, UNCHANGED scenario, NEW r \in Requests, NEW q, q = request[r],
         q # Idle, ~Has(q, {"token"}), SignedIn(q),
         NEW scope \in {"change_password_2fa", "change_email_2fa"}, NEW data, DataOK(scope, data),
         Asks2fa(r, scope, data)
  PROVE  IInv'
<1>1. PICK u : u = q.me.id
  OBVIOUS
<1>2. u \in Known /\ Ready(q, "answer settings token")
  BY <1>1, ReadySignedIn DEF SignedIn, Active
<1>3. Issue(r, scope, u, data, "answer settings token")
  BY <1>1 DEF Asks2fa
<1>4. BelongsAt("session", scope, u, data)
  BY DEF BelongsAt, Belongs
<1>5. Heads(q, "answer settings token", "session")
  BY DEF Heads, Goes, Place
<1>6. scope \in Scopes /\ scope # "change_email" /\ "answer settings token" \in Mailing
  BY DEF Scopes, Mailing
<1> QED BY <1>2, <1>3, <1>4, <1>5, <1>6, IssueKeeps

LEMMA MayChangePasswordKeeps ==
  ASSUME IInv, UNCHANGED scenario, NEW r \in Requests, MayChangePassword(r)
  PROVE  IInv'
<1>1. PICK q : q = request[r]
  OBVIOUS
<1>2. PICK new, email : new = q.form.password /\ email = q.me.email
  OBVIOUS
<1>3. q.at = "change password" /\ Issues
  BY <1>1 DEF MayChangePassword, At
<1>4. q # Idle /\ RequestOK(q) /\ Ready(q, q.at) /\ ~Has(q, {"token"})
  BY <1>1, <1>3, AtStep, Plainly DEF Relays
<1>5. SignedIn(q) /\ new \in Passwords
  BY <1>2, <1>3, <1>4, ReadySignedIn
<1>6. CASE Asks2fa(r, "change_password_2fa", [email |-> email, password |-> new])
  <2>1. DataOK("change_password_2fa", [email |-> email, password |-> new])
    BY <1>5 DEF DataOK
  <2> QED BY <1>1, <1>3, <1>4, <1>5, <1>6, <2>1, Asks2faKeeps
<1>7. CASE Go(r, "store password", [new |-> new, next |-> "done"]) /\ UNCHANGED tokens
  <2>1. ASSUME NEW n, Extended(n, q, "store password", [new |-> new, next |-> "done"])
        PROVE  Stage(n)
    <3>1. /\ n.at = "store password" /\ Has(n, {"me", "new", "next"}) /\ n.me = q.me
          /\ n.new = new /\ n.next = "done"
      BY <1>5, <2>1 DEF Extended, SignedIn, Has
    <3>2. SignedIn(n)
      BY <1>5, <3>1 DEF SignedIn, Has
    <3> QED BY <1>5, <3>1, <3>2, ReadySignedIn, ReadyStage DEF Relays, Has
  <2> QED BY <1>1, <1>3, <1>4, <1>7, <2>1, IssuesReads, GoKeeps DEF Mailing
<1> QED BY <1>1, <1>2, <1>6, <1>7 DEF MayChangePassword, Form

LEMMA LookForAddressKeeps ==
  ASSUME IInv, UNCHANGED scenario, NEW r \in Requests, LookForAddress(r)
  PROVE  IInv'
<1>1. PICK q : q = request[r]
  OBVIOUS
<1>2. PICK to : to = q.form.email
  OBVIOUS
<1>3. q.at = "look for address" /\ Issues
  BY <1>1 DEF LookForAddress, At
<1>4. q # Idle /\ RequestOK(q) /\ Ready(q, q.at) /\ ~Has(q, {"token"})
  BY <1>1, <1>3, AtStep, Plainly DEF Relays
<1>5. SignedIn(q) /\ to \in Addresses
  BY <1>2, <1>3, <1>4, ReadySignedIn
<1>6. CASE Ends(r) /\ UNCHANGED tokens
  BY <1>3, <1>6, IssuesReads, EndKeeps
<1>7. CASE Asks2fa(r, "change_email_2fa", [email |-> to])
  <2>1. DataOK("change_email_2fa", [email |-> to])
    BY <1>5 DEF DataOK
  <2> QED BY <1>1, <1>3, <1>4, <1>5, <1>7, <2>1, Asks2faKeeps
<1>8. CASE Go(r, "send change", [to |-> to]) /\ UNCHANGED tokens
  <2>1. ASSUME NEW n, Extended(n, q, "send change", [to |-> to])
        PROVE  Stage(n)
    <3>1. n.at = "send change" /\ Has(n, {"me", "to"}) /\ n.me = q.me /\ n.to = to
      BY <1>5, <2>1 DEF Extended, SignedIn, Has
    <3>2. SignedIn(n)
      BY <1>5, <3>1 DEF SignedIn, Has
    <3> QED BY <1>5, <3>1, <3>2, ReadySignedIn, ReadyStage DEF Relays, Has
  <2> QED BY <1>1, <1>3, <1>4, <1>8, <2>1, IssuesReads, GoKeeps DEF Mailing
<1> QED BY <1>1, <1>2, <1>6, <1>7, <1>8 DEF LookForAddress, Form

LEMMA SendEmailChangeTokenKeeps ==
  ASSUME IInv, UNCHANGED scenario, NEW r \in Requests, SendEmailChangeToken(r)
  PROVE  IInv'
<1>1. PICK q : q = request[r]
  OBVIOUS
<1>2. PICK u, to : u = q.me.id /\ to = q.to
  OBVIOUS
<1>3. q.at = "send change" /\ Issues /\ Issue(r, "change_email", u, [email |-> to], "mail change")
  BY <1>1, <1>2 DEF SendEmailChangeToken, At
<1>4. q # Idle /\ RequestOK(q) /\ Ready(q, q.at) /\ ~Has(q, {"token"})
  BY <1>1, <1>3, AtStep, Plainly DEF Relays
<1>5. SignedIn(q) /\ Has(q, {"to"}) /\ to \in Addresses /\ Ready(q, "mail change")
  BY <1>2, <1>3, <1>4, ReadySignedIn
<1>6. Active(u) /\ u \in Known
  BY <1>2, <1>5 DEF SignedIn, Active
<1>7. DataOK("change_email", [email |-> to])
  BY <1>5 DEF DataOK
<1>8. BelongsAt(to, "change_email", u, [email |-> to])
  BY DEF BelongsAt, Belongs
<1>9. Heads(q, "mail change", to)
  BY <1>2, <1>5 DEF Heads, Goes, Place, Has
<1>10. "change_email" \in Scopes /\ "mail change" \in Mailing
  BY DEF Scopes, Mailing
<1> QED BY <1>1, <1>3, <1>4, <1>5, <1>6, <1>7, <1>8, <1>9, <1>10, IssueKeeps

-----------------------------------------------------------------------------
(* Steps of no request.                                                    *)

LEMMA IssuedStays ==
  ASSUME RequestsOK, IssuedOK, UsersKept, UNCHANGED request, TokensStay
  PROVE  IssuedOK'
<1> SUFFICES ASSUME NEW s \in Requests, NEW q, q = request'[s], Has(q, {"issued"}),
                    NEW t, t = q.issued
             PROVE  /\ \A token : token = tokens'[t] /\ token # NoToken => Fits(q, token)'
                    /\ \A x \in Requests : \A p, token :
                         p = request'[x] /\ Has(p, {"issued", "token"}) /\ p.issued = t /\ token = p.token =>
                           Fits(q, token)'
  BY IssuedNext
<1>1. q = request[s] /\ t \in Tokens
  <2>1. q = request[s]
    OBVIOUS
  <2>2. RequestOK(q) /\ q # Idle
    BY <2>1 DEF RequestsOK, Has, Idle
  <2> QED BY <2>1, <2>2 DEF RequestOK
<1>2. ASSUME NEW token, token = tokens'[t], token # NoToken PROVE Fits(q, token)'
  <2>1. Fits(q, tokens[t]) /\ SameKind(token, tokens[t])
    BY <1>1, <1>2 DEF IssuedOK, TokensStay
  <2>2. Fits(q, token)
    BY <2>1, FitsKind
  <2> QED BY <2>2, FitsKept
<1>3. ASSUME NEW x \in Requests, NEW p, p = request'[x], Has(p, {"issued", "token"}), p.issued = t,
             NEW token, token = p.token
      PROVE  Fits(q, token)'
  <2>1. Fits(q, token)
    BY <1>1, <1>3 DEF IssuedOK, Knows, Has
  <2> QED BY <2>1, FitsKept
<1> QED BY <1>2, <1>3

\* A request is cut off.
LEMMA StopKeeps ==
  ASSUME IInv, UNCHANGED <<history, scenario>>, NEW r \in Requests, Stop(r)
  PROVE  IInv'
<1>1. UNCHANGED <<now, users, cache>> /\ request' = [request EXCEPT ![r] = Idle]
  BY EndsAt DEF Stop
<1>2. TimesOK'
  <2>1. now' = now /\ faults < scenario.faults /\ faults' = faults + 1
    BY DEF Stop, Fault
  <2> QED BY <2>1, Bounds DEF IInv, TimesOK
<1>3. DOMAIN tokens' = Tokens /\ \A t \in Tokens : tokens'[t] \in {NoToken, tokens[t]}
  BY DEF Stop, Without, IInv, TokensOK
<1>4. TokensStay
  BY <1>3 DEF TokensStay, SameKind
<1>5. TokensOK'
  BY <1>1, <1>3, TokensReplaced DEF history, IInv, TokensOK
<1> QED BY <1>1, <1>2, <1>4, <1>5, IdleOK, TokenMoves

LEMMA ExpireKeeps ==
  ASSUME IInv, UNCHANGED <<history, scenario>>, NEW t \in Tokens, Expire(t)
  PROVE  IInv'
<1>1. UNCHANGED <<now, users, cache, request>>
  BY DEF Expire
<1>2. TimesOK'
  BY Bounds DEF Expire, Fault, IInv, TimesOK
<1>3. /\ DOMAIN tokens' = Tokens
      /\ \A x \in Tokens : \/ tokens'[x] \in {NoToken, tokens[x]}
                           \/ tokens[x] # NoToken /\ tokens'[x] = [tokens[x] EXCEPT !.listed = FALSE]
  BY DEF Expire, Without, Listed, IInv, TokensOK
<1>4. ASSUME NEW x \in Tokens, NEW token, token = tokens'[x], token # NoToken
      PROVE  TokenOK(token) /\ tokens[x] # NoToken /\ SameKind(token, tokens[x])
  <2>1. CASE token = tokens[x]
    BY <1>4, <2>1 DEF IInv, TokensOK, SameKind
  <2>2. CASE tokens[x] # NoToken /\ token = [tokens[x] EXCEPT !.listed = FALSE]
    BY <2>2, TokenListed DEF IInv, TokensOK
  <2> QED BY <1>3, <1>4, <2>1, <2>2
<1>5. TokensStay
  BY <1>4 DEF TokensStay
<1>6. TokensOK'
  BY <1>1, <1>3, <1>4, TokensReplaced DEF history
<1>7. UsersKept
  BY <1>1, UsersSame DEF history
<1>8. RequestsOK'
  BY <1>1, <1>7, RequestKept DEF IInv, RequestsOK
<1>9. IssuedOK' /\ CallersOK'
  BY <1>1, <1>5, <1>7, IssuedStays, ActiveKept DEF IInv, CallersOK
<1>10. UsersOK' /\ HistoriesOK' /\ CopiesOK'
  BY <1>1 DEF IInv, history, UsersOK, AddressesDistinct, AddressesProved, OwnerKnown, Known, HistoriesOK,
         SignInsProved, MailboxSetsPassword, CopiesOK
<1> QED BY <1>2, <1>6, <1>8, <1>9, <1>10 DEF IInv

\* A period ends when no request is older than it.
LEMMA TickKeeps ==
  ASSUME IInv, UNCHANGED <<history, scenario>>, Tick
  PROVE  IInv'
<1>1. UNCHANGED <<faults, users, cache, tokens, request>> /\ now' = now + 1 /\ now < scenario.periods
  BY DEF Tick
<1>2. TimesOK'
  BY <1>1, Bounds DEF IInv, TimesOK
<1>3. UsersKept
  BY <1>1, UsersSame DEF history
<1>4. ASSUME NEW r \in Requests, NEW q, q = request'[r] PROVE RequestOK(q)'
  <2>1. q = request[r] /\ RequestOK(q)
    BY <1>1, <1>4 DEF IInv, RequestsOK
  <2>2. CASE q = Idle
    BY <2>2 DEF RequestOK
  <2>3. CASE q # Idle
    <3>1. q.since = now /\ now \in Nat /\ q.since <= now'
      BY <1>1, <2>1, <2>3, Bounds DEF Tick
    <3>2. Fresh(q)'
      <4>1. now' <= q.since + 1
        BY <1>1, <3>1
      <4> QED BY <2>1, <2>3, <3>1, <4>1 DEF RequestOK, Fresh
    <3>3. Has(q, {"token"}) => Rewrites(q)'
      BY <1>3, <2>1, <2>3, TokenKept DEF RequestOK, Rewrites
    <3>4. q.at \notin Relays => Ready(q, q.at)'
      BY <1>3, <2>1, <2>3, ReadyKept DEF RequestOK, Stage
    <3>5. ASSUME q.at \in Relays PROVE Leads(q)'
      <4>1. Leads(q)
        BY <2>1, <2>3, <3>5 DEF RequestOK, Stage
      <4>2. Ready(q, q.next)'
        BY <1>3, <4>1, ReadyKept DEF Leads
      <4>3. Has(q, {"of"}) /\ q.of \in Known => q.of \in Known'
        BY <1>3 DEF UsersKept
      <4>4. PICK read : read = q.copy.read
        OBVIOUS
      <4>5. read \in q.since..now => read \in q.since..now'
        BY <1>1, <3>1
      <4> QED BY <4>1, <4>2, <4>3, <4>4, <4>5 DEF Leads, Has
    <3> QED BY <2>1, <2>3, <3>2, <3>3, <3>4, <3>5 DEF RequestOK, Stage
  <2> QED BY <2>2, <2>3
<1>5. RequestsOK'
  BY <1>1, <1>4 DEF IInv, RequestsOK
<1>6. TokensOK'
  BY <1>1, TokensReplaced DEF history, IInv, TokensOK
<1>7. IssuedOK' /\ CallersOK'
  BY <1>1, <1>3, TokensSame, IssuedStays, ActiveKept DEF IInv, CallersOK
<1>8. UsersOK' /\ HistoriesOK' /\ CopiesOK'
  BY <1>1 DEF IInv, history, UsersOK, AddressesDistinct, AddressesProved, OwnerKnown, Known, HistoriesOK,
         SignInsProved, MailboxSetsPassword, CopiesOK
<1> QED BY <1>2, <1>5, <1>6, <1>7, <1>8 DEF IInv

-----------------------------------------------------------------------------
(* Requests that come in.                                                  *)

LEMMA Opens ==
  ASSUME NEW form, Sendable(form), form.handler \in TakesToken => form.token \in Tokens,
         form.handler \in Private => Active(form.user), NEW n, n.form = form
  PROVE  Ready(n, IF "user" \in DOMAIN form THEN "authenticate" ELSE form.handler)
<1>1. CASE form.handler \in Private
  BY <1>1, ReadySignedIn DEF Sendable
<1>2. CASE form.handler \in Public \ TakesToken
  BY <1>2, ReadyAt DEF Sendable, Public, Private, TakesToken
<1>3. CASE form.handler \in Public \cap TakesToken
  BY <1>3, ReadyAt DEF Sendable, Public, Private, TakesToken
<1> QED BY <1>1, <1>2, <1>3 DEF Sendable

LEMMA StartKeeps ==
  ASSUME IInv, NEW r \in Requests, NEW form, Sendable(form),
         form.handler \in TakesToken => form.token \in Tokens,
         form.handler \in Private => Active(form.user), Start(r, form)
  PROVE  IInv'
<1>1. PICK at : at = IF "user" \in DOMAIN form THEN "authenticate" ELSE form.handler
  OBVIOUS
<1>2. PICK n : n = [at |-> at, since |-> now, form |-> form]
  OBVIOUS
<1>3. request' = [request EXCEPT ![r] = n] /\ Reads /\ UNCHANGED scenario
  BY <1>1, <1>2 DEF Start, Reads
<1>4. /\ n.at = at /\ n.since = now /\ n.form = form
      /\ Has(n, {"at", "since", "form"}) /\ ~Has(n, {"issued"}) /\ ~Has(n, {"token"})
  BY <1>2 DEF Has
<1>5. Ready(n, at)
  BY <1>1, <1>4, Opens
<1>6. at \notin Relays \cup Mailing \cup {"verify codes"}
  BY <1>1 DEF Sendable, Public, Private, Relays, Mailing
<1>7. RequestOK(n)
  <2>1. Fresh(n)
    BY <1>4, Bounds DEF Fresh
  <2> QED BY <1>4, <1>5, <1>6, <2>1, ReadyStage DEF RequestOK
<1> QED BY <1>3, <1>4, <1>7, ReadKeeps DEF Follows, Copies, Has

LEMMA ArriveKeeps ==
  ASSUME IInv, NEW r \in Requests, Arrive(r)
  PROVE  IInv'
<1>1. PICK form \in scenario.forms :
        IF form.handler \in TakesToken
          THEN \E t \in Tokens : Start(r, Over([token |-> t], form))
          ELSE Start(r, form)
  BY DEF Arrive
<1>2. Sendable(form) /\ (form.handler \in Private => Active(form.user))
  BY ScenarioAssumption DEF IInv, TimesOK, CallersOK
<1>3. CASE form.handler \notin TakesToken
  BY <1>1, <1>2, <1>3, StartKeeps
<1>4. ASSUME form.handler \in TakesToken, NEW t \in Tokens, Start(r, Over([token |-> t], form))
      PROVE  IInv'
  <2>1. PICK sent : sent = Over([token |-> t], form)
    OBVIOUS
  <2>2. /\ DOMAIN sent = DOMAIN form \cup {"token"} /\ sent.token = t
        /\ \A f \in DOMAIN form \ {"token"} : sent[f] = form[f]
    BY <2>1 DEF Over
  <2>3. /\ sent.handler = form.handler
        /\ "user" \in DOMAIN form => sent.user = form.user
        /\ "password" \in DOMAIN form => sent.password = form.password
    BY <1>2, <2>2 DEF Sendable
  <2>4. Sendable(sent)
    BY <1>2, <1>4, <2>2, <2>3 DEF Sendable, TakesToken
  <2>5. form.handler \in Private => Active(sent.user)
    BY <1>2, <2>3 DEF Sendable
  <2> QED BY <1>4, <2>1, <2>2, <2>3, <2>4, <2>5, StartKeeps
<1> QED BY <1>1, <1>3, <1>4

LEMMA OwnerSendsKeeps ==
  ASSUME IInv, OwnerSends
  PROVE  IInv'
<1>1. PICK u, form : form \in NextForms(u) /\ Start(Mine, form)
  BY DEF OwnerSends
<1>2. PICK email, password : email = scenario.owner.email /\ password = scenario.owner.password
  OBVIOUS
<1>3. email \in Addresses /\ password \in Passwords
  BY <1>2, ScenarioAssumption DEF OwnerSends, IInv, TimesOK
<1>4. \/ form = [handler |-> "forgetPassword", email |-> email]
      \/ \E t \in Tokens : form = [handler |-> "resetPassword", token |-> t, password |-> password]
      \/ \E t \in Tokens, handler \in {"confirmForgetPasswordToken", "activateUser"} :
           form = [handler |-> handler, token |-> t]
      \/ form = [handler |-> "signIn", email |-> email, password |-> password]
  BY <1>1, <1>2 DEF NextForms, ResetForms, Mailed
<1> DEFINE Opening == /\ Sendable(form) /\ form.handler \in Public
                      /\ form.handler \in TakesToken => form.token \in Tokens
<1>5. Opening
  <2>1. CASE form = [handler |-> "forgetPassword", email |-> email]
    BY <1>3, <2>1 DEF Sendable, Public, Private, TakesToken
  <2>2. ASSUME NEW t \in Tokens, form = [handler |-> "resetPassword", token |-> t, password |-> password]
        PROVE  Opening
    BY <1>3, <2>2 DEF Sendable, Public, Private, TakesToken
  <2>3. ASSUME NEW t \in Tokens, NEW handler \in {"confirmForgetPasswordToken", "activateUser"},
               form = [handler |-> handler, token |-> t]
        PROVE  Opening
    BY <2>3 DEF Sendable, Public, Private, TakesToken
  <2>4. CASE form = [handler |-> "signIn", email |-> email, password |-> password]
    BY <1>3, <2>4 DEF Sendable, Public, Private, TakesToken
  <2> QED BY <1>4, <2>1, <2>2, <2>3, <2>4
<1>6. form.handler \notin Private
  BY <1>5 DEF Public, Private
<1> QED BY <1>1, <1>5, <1>6, ClientAssumption, StartKeeps

-----------------------------------------------------------------------------
(* The invariant.                                                          *)

LEMMA InitInv == Init => IInv
<1> SUFFICES ASSUME Init PROVE IInv
  OBVIOUS
<1>1. PICK rows : rows = scenario.users
  OBVIOUS
<1>2. /\ DOMAIN rows \subseteq UserIds /\ \A u \in DOMAIN rows : rows[u] \in UserRows
      /\ \A u, v \in DOMAIN rows : rows[u].email = rows[v].email => u = v
      /\ \A form \in scenario.forms :
           form.handler \in Private => form.user \in DOMAIN rows /\ rows[form.user].active
      /\ {scenario.periods, scenario.faults} \subseteq Nat
  BY <1>1, ScenarioAssumption DEF Init
<1>3. users = [u \in UserIds |-> IF u \in DOMAIN rows THEN rows[u] ELSE NoUser]
  BY <1>1 DEF Init
<1>4. Known = DOMAIN rows /\ \A u \in Known : users[u] = rows[u]
  BY <1>2, <1>3, NoUserNoRow DEF Known
<1>5. TimesOK
  BY <1>2 DEF Init, TimesOK
<1>6. UsersOK
  <2>1. users \in [UserIds -> UserRows \cup {NoUser}]
    BY <1>2, <1>3
  <2>2. AddressesDistinct
    BY <1>2, <1>4 DEF AddressesDistinct
  <2>3. AddressesProved
    <3>1. proved = {<<u, users[u].email>> : u \in {v \in Known : users[v].active}}
      BY DEF Init
    <3>2. ASSUME NEW u \in Known, users[u].active PROVE OwnerKnown(u)
      <4>1. <<u, users[u].email>> \in proved
        BY <3>1, <3>2
      <4> QED BY <4>1, OwnerByProof DEF OwnerKnown
    <3> QED BY <3>2 DEF AddressesProved
  <2>4. proved \subseteq UserIds \X Addresses
    <3>1. \A u \in Known : u \in UserIds /\ users[u].email \in Addresses
      BY <1>2, <1>4 DEF UserRows
    <3>2. proved = {<<u, users[u].email>> : u \in {v \in Known : users[v].active}}
      BY DEF Init
    <3> QED BY <3>1, <3>2
  <2> QED BY <2>1, <2>2, <2>3, <2>4 DEF UsersOK
<1>7. CallersOK
  BY <1>2, <1>4 DEF CallersOK, Active
<1>8. CopiesOK /\ TokensOK
  BY DEF Init, CopiesOK, TokensOK
<1>9. RequestsOK /\ IssuedOK
  <2>1. DOMAIN request = Requests /\ \A r \in Requests : request[r] = Idle
    BY DEF Init
  <2>2. RequestsOK
    BY <2>1, IdleOK DEF RequestsOK
  <2>3. ~Has(Idle, {"issued"})
    BY DEF Has, Idle
  <2> QED BY <2>1, <2>2, <2>3 DEF IssuedOK
<1>10. HistoriesOK
  BY DEF Init, HistoriesOK, SignInsProved, MailboxSetsPassword
<1> QED BY <1>5, <1>6, <1>7, <1>8, <1>9, <1>10 DEF IInv

LEMMA ServeSignInKeeps ==
  ASSUME IInv, UNCHANGED scenario, NEW r \in Requests, ServeSignIn(r)
  PROVE  IInv'
<1>1. CASE \/ RegisterNormalUser(r) \/ CreateVendor(r) \/ SendActivation(r) \/ ActivateUser(r)
           \/ SetUserAccountAsActivate(r) \/ DeleteTokens(r) \/ ForceReset(r)
  BY <1>1, RegisterNormalUserKeeps, SendActivationKeeps, ActivateUserKeeps, SetUserAccountAsActivateKeeps,
     DeleteTokensKeeps, ForceResetKeeps
<1>2. CASE MailActivation(r) \/ AnswerReset(r) \/ AnswerToken(r) \/ MailReset(r)
  BY <1>2, MailsKeep
<1>3. CASE \/ SignInUser(r) \/ AskForCode(r) \/ VerifyLogin2FA(r) \/ CheckCode(r)
           \/ DisableTwoFactorAuth(r) \/ OpenSession(r)
  BY <1>3, SignInUserKeeps, AskForCodeKeeps, VerifyLogin2FAKeeps, CheckCodeKeeps,
     DisableTwoFactorAuthKeeps, OpenSessionKeeps
<1>4. CASE GoogleCallback(r) \/ CreateWithGoogle(r) \/ UpsertAccount(r) \/ ActivateGoogle(r)
  BY <1>4, GoogleCallbackKeeps, CreateWithGoogleKeeps, UpsertAccountKeeps, ActivateGoogleKeeps
<1>5. CASE \/ ForgetPassword(r) \/ IssueReset(r) \/ ConfirmForgetPasswordToken(r) \/ VerifyForgetPassword2fa(r)
           \/ VerifyForgetPasswordRecoveryCode(r) \/ VerifyCodes(r) \/ ResetPassword(r) \/ UpdatePassword(r)
  BY <1>5, ForgetPasswordKeeps, IssueResetKeeps, ConfirmForgetPasswordTokenKeeps, VerifyForgetPasswordRecoveryCodeKeeps,
     VerifyCodesKeeps, ResetPasswordKeeps, UpdatePasswordKeeps
<1> QED BY <1>1, <1>2, <1>3, <1>4, <1>5 DEF ServeSignIn

LEMMA ServeSettingsKeeps ==
  ASSUME IInv, UNCHANGED scenario, NEW r \in Requests, ServeSettings(r)
  PROVE  IInv'
<1>1. CASE AuthMiddleware(r) \/ GetCurrentUser(r) \/ ChangePassword(r) \/ InitiateEmailChange(r) \/ ViewRecoveryCodes(r)
  BY <1>1, AuthMiddlewareKeeps, GetCurrentUserKeeps, PasswordAccessKeeps
<1>2. CASE AnswerSettingsToken(r) \/ MailChange(r)
  BY <1>2, MailsKeep
<1>3. CASE MayChangePassword(r) \/ VerifyChangePassword2fa(r) \/ StorePassword(r)
  BY <1>3, MayChangePasswordKeeps, VerifyChangePassword2faKeeps, StorePasswordKeeps
<1>4. CASE \/ LookForAddress(r) \/ SendEmailChangeToken(r) \/ VerifyEmailChange2fa(r)
           \/ VerifyEmailChange(r) \/ UpdateEmail(r)
  BY <1>4, LookForAddressKeeps, SendEmailChangeTokenKeeps, VerifyEmailChange2faKeeps,
     VerifyEmailChangeKeeps, UpdateEmailKeeps
<1>5. CASE EnableTwoFactorAuth(r) \/ ResetRecoveryCodes(r)
  BY <1>5, EnableTwoFactorAuthKeeps
<1> QED BY <1>1, <1>2, <1>3, <1>4, <1>5 DEF ServeSettings

LEMMA ServeKeeps ==
  ASSUME IInv, NEW r \in Requests, Serve(r)
  PROVE  IInv'
<1>1. CASE (CacheUser(r) \/ ListToken(r) \/ SetToken(r)) /\ UNCHANGED <<history, scenario>>
  BY <1>1, CacheUserKeeps, ListTokenKeeps, SetTokenKeeps
<1>2. CASE (ServeSignIn(r) \/ ServeSettings(r)) /\ UNCHANGED scenario
  BY <1>2, ServeSignInKeeps, ServeSettingsKeeps
<1> QED BY <1>1, <1>2 DEF Serve

LEMMA StutterKeeps ==
  ASSUME IInv, UNCHANGED vars
  PROVE  IInv'
<1>1. UNCHANGED <<now, faults, users, cache, tokens, request, proved, signIns, resets, scenario>>
  BY DEF vars, storeVars, history
<1>2. UsersKept
  BY <1>1, UsersSame
<1>3. RequestsOK'
  BY <1>1, <1>2, RequestKept DEF IInv, RequestsOK
<1>4. IssuedOK' /\ CallersOK'
  BY <1>1, <1>2, TokensSame, IssuedStays, ActiveKept DEF IInv, CallersOK
<1>5. TokensOK'
  BY <1>1, TokensReplaced DEF IInv, TokensOK
<1>6. UsersOK' /\ HistoriesOK' /\ CopiesOK' /\ TimesOK'
  BY <1>1 DEF IInv, UsersOK, AddressesDistinct, AddressesProved, OwnerKnown, Known, HistoriesOK,
         SignInsProved, MailboxSetsPassword, CopiesOK, TimesOK
<1> QED BY <1>3, <1>4, <1>5, <1>6 DEF IInv

\* Every behaviour satisfies the invariant: what each handler has read before
\* it acts is still good for that when it acts, however requests overlap.
THEOREM Invariance == Spec => []IInv
<1>1. ASSUME IInv, [Next]_vars PROVE IInv'
  <2>1. ASSUME NEW r \in Requests,
               Arrive(r) \/ Serve(r) \/ (Stop(r) /\ UNCHANGED <<history, scenario>>)
        PROVE  IInv'
    BY <1>1, <2>1, ArriveKeeps, ServeKeeps, StopKeeps
  <2>2. ASSUME NEW t \in Tokens, Expire(t) /\ UNCHANGED <<history, scenario>>
        PROVE  IInv'
    BY <1>1, <2>2, ExpireKeeps
  <2>3. CASE OwnerSends
    BY <1>1, <2>3, OwnerSendsKeeps
  <2>4. CASE Tick /\ UNCHANGED <<history, scenario>>
    BY <1>1, <2>4, TickKeeps
  <2>5. CASE UNCHANGED vars
    BY <1>1, <2>5, StutterKeeps
  <2> QED BY <1>1, <2>1, <2>2, <2>3, <2>4, <2>5 DEF Next
<1> QED BY <1>1, InitInv, PTL DEF Spec

LEMMA StoreTypes ==
  ASSUME IInv
  PROVE  StoreTypeOK
<1>1. ASSUME NEW t \in Tokens, NEW token, token = tokens[t], token # NoToken
      PROVE  /\ token.scope \in Scopes /\ token.user \in Known
             /\ token.mailbox \in Addresses \cup {"none", "session", "password"} /\ token.listed \in BOOLEAN
  <2>1. TokenOK(token)
    BY <1>1 DEF IInv, TokensOK
  <2>2. Belongs(token, token.mailbox) => token.mailbox \in Addresses \cup {"session", "password"}
    BY <2>1, NamedAddresses DEF TokenOK, Belongs, DataOK, Scopes, Owned
  <2> QED BY <2>1, <2>2 DEF TokenOK
<1>2. cache \in [UserIds -> [email : Addresses, read : Nat, until : Nat] \cup {NoCopy}]
  BY DEF IInv, CopiesOK
<1> QED BY <1>1, <1>2 DEF StoreTypeOK, IInv, TimesOK, UsersOK

LEMMA Recent ==
  ASSUME IInv
  PROVE  CopiesRecent
<1> SUFFICES ASSUME NEW u \in UserIds, Cached(u) PROVE now - cache[u].read <= CacheTTL
  BY DEF CopiesRecent
<1>1. PICK copy : copy = cache[u]
  OBVIOUS
<1>2. copy # NoCopy
  BY <1>1, Bounds DEF Cached, NoCopy
<1>3. /\ copy \in [email : Addresses, read : Nat, until : Nat]
      /\ copy.until <= copy.read + 1 + CacheTTL
  BY <1>1, <1>2 DEF IInv, CopiesOK
<1>4. now < copy.until /\ now \in Nat /\ copy.until \in Nat /\ copy.read \in Nat
  BY <1>1, <1>3, Bounds DEF Cached
<1>5. now - copy.read <= CacheTTL
  BY <1>3, <1>4, AccountAssumptions
<1> QED BY <1>1, <1>5

\* An address belongs to one account, and to an active one only if somebody has
\* proved it or one that matches it as a pattern, although every handler looks
\* an address up in one statement and stores it in another; a cached copy is used for its time to live and no
\* longer than the request that has set it took; and everything has its type.
THEOREM AccountsAreSound == Spec => []AccountsSound
<1>1. ASSUME IInv PROVE AccountsSound
  BY <1>1, StoreTypes, Recent
     DEF IInv, UsersOK, HistoriesOK, PasswordResets, AccountsSound, SignInTypeOK
<1> QED BY <1>1, Invariance, PTL

\* Whoever signs in has shown the password, with a code if the account asked
\* for one when the password was checked, or has come from Google: what a token
\* of the sign-in stands for is never lost on the way through the recovery
\* code, the cache and the deletion of tokens.
THEOREM SignInsAreProved == Spec => []SignInsProved
<1>1. ASSUME IInv PROVE SignInsProved
  BY <1>1 DEF IInv, HistoriesOK
<1> QED BY <1>1, Invariance, PTL

\* A password is reset only by a link to a mailbox that the address asked for
\* names, for an account that it names as well: tokens go where they belong
\* whatever is written back to them.  The account is found in one statement and
\* changed in another: if its address is another by then, its owner had
\* confirmed that one.
THEOREM MailboxesSetPasswords == Spec => []MailboxSetsPassword
<1>1. ASSUME IInv PROVE MailboxSetsPassword
  BY <1>1 DEF IInv, HistoriesOK
<1> QED BY <1>1, Invariance, PTL
=============================================================================
