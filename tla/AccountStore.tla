---------------------------- MODULE AccountStore ----------------------------
(***************************************************************************)
(* What the handlers of user accounts share: the users table, the copies   *)
(* of its rows in the cache, and the tokens of all scopes.                 *)
(*                                                                         *)
(* A cached row lacks what its JSON leaves out: password, secret, recovery *)
(* codes and the two-factor flag.  Of TokenStore's keys and sets this      *)
(* module keeps which tokens there are and which of them the set of their  *)
(* user lists; a key or a set may expire at any time.  Time is counted in  *)
(* periods as long as a request may last.                                  *)
(***************************************************************************)
EXTENDS Naturals, FiniteSets

CONSTANTS Requests, UserIds, Addresses, Passwords, Tokens,
          Matches,         \* ILIKE: the addresses that one matches, taken as a pattern
          GoogleAccounts,
          CacheTTL,        \* UserExpTime
          Repaired         \* of "createUser": taken to work although the database refuses it

ASSUME AccountAssumptions ==
  /\ CacheTTL \in Nat /\ "none" \notin Addresses
  /\ Matches \in [Addresses -> SUBSET Addresses]
  /\ Repaired \subseteq {"createUser"}

VARIABLES
  now, faults,
  users,      \* users, joined with the table of their role and with accounts
  cache,      \* "user-<id>": the copy, when it was read and when it expires
  tokens,     \* the tokens of all scopes
  request,    \* request[r]: where a request is and what it has read
  scenario    \* what a behaviour starts with and is sent; bounds: tokens, periods, faults

storeVars == <<now, faults, users, cache, tokens, request>>

Idle    == [at |-> "idle"]
NoUser  == [email |-> "none"]
NoCopy  == [until |-> 0]
NoToken == [scope |-> "none"]

Scopes == {"activation", "forget_password", "login_2fa", "change_password_2fa",
           "change_email_2fa", "change_email"}

\* Active is who has an email_verified_at, which every handler goes by; oauth is
\* what links the table of accounts has for him.
NewUser(email, password, active, force) ==
  [email |-> email, password |-> password, active |-> active, twoFactor |-> FALSE,
   codes |-> FALSE, force |-> force, oauth |-> {}]

\* What g says, but for what f says; a request is what it was with more to it.
Over(f, g) == [x \in DOMAIN f \cup DOMAIN g |-> IF x \in DOMAIN f THEN f[x] ELSE g[x]]

Go(r, at, more) == request' = [request EXCEPT ![r] = Over(more, [@ EXCEPT !.at = at])]
Ends(r)         == request' = [request EXCEPT ![r] = Idle]   \* with whatever answer

-----------------------------------------------------------------------------
(* Users.                                                                  *)

Known == {u \in UserIds : users[u] # NoUser}

\* WHERE email ILIKE: case does not matter, _ stands for any character and % for
\* any number of them; of several rows any may be the one that is read.
GetByEmail(email) == {u \in Known : users[u].email \in Matches[email]}

\* What somebody who gives an address may mean by it.
Named(email) == {email} \cup Matches[email]

\* unique_email compares for equality.
EmailFree(email, of) == {u \in Known : users[u].email = email} \subseteq of

Cached(u) == now < cache[u].until

\* AuthInfo as the cache gives it, and as the table does.
FromCache(u) == [id |-> u, email |-> cache[u].email, twoFactor |-> FALSE, codes |-> FALSE]
FromTable(u) == [id |-> u, email |-> users[u].email, twoFactor |-> users[u].twoFactor, codes |-> users[u].codes]

\* Reads the table whatever the cache has; the copy is set in a step of its own.
Fetch(r, u, next, more) ==
  Go(r, "cache user",
     Over([copy |-> [email |-> users[u].email, read |-> now], of |-> u, next |-> next], more))

\* getUser(ctx, id): the cache first.
getUser(r, u, next, more) ==
  IF Cached(u) THEN Go(r, next, Over([me |-> FromCache(u)], more))
  ELSE Fetch(r, u, next, Over([me |-> FromTable(u)], more))

CacheUser(r) ==
  LET q == request[r]
  IN /\ q.at = "cache user"
     /\ cache' = [cache EXCEPT ![q.of] = Over([until |-> now + CacheTTL], q.copy)]
     /\ IF q.next = "done" THEN Ends(r) ELSE Go(r, q.next, <<>>)
     /\ UNCHANGED <<now, faults, users, tokens>>

-----------------------------------------------------------------------------
(* Tokens.  mailbox is history: the address that a token was sent to, or   *)
(* that the link was sent to which its first bearer had opened.            *)

\* A new token is none that a request has issued or somebody has.
Knows(r, t) == "issued" \in DOMAIN request[r] /\ request[r].issued = t

Free == {t \in scenario.tokens : /\ tokens[t] = NoToken \/ tokens[t].mailbox = "none"
                                 /\ \A r \in Requests : ~Knows(r, t)}

\* Insert: the key, then the set of the user, then what follows in the handler.
Issue(r, scope, u, data, next) ==
  \E t \in Free :
    /\ tokens' = [tokens EXCEPT ![t] =
         [scope |-> scope, user |-> u, data |-> data, listed |-> FALSE, mailbox |-> "none"]]
    /\ Go(r, "list token", [issued |-> t, next |-> next])

ListToken(r) ==
  LET t == request[r].issued
  IN /\ request[r].at = "list token"
     /\ tokens' = IF tokens[t] = NoToken THEN tokens ELSE [tokens EXCEPT ![t].listed = TRUE]
     /\ IF request[r].next = "done" THEN Ends(r) ELSE Go(r, request[r].next, <<>>)
     /\ UNCHANGED <<now, faults, users, cache>>

\* Insert of a token read before, with new data: there it is again, whatever
\* has become of it.
Rewrite(r, t, data, next) ==
  Go(r, "set token", [issued |-> t, token |-> [tokens[t] EXCEPT !.data = data], next |-> next])

SetToken(r) ==
  LET q == request[r]
  IN /\ q.at = "set token"
     /\ tokens' = [tokens EXCEPT ![q.issued] =
          [q.token EXCEPT !.listed = tokens[q.issued] # NoToken /\ tokens[q.issued].listed]]
     /\ Go(r, "list token", <<>>)
     /\ UNCHANGED <<now, faults, users, cache>>

\* The token is mailed, or handed over in the answer to who has shown another
\* that was mailed, or has signed in.
HandOver(t, mailbox) ==
  tokens' = IF tokens[t] = NoToken THEN tokens ELSE [tokens EXCEPT ![t].mailbox = mailbox]

Presents(t, scope) == tokens[t].scope = scope /\ tokens[t].mailbox # "none"

\* DeleteAllForUser: what the set lists, and the set.
Listed(scope, u) == {t \in Tokens : tokens[t] # NoToken /\ tokens[t].scope = scope
                                    /\ tokens[t].user = u /\ tokens[t].listed}
Without(some) == [t \in Tokens |-> IF t \in some THEN NoToken ELSE tokens[t]]
DeleteAllForUser(scope, u) == tokens' = Without(Listed(scope, u))

-----------------------------------------------------------------------------
(* Faults.                                                                 *)

Fault == faults < scenario.faults /\ faults' = faults + 1

\* A statement or a command fails, or the request is cut off; DeleteAllForUser
\* may have deleted some of the keys.
Stop(r) ==
  /\ Fault /\ request[r] # Idle
  /\ \/ UNCHANGED tokens
     \/ /\ request[r].at = "delete tokens"
        /\ \E some \in SUBSET Listed(request[r].scope, request[r].of) : tokens' = Without(some)
  /\ Ends(r)
  /\ UNCHANGED <<now, users, cache>>

Expire(t) ==
  /\ Fault /\ tokens[t] # NoToken
  /\ \/ tokens' = Without({t})
     \/ tokens' = [x \in Tokens |-> IF x \in Listed(tokens[t].scope, tokens[t].user)
                                     THEN [tokens[x] EXCEPT !.listed = FALSE] ELSE tokens[x]]
  /\ UNCHANGED <<now, users, cache, request>>

\* A request that came in one period has ended by the end of the next.
Tick ==
  /\ now < scenario.periods
  /\ \A r \in Requests : request[r] # Idle => request[r].since = now
  /\ now' = now + 1
  /\ UNCHANGED <<faults, users, cache, tokens, request>>

-----------------------------------------------------------------------------
UserRows == [email : Addresses, password : Passwords \cup {"none"}, active : BOOLEAN, twoFactor : BOOLEAN,
             codes : BOOLEAN, force : BOOLEAN, oauth : SUBSET GoogleAccounts]

StoreTypeOK ==
  /\ now \in 0..scenario.periods /\ faults \in 0..scenario.faults
  /\ users \in [UserIds -> UserRows \cup {NoUser}]
  /\ cache \in [UserIds -> [email : Addresses, read : Nat, until : Nat] \cup {NoCopy}]
  /\ \A t \in Tokens : tokens[t] # NoToken =>
       /\ tokens[t].scope \in Scopes /\ tokens[t].user \in Known
       /\ tokens[t].mailbox \in Addresses \cup {"none", "session", "password"} /\ tokens[t].listed \in BOOLEAN

\* No two accounts have the same address, although every handler looks for the
\* address in one statement and stores it in another, an e-mail change in
\* another request.
AddressesDistinct ==
  \A u, v \in Known : users[u].email = users[v].email => u = v

\* A copy in the cache is used for its time to live and no longer, but for the
\* time that the request took that has set it: its row may have changed since.
CopiesRecent ==
  \A u \in UserIds : Cached(u) => now - cache[u].read <= CacheTTL
=============================================================================
