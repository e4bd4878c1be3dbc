--------------------------- MODULE RequestPipeline ---------------------------
(***************************************************************************)
(* A request on its way through the middleware: the rate limiter, then the *)
(* permission checks, then the handler.  Of the handlers, those that       *)
(* administrators use on each other are modelled here.                     *)
(*                                                                         *)
(* The limiters share their counters in Redis, so requests meet there.  A  *)
(* limiter of the library counts the requests of a key in a fixed window   *)
(* and every request counts, refused ones too.  Its count matters up to    *)
(* one above the limit and is kept up to there.                            *)
(***************************************************************************)
EXTENDS RateLimitTable, Access, FiniteSets

CONSTANTS
  Endpoints,   \* the part of RateLimits that is registered
  Routes,      \* requests: [method, path, handler], the path without parameters
  Callers,     \* who sends requests: users, and anonymous clients
  Remotes,     \* r.RemoteAddr: with the port of the connection, or what X-Forwarded-For says
  WhoIs,       \* WhoIs[c]: role and level of a caller
  CreatedAt,   \* admin_users.created_at
  Traffic,     \* which caller sends which requests from where: triples
  Requests,
  NoMember

Members == {c \in Callers : WhoIs[c].role = "admin"}

ASSUME PipelineAssumptions ==
  /\ \A c \in Members : CreatedAt[c] \in Nat
  /\ Traffic \subseteq Callers \X Routes \X Remotes
  /\ \A p, q \in Routes : p.method = q.method /\ p.path = q.path => p = q
  /\ NoMember \notin Callers

VARIABLES
  count,      \* the limiters' counters
  granted,    \* requests let through in the counter's window
  request,    \* request[r]: where a request is
  owed,       \* owed[r]: strategies it must still be counted under; whether it
              \* comes from an anonymous client that sent X-User-ID
  disabled    \* users.disabled, of administrators

pipelineVars == <<count, granted, request, owed, disabled>>

Strategies == {"anonymous", "authenticated"}
Rules      == [strategy : Strategies, limit : Nat, when : {"always", "anonymous", "authenticated"}]

RulesOf(e) == {e.rules[i] : i \in 1..Len(e.rules)}

ASSUME EndpointAssumption ==
  \A e \in Endpoints : e.rules \in Seq(Rules)

\* AddEndpoint: a limiter per strategy, under the registered path.
Registered == UNION {{<<e.method, e.path, rule.strategy>> : rule \in RulesOf(e)} : e \in Endpoints}

Limit == [l \in Registered |->
  (CHOOSE rule \in UNION {RulesOf(e) : e \in {f \in Endpoints : f.method = l[1] /\ f.path = l[2]}} :
     rule.strategy = l[3]).limit]

\* What a limiter counts by: the address of a request or the id of its user.
Keys    == Remotes \cup Callers
Tallies == {<<t[2], "anonymous", t[3]>> : t \in Traffic} \cup {<<t[2], "authenticated", t[1]>> : t \in Traffic}

Idle    == [at |-> "idle"]
Nothing == [forged |-> FALSE, strategies |-> {}]

PipelineInit ==
  /\ count = [c \in Registered \X Keys |-> 0]
  /\ granted = [g \in Tallies |-> 0]
  /\ request = [r \in Requests |-> Idle]
  /\ owed = [r \in Requests |-> Nothing]
  /\ disabled = {}

-----------------------------------------------------------------------------
(* The rate limiter.                                                       *)

\* PatternPathMatcher: a parameter stands for one segment, whatever it is.
Match(registered, path) ==
  /\ Len(registered) = Len(path)
  /\ \A i \in 1..Len(path) : registered[i] \in {Param, path[i]}

\* configs is a Go map: when several entries match, any may come first.  With
\* none there are no rules.
Configs(route) ==
  LET matching == {e \in Endpoints : e.method = route.method /\ Match(e.path, route.path)}
  IN IF matching = {} THEN {Endpoint(route.method, <<>>, <<>>)} ELSE matching

SignedIn(c) == WhoIs[c] # Anonymous

\* Whether X-User-ID is set, which is what IsAuthenticated looks at: AuthMiddleware
\* sets it for a signed-in caller and leaves what an anonymous one has sent.
XUserID(c) == IF SignedIn(c) THEN {TRUE} ELSE BOOLEAN

\* The conditions that SelectRules evaluates, with and without the header.
Holds(when, header) == \/ when = "always"
                       \/ when = "authenticated" /\ header
                       \/ when = "anonymous" /\ ~header

\* userBaseRateLimiterGetter takes the id from the context and not from the
\* header: an anonymous caller has none, and no key.
HasKey(c, rule) == rule.strategy = "anonymous" \/ SignedIn(c)
Key(q, rule)    == IF rule.strategy = "anonymous" THEN q.remote ELSE q.caller

\* The rules that count a request.
Counts(c, header, rule) == Holds(rule.when, header) /\ HasKey(c, rule)

\* The strategies of the rules that concern a caller for what the caller is.
Due(c, rules) == {rule.strategy : rule \in {s \in rules : Counts(c, SignedIn(c), s)}}

Arrive(r, c, route, remote) ==
  /\ request[r] = Idle
  /\ \E e \in Configs(route), header \in XUserID(c) :
       /\ request' = [request EXCEPT ![r] =
            [at |-> "limit", caller |-> c, route |-> route, config |-> e.path,
             remote |-> remote, header |-> header, todo |-> e.rules]]
       /\ owed' = [owed EXCEPT ![r] =
            [forged |-> header # SignedIn(c), strategies |-> Due(c, RulesOf(e))]]
  /\ UNCHANGED <<count, granted, disabled>>

Answer(r, code) ==
  request' = [request EXCEPT ![r] = [at |-> "answered", caller |-> @.caller,
                                     route |-> @.route, code |-> code]]

NextRule(r) == request' = [request EXCEPT ![r].todo = Tail(@)]

AtRule(r) == request[r].at = "limit" /\ request[r].todo # <<>>

Counting(r) ==
  AtRule(r) /\ Counts(request[r].caller, request[r].header, Head(request[r].todo))

\* A rule that SelectRules leaves out, or that has no key for the request.
SkipRule(r) ==
  /\ AtRule(r) /\ ~Counting(r)
  /\ NextRule(r)
  /\ UNCHANGED <<count, granted, owed, disabled>>

\* Mutant: the limiters of the entry that was matched.
LimiterOfConfig(r) ==
  <<request[r].route.method, request[r].config, Head(request[r].todo).strategy>>

\* s.limiters[createKey(r.URL.Path, r.Method)][rule.Strategy]
Limiter(r) ==
  <<request[r].route.method, request[r].route.path, Head(request[r].todo).strategy>>

\* Allow is called on an interface that is nil: the recoverer answers.
NoLimiter(r) ==
  /\ Counting(r)
  /\ Limiter(r) \notin Registered
  /\ Answer(r, "panic")
  /\ UNCHANGED <<count, granted, owed, disabled>>

\* Mutant: the request that uses up the limit is refused.
ReachedEarly(n, limit) == n >= limit

\* The library's verdict on a count that includes this request.
Reached(n, limit) == n > limit

KeyOf(r) == Key(request[r], Head(request[r].todo))
Tally(r) == <<request[r].route, Head(request[r].todo).strategy, KeyOf(r)>>

Allow(r) ==
  LET counter == <<Limiter(r), KeyOf(r)>>
      limit   == Limit[Limiter(r)]
      n       == count[counter] + 1
  IN /\ Counting(r)
     /\ Limiter(r) \in Registered
     /\ count' = [count EXCEPT ![counter] = IF @ > limit THEN @ ELSE n]
     /\ IF Reached(n, limit)
          THEN Answer(r, "limited") /\ UNCHANGED <<granted, owed>>
          ELSE /\ NextRule(r)
               /\ granted' = [granted EXCEPT ![Tally(r)] = @ + 1]
               /\ owed' = [owed EXCEPT ![r].strategies = @ \ {Head(request[r].todo).strategy}]
     /\ UNCHANGED disabled

\* A minute after its first request the counter is gone.
WindowEnds(l, key) ==
  /\ count[<<l, key>>] > 0
  /\ count' = [count EXCEPT ![<<l, key>>] = 0]
  /\ granted' = [g \in DOMAIN granted |->
       IF g[3] = key /\ <<g[1].method, g[1].path, g[2]>> = l THEN 0 ELSE granted[g]]
  /\ UNCHANGED <<request, owed, disabled>>

-----------------------------------------------------------------------------
(* The permission checks and the handlers.                                 *)

MemberHandlers == {"disableAdminAccount", "enableAdminAccount", "changeAdminRole"}

\* The rules are through.
Dispatch(r) ==
  LET handler == request[r].route.handler
      result  == Admission(WhoIs[request[r].caller], handler)
  IN /\ request[r].at = "limit" /\ request[r].todo = <<>>
     /\ IF result # "pass" THEN Answer(r, result)
        ELSE IF handler \in MemberHandlers
          THEN request' = [request EXCEPT ![r] = [at |-> "load member", caller |-> @.caller,
                                                  route |-> @.route]]
          ELSE Answer(r, "served")
     /\ UNCHANGED <<count, granted, owed, disabled>>

\* Mutant: without the comparison of the accounts' ages.
ProtectsSuperYoung(c, m) ==
  WhoIs[m].level = "super" => WhoIs[c].level = "super"

\* A super administrator yields only to one who is not younger.
ProtectsSuper(c, m) ==
  WhoIs[m].level = "super" => WhoIs[c].level = "super" /\ CreatedAt[c] <= CreatedAt[m]

\* The checks of the handlers; enabling lacks the one for super administrators.
\* The new level of a change is at most the caller's own.
MayTouch(c, m, handler) ==
  /\ m # c
  /\ CanModifyAdminLevel(WhoIs[c].level, WhoIs[m].level)
  /\ handler # "enableAdminAccount" => ProtectsSuper(c, m)

LoadMember(r, m) ==
  /\ request[r].at = "load member"
  /\ IF m \in Members /\ MayTouch(request[r].caller, m, request[r].route.handler)
       THEN request' = [request EXCEPT ![r] = [at |-> "write", caller |-> @.caller,
                                               route |-> @.route, member |-> m]]
       ELSE Answer(r, "refused")
  /\ UNCHANGED <<count, granted, owed, disabled>>

\* ChangeAdminLevel does nothing and succeeds.
WriteMember(r) ==
  /\ request[r].at = "write"
  /\ disabled' = CASE request[r].route.handler = "disableAdminAccount" ->
                        disabled \cup {request[r].member}
                   [] request[r].route.handler = "enableAdminAccount" ->
                        disabled \ {request[r].member}
                   [] OTHER -> disabled
  /\ Answer(r, "served")
  /\ UNCHANGED <<count, granted, owed>>

Forget(r) ==
  /\ request[r].at = "answered"
  /\ request' = [request EXCEPT ![r] = Idle]
  /\ owed' = [owed EXCEPT ![r] = Nothing]
  /\ UNCHANGED <<count, granted, disabled>>

Progress(r) == \/ SkipRule(r) \/ NoLimiter(r) \/ Allow(r) \/ Dispatch(r) \/ WriteMember(r)
               \/ \E m \in Members \cup {NoMember} : LoadMember(r, m)

PipelineNext ==
  \/ \E r \in Requests : \/ Progress(r) \/ Forget(r)
                         \/ \E t \in Traffic : Arrive(r, t[1], t[2], t[3])
  \/ \E l \in Registered, key \in Keys : WindowEnds(l, key)

PipelineSpec == PipelineInit /\ [][PipelineNext]_pipelineVars

-----------------------------------------------------------------------------
Codes == {"unauthorized", "forbidden", "panic", "limited", "served", "refused"}

TypeOK ==
  /\ count \in [Registered \X Keys -> Nat]
  /\ granted \in [Tallies -> Nat]
  /\ owed \in [Requests -> [forged : BOOLEAN, strategies : SUBSET Strategies]]
  /\ disabled \subseteq Members
  /\ \A r \in Requests : \/ request[r] = Idle
                         \/ /\ request[r].caller \in Callers /\ request[r].route \in Routes
                            /\ \/ request[r].at = "limit"
                               \/ request[r].at = "load member"
                               \/ request[r].at = "write" /\ request[r].member \in Members
                               \/ request[r].at = "answered" /\ request[r].code \in Codes

\* The limiter has let the request through.
Passed(q) == q.at \in {"load member", "write"} \/ (q.at = "answered" /\ q.code \notin {"panic", "limited"})

\* In no window are more requests of a key let through to a path than the
\* limit registered for this very path: whichever of the entries that match it
\* comes first, and however requests overlap.  And no request passes without
\* having been counted by the rules that concern its caller, unless it comes
\* from an anonymous client that sent X-User-ID itself: the header exempts it
\* from the rules for anonymous clients, and those for users have no key for it.
\* The key is not the client: who comes from another port or names another
\* address in X-Forwarded-For has another key.
WithinLimit ==
  /\ TypeOK
  /\ \A g \in DOMAIN granted :
       LET limiter == <<g[1].method, g[1].path, g[2]>>
       IN limiter \in Registered => granted[g] <= Limit[limiter]
  /\ \A r \in Requests : Passed(request[r]) => owed[r].forged \/ owed[r].strategies = {}

\* A request is turned away only when its key has used up the limit in this
\* window: requests that were skipped, lost to a panic or sent by others cost
\* it nothing.
RefusedAtLimit ==
  [][\A r \in Requests :
       Counting(r) /\ request'[r].at = "answered" /\ request'[r].code = "limited"
         => granted[Tally(r)] >= Limit[Limiter(r)]]_pipelineVars

\* Of two accounts of the same age neither is the eldest.
Eldest(c) == /\ c \in Members /\ WhoIs[c].level = "super"
             /\ \A d \in Members \ {c} : WhoIs[d].level = "super" => CreatedAt[c] < CreatedAt[d]

\* Administrators cannot lock each other out: whatever they do to each other
\* at the same time, the eldest super administrator is never disabled.
EldestSuperStays == \A c \in disabled : ~Eldest(c)

\* Whether an account is disabled changes only at the hands of a manager or a
\* super administrator who is someone else and does not rank below the account.
DisabledByRank ==
  [][\A m \in Members : (m \in disabled) # (m \in disabled') =>
       \E r \in Requests :
         /\ request[r].at = "write" /\ request[r].member = m
         /\ request[r].caller # m
         /\ GetRank(WhoIs[request[r].caller].level) >= GetRank("manager")
         /\ GetRank(WhoIs[request[r].caller].level) >= GetRank(WhoIs[m].level)]_pipelineVars
=============================================================================
