------------------------ MODULE RequestPipelineProofs ------------------------
(***************************************************************************)
(* The rate limits and the handlers that administrators use on each other, *)
(* for any table of limits, callers, ages of accounts and requests.        *)
(***************************************************************************)
EXTENDS RequestPipeline, TLAPS

\* The fields of a request at each point of its way.
AtLimit(q) == /\ q.at = "limit"
              /\ q = [at |-> "limit", caller |-> q.caller, route |-> q.route,
                      config |-> q.config, remote |-> q.remote, header |-> q.header,
                      todo |-> q.todo]
              /\ <<q.caller, q.route, q.remote>> \in Traffic
              /\ q.header \in BOOLEAN /\ q.todo \in Seq(Rules)
AtLoad(q)  == /\ q.at = "load member"
              /\ q = [at |-> "load member", caller |-> q.caller, route |-> q.route]
AtWrite(q) == /\ q.at = "write"
              /\ q = [at |-> "write", caller |-> q.caller, route |-> q.route,
                      member |-> q.member]
AtEnd(q)   == /\ q.at = "answered"
              /\ q = [at |-> "answered", caller |-> q.caller, route |-> q.route,
                      code |-> q.code]

\* Who gets as far as the member's row has passed the checks in front of the
\* handler, and who is about to write it also those of the handler.
Cleared(c) == WhoIs[c].role = "admin" /\ HasAccessTo(WhoIs[c].level, "manager")

Underway(q) ==
  /\ \E remote : <<q.caller, q.route, remote>> \in Traffic
  /\ \/ AtLimit(q)
     \/ AtLoad(q) /\ Cleared(q.caller)
     \/ /\ AtWrite(q) /\ q.member \in Members
        /\ Cleared(q.caller) /\ MayTouch(q.caller, q.member, q.route.handler)
     \/ AtEnd(q) /\ q.code \in Codes

RequestsOK ==
  /\ DOMAIN request = Requests
  /\ \A r \in Requests : request[r] = Idle \/ Underway(request[r])

\* The limiter and the counter of a tally.
LimiterOf(g) == <<g[1].method, g[1].path, g[2]>>
CounterOf(g) == <<LimiterOf(g), g[3]>>

\* The requests let through under a counter that stands at n.
Through(n, limit) == IF n > limit THEN limit ELSE n

\* A counter tells how many of its requests were let through: every one, up to
\* the limit.
Counted ==
  \A g \in Tallies : LimiterOf(g) \in Registered =>
    granted[g] = Through(count[CounterOf(g)], Limit[LimiterOf(g)])

\* The strategies of the rules that a request will still be counted by.
Ahead(q) == {q.todo[i].strategy : i \in {j \in 1..Len(q.todo) : Counts(q.caller, q.header, q.todo[j])}}

\* What is owed lies ahead, and past the limiter nothing is owed.
Settled(q, o) ==
  /\ q.at = "limit" => o.forged \/ (q.header = SignedIn(q.caller) /\ o.strategies \subseteq Ahead(q))
  /\ Passed(q) => o.forged \/ o.strategies = {}

Debts == [forged : BOOLEAN, strategies : SUBSET Strategies]

OwedOK == /\ owed \in [Requests -> Debts]
          /\ \A r \in Requests : Settled(request[r], owed[r])

IInv == /\ TypeOK
        /\ RequestsOK
        /\ Counted
        /\ OwedOK
        /\ EldestSuperStays

-----------------------------------------------------------------------------
(* The table of limits and the checks.                                     *)

LEMMA TheRules ==
  ASSUME NEW e \in Endpoints
  PROVE  RulesOf(e) \subseteq Rules
BY EndpointAssumption DEF RulesOf

LEMMA Limits ==
  ASSUME NEW l \in Registered
  PROVE  Limit[l] \in Nat /\ l[3] \in Strategies
<1>1. PICK e \in Endpoints : \E rule \in RulesOf(e) : l = <<e.method, e.path, rule.strategy>>
  BY DEF Registered
<1>2. PICK rule \in RulesOf(e) : l = <<e.method, e.path, rule.strategy>>
  BY <1>1
<1> DEFINE All == UNION {RulesOf(f) : f \in {h \in Endpoints : h.method = l[1] /\ h.path = l[2]}}
<1>3. rule \in All /\ rule.strategy = l[3]
  BY <1>2
<1>4. \A s \in All : s.strategy \in Strategies /\ s.limit \in Nat
  <2>1. All \subseteq Rules
    BY TheRules
  <2> HIDE DEF All
  <2> QED
    BY <2>1 DEF Rules
<1>5. Limit[l] = (CHOOSE s \in All : s.strategy = l[3]).limit
  BY DEF Limit
<1> HIDE DEF All
<1>6. (CHOOSE s \in All : s.strategy = l[3]) \in All
  BY <1>3
<1> QED
  BY <1>3, <1>4, <1>5, <1>6

\* A tally is of a request that is sent, under one of the strategies.
LEMMA TallyParts ==
  ASSUME NEW g \in Tallies
  PROVE  /\ g = <<g[1], g[2], g[3]>> /\ g[2] \in Strategies
         /\ g[3] \in Keys /\ g[1] \in Routes
<1>1. PICK t \in Traffic : g = <<t[2], "anonymous", t[3]>> \/ g = <<t[2], "authenticated", t[1]>>
  BY DEF Tallies
<1>2. t \in Callers \X Routes \X Remotes
  BY PipelineAssumptions
<1> QED
  BY <1>1, <1>2 DEF Strategies, Keys

\* Each tally has a counter of its own: a limiter belongs to one method and path.
LEMMA OneTally ==
  ASSUME NEW g \in Tallies, NEW h \in Tallies, CounterOf(g) = CounterOf(h)
  PROVE  g = h
<1>1. g[1].method = h[1].method /\ g[1].path = h[1].path /\ g[2] = h[2] /\ g[3] = h[3]
  BY DEF CounterOf, LimiterOf
<1>2. g[1] = h[1]
  BY <1>1, TallyParts, PipelineAssumptions
<1> QED
  BY <1>1, <1>2, TallyParts

LEMMA FirstOfTwo ==
  ASSUME NEW S \in SUBSET {1, 2}, S # {}
  PROVE  (CHOOSE i \in S : \A j \in S : i <= j) \in S
<1>1. \E i \in S : \A j \in S : i <= j
  <2>1. S = {1} \/ S = {2} \/ S = {1, 2}
    OBVIOUS
  <2> QED
    BY <2>1
<1> QED
  BY <1>1

\* The handlers on other administrators are behind two checks, and both count.
LEMMA MemberGuard ==
  ASSUME NEW c \in Callers, NEW handler \in MemberHandlers,
         Admission(WhoIs[c], handler) = "pass"
  PROVE  Cleared(c)
<1> DEFINE checks == <<Admins, MinimumAdminLevel("manager")>>
<1>1. handler \notin PublicHandlers
  BY DEF MemberHandlers, PublicHandlers
<1>2. Guard(handler) = checks
  <2>1. /\ handler \notin SignedInHandlers /\ handler \notin CustomerHandlers
        /\ handler \notin StaffHandlers /\ handler \notin VendorHandlers
        /\ handler \notin {"approveProduct", "rejectProduct"}
        /\ handler \notin AdminHandlers /\ handler \in ManagerHandlers
        /\ handler # "createAdmin" /\ handler # "createCategory"
    BY DEF MemberHandlers, SignedInHandlers, CustomerHandlers, StaffHandlers, VendorHandlers,
           AdminHandlers, ManagerHandlers
  <2> QED
    BY <2>1 DEF Guard
<1>3. CheckPermissions(WhoIs[c], checks) = "pass"
  BY <1>1, <1>2 DEF Admission
<1> DEFINE failing == {i \in 1..Len(checks) : CheckResult(checks[i], WhoIs[c]) # "pass"}
           first   == CHOOSE i \in failing : \A j \in failing : i <= j
<1>4. failing # {} => CheckResult(checks[first], WhoIs[c]) = "pass"
  BY <1>3 DEF CheckPermissions
<1>5. failing # {} => first \in failing
  <2>1. failing \in SUBSET {1, 2}
    OBVIOUS
  <2> HIDE DEF failing
  <2> QED
    BY <2>1, FirstOfTwo
<1>6. failing = {}
  <2> SUFFICES ASSUME failing # {} PROVE FALSE
    OBVIOUS
  <2>1. first \in failing /\ CheckResult(checks[first], WhoIs[c]) = "pass"
    BY <1>4, <1>5
  <2> HIDE DEF first
  <2> QED
    BY <2>1
<1>7. CheckResult(Admins, WhoIs[c]) = "pass"
      /\ CheckResult(MinimumAdminLevel("manager"), WhoIs[c]) = "pass"
  BY <1>6
<1> QED
  BY <1>7 DEF CheckResult, Allows, Admins, RequireRoles, MinimumAdminLevel, Cleared

\* Who may disable an account is not the eldest super administrator's junior.
LEMMA EldestIsProtected ==
  ASSUME NEW c \in Callers, NEW m \in Members, NEW handler, Cleared(c),
         MayTouch(c, m, handler), handler # "enableAdminAccount"
  PROVE  ~Eldest(m)
<1>1. c \in Members /\ m # c /\ ProtectsSuper(c, m)
  BY DEF Cleared, Members, MayTouch
<1> QED
  BY <1>1, PipelineAssumptions DEF Eldest, ProtectsSuper

-----------------------------------------------------------------------------
(* One step.                                                               *)

LEMMA InitIInv == PipelineInit => IInv
<1> SUFFICES ASSUME PipelineInit PROVE IInv
  OBVIOUS
<1> USE DEF PipelineInit
<1>1. TypeOK
  BY DEF TypeOK, Idle, Nothing
<1>2. RequestsOK
  BY DEF RequestsOK
<1>3. Counted
  <2> SUFFICES ASSUME NEW g \in Tallies, LimiterOf(g) \in Registered
               PROVE  granted[g] = Through(count[CounterOf(g)], Limit[LimiterOf(g)])
    BY DEF Counted
  <2>1. CounterOf(g) \in Registered \X Keys /\ Limit[LimiterOf(g)] \in Nat
    BY TallyParts, Limits DEF CounterOf
  <2> QED
    BY <2>1 DEF Through
<1>4. EldestSuperStays
  BY DEF EldestSuperStays
<1>5. OwedOK
  BY DEF OwedOK, Settled, Passed, Idle, Nothing, Debts
<1> QED
  BY <1>1, <1>2, <1>3, <1>4, <1>5 DEF IInv

\* The request that takes a step moves on to q; the others stay.
LEMMA OneMoves ==
  ASSUME RequestsOK, NEW r \in Requests, NEW q, q = Idle \/ Underway(q),
         request' = [request EXCEPT ![r] = q]
  PROVE  /\ RequestsOK'
         /\ request'[r] = q
         /\ \A s \in Requests : s # r => request'[s] = request[s]
<1>1. /\ DOMAIN request' = Requests
      /\ request'[r] = q
      /\ \A s \in Requests : s # r => request'[s] = request[s]
  BY DEF RequestsOK
<1>2. \A s \in Requests : request'[s] = Idle \/ Underway(request'[s])
  BY <1>1 DEF RequestsOK
<1> QED
  BY <1>1, <1>2 DEF RequestsOK

LEMMA WhereItIs ==
  ASSUME RequestsOK, NEW r \in Requests, request[r].at # "idle"
  PROVE  /\ Underway(request[r])
         /\ request[r].caller \in Callers /\ request[r].route \in Routes
         /\ \E remote : <<request[r].caller, request[r].route, remote>> \in Traffic
<1>1. Underway(request[r])
  BY DEF RequestsOK, Idle
<1>2. \E remote : <<request[r].caller, request[r].route, remote>> \in Traffic
  BY <1>1 DEF Underway
<1> QED
  BY <1>1, <1>2, PipelineAssumptions

\* The answer to a request.
Answered(q, code) == [at |-> "answered", caller |-> q.caller, route |-> q.route, code |-> code]

LEMMA Answers ==
  ASSUME RequestsOK, NEW r \in Requests, request[r].at # "idle", NEW code \in Codes,
         Answer(r, code)
  PROVE  /\ RequestsOK'
         /\ request'[r] = Answered(request[r], code)
         /\ \A s \in Requests : s # r => request'[s] = request[s]
<1> DEFINE q == Answered(request[r], code)
<1>1. \E remote : <<request[r].caller, request[r].route, remote>> \in Traffic
  BY WhereItIs
<1>2. Underway(q)
  BY <1>1 DEF Answered, Underway, AtEnd
<1>3. request' = [request EXCEPT ![r] = q]
  BY DEF Answer, Answered
<1> HIDE DEF q
<1>4. /\ RequestsOK' /\ request'[r] = q
      /\ \A s \in Requests : s # r => request'[s] = request[s]
  BY <1>2, <1>3, OneMoves
<1> QED
  BY <1>4 DEF q

LEMMA NextTodo ==
  ASSUME NEW w, AtLimit(w), NEW rest
  PROVE  [w EXCEPT !.todo = rest] = [at |-> "limit", caller |-> w.caller, route |-> w.route,
                                     config |-> w.config, remote |-> w.remote,
                                     header |-> w.header, todo |-> rest]
BY DEF AtLimit

LEMMA NextRules ==
  ASSUME RequestsOK, NEW r \in Requests, AtRule(r), NextRule(r)
  PROVE  /\ RequestsOK'
         /\ request'[r] = [at |-> "limit", caller |-> request[r].caller, route |-> request[r].route,
                           config |-> request[r].config, remote |-> request[r].remote,
                           header |-> request[r].header, todo |-> Tail(request[r].todo)]
         /\ \A s \in Requests : s # r => request'[s] = request[s]
<1>1. AtLimit(request[r]) /\ request[r].todo # <<>>
  BY WhereItIs DEF AtRule, Underway, AtLimit, AtLoad, AtWrite, AtEnd
<1> DEFINE q == [at |-> "limit", caller |-> request[r].caller, route |-> request[r].route,
                 config |-> request[r].config, remote |-> request[r].remote,
                 header |-> request[r].header, todo |-> Tail(request[r].todo)]
<1>2. Underway(q)
  <2>1. Tail(request[r].todo) \in Seq(Rules)
    BY <1>1 DEF AtLimit
  <2> QED
    BY <1>1, <2>1 DEF Underway, AtLimit
<1>3. request' = [request EXCEPT ![r] = [request[r] EXCEPT !.todo = Tail(request[r].todo)]]
  BY DEF NextRule
<1>4. request' = [request EXCEPT ![r] = q]
  <2>1. [request[r] EXCEPT !.todo = Tail(request[r].todo)] = q
    BY <1>1, NextTodo, Zenon
  <2> HIDE DEF q
  <2> QED
    BY <1>3, <2>1
<1>5. /\ RequestsOK' /\ request'[r] = q
      /\ \A s \in Requests : s # r => request'[s] = request[s]
  <2> HIDE DEF q
  <2> QED
    BY <1>2, <1>4, OneMoves
<1> QED
  BY <1>5

LEMMA TheConfigs ==
  ASSUME NEW route, NEW e \in Configs(route)
  PROVE  e.rules \in Seq(Rules)
<1> DEFINE matching == {f \in Endpoints : f.method = route.method /\ Match(f.path, route.path)}
<1>1. Configs(route) = IF matching = {} THEN {Endpoint(route.method, <<>>, <<>>)} ELSE matching
  BY DEF Configs
<1>2. CASE matching = {}
  <2>1. e = Endpoint(route.method, <<>>, <<>>)
    BY <1>1, <1>2
  <2>2. e.rules = <<>>
    BY <2>1 DEF Endpoint
  <2> QED
    BY <2>2
<1>3. CASE matching # {}
  <2>1. e \in Endpoints
    BY <1>1, <1>3
  <2> QED
    BY <2>1, EndpointAssumption
<1> QED
  BY <1>2, <1>3

LEMMA StepOwes ==
  ASSUME OwedOK, NEW r \in Requests, NEW o \in Debts,
         owed' = [owed EXCEPT ![r] = o], Settled(request'[r], o),
         \A s \in Requests : s # r => request'[s] = request[s]
  PROVE  OwedOK'
<1>1. owed' \in [Requests -> Debts]
      /\ owed'[r] = o /\ \A s \in Requests : s # r => owed'[s] = owed[s]
  BY DEF OwedOK
<1>2. \A s \in Requests : Settled(request'[s], owed'[s])
  BY <1>1 DEF OwedOK
<1> QED
  BY <1>1, <1>2 DEF OwedOK

\* A request owes on arrival what lies ahead of it.
LEMMA ArriveMoves ==
  ASSUME RequestsOK, NEW r \in Requests, NEW t \in Traffic, Arrive(r, t[1], t[2], t[3])
  PROVE  /\ RequestsOK' /\ request'[r].at = "limit"
         /\ \A s \in Requests : s # r => request'[s] = request[s]
         /\ OwedOK => OwedOK'
<1>1. PICK e \in Configs(t[2]), header \in XUserID(t[1]) :
        /\ request' = [request EXCEPT ![r] =
             [at |-> "limit", caller |-> t[1], route |-> t[2], config |-> e.path,
              remote |-> t[3], header |-> header, todo |-> e.rules]]
        /\ owed' = [owed EXCEPT ![r] =
             [forged |-> header # SignedIn(t[1]), strategies |-> Due(t[1], RulesOf(e))]]
  BY DEF Arrive
<1> DEFINE q == [at |-> "limit", caller |-> t[1], route |-> t[2], config |-> e.path,
                 remote |-> t[3], header |-> header, todo |-> e.rules]
           o == [forged |-> header # SignedIn(t[1]), strategies |-> Due(t[1], RulesOf(e))]
<1>2. /\ <<t[1], t[2], t[3]>> \in Traffic /\ header \in BOOLEAN /\ e.rules \in Seq(Rules)
      /\ SignedIn(t[1]) \in BOOLEAN
  <2>1. <<t[1], t[2], t[3]>> = t
    BY PipelineAssumptions
  <2>2. header \in BOOLEAN /\ SignedIn(t[1]) \in BOOLEAN
    BY DEF XUserID, SignedIn
  <2>3. e.rules \in Seq(Rules)
    BY TheConfigs
  <2> QED
    BY <2>1, <2>2, <2>3
<1>3. Underway(q) /\ q.at = "limit"
  BY <1>2 DEF Underway, AtLimit
<1>4. o \in Debts
  <2>1. RulesOf(e) \subseteq Rules
    BY <1>2 DEF RulesOf
  <2>2. Due(t[1], RulesOf(e)) \subseteq Strategies
    BY <2>1 DEF Due, Rules
  <2> QED
    BY <1>2, <2>2 DEF Debts
<1>5. Settled(q, o)
  <2>1. ~Passed(q)
    BY DEF Passed
  <2>2. header = SignedIn(t[1]) => Due(t[1], RulesOf(e)) \subseteq Ahead(q)
    <3> SUFFICES ASSUME header = SignedIn(t[1]), NEW x \in Due(t[1], RulesOf(e)) PROVE x \in Ahead(q)
      OBVIOUS
    <3>1. PICK i \in 1..Len(e.rules) : x = e.rules[i].strategy /\ Counts(t[1], header, e.rules[i])
      BY DEF Due, RulesOf
    <3> QED
      BY <3>1 DEF Ahead
  <2>3. o.forged = (header # SignedIn(t[1])) /\ o.strategies = Due(t[1], RulesOf(e))
        /\ q.header = header /\ q.caller = t[1]
    OBVIOUS
  <2> HIDE DEF q, o
  <2> QED
    BY <1>2, <2>1, <2>2, <2>3 DEF Settled
<1>6. request' = [request EXCEPT ![r] = q] /\ owed' = [owed EXCEPT ![r] = o]
  BY <1>1
<1> HIDE DEF q, o
<1>7. /\ RequestsOK' /\ request'[r] = q
      /\ \A s \in Requests : s # r => request'[s] = request[s]
  BY <1>3, <1>6, OneMoves
<1>8. OwedOK => OwedOK'
  BY <1>4, <1>5, <1>6, <1>7, StepOwes
<1> QED
  BY <1>3, <1>7, <1>8

LEMMA DispatchMoves ==
  ASSUME RequestsOK, NEW r \in Requests, Dispatch(r)
  PROVE  RequestsOK' /\ \A s \in Requests : s # r => request'[s] = request[s]
<1> DEFINE c == request[r].caller
           handler == request[r].route.handler
           result == Admission(WhoIs[c], handler)
<1>1. request[r].at = "limit" /\ request[r].at # "idle"
  BY DEF Dispatch
<1>2. c \in Callers /\ \E remote : <<c, request[r].route, remote>> \in Traffic
  BY <1>1, WhereItIs
<1>3. CASE result # "pass"
  <2>1. Answer(r, result)
    BY <1>3 DEF Dispatch
  <2>2. result \in Codes
    <3>1. \A checks : CheckPermissions(WhoIs[c], checks) \in {"unauthorized", "pass", "panic", "forbidden"}
      BY DEF CheckPermissions, CheckResult
    <3> QED
      BY <1>3, <3>1 DEF Admission, Codes
  <2> QED
    BY <1>1, <2>1, <2>2, Answers
<1>4. CASE result = "pass" /\ handler \in MemberHandlers
  <2> DEFINE q == [at |-> "load member", caller |-> c, route |-> request[r].route]
  <2>1. Cleared(c)
    BY <1>2, <1>4, MemberGuard
  <2>2. Underway(q)
    BY <1>2, <2>1 DEF Underway, AtLoad
  <2>3. request' = [request EXCEPT ![r] = q]
    BY <1>4 DEF Dispatch
  <2> HIDE DEF q
  <2> QED
    BY <2>2, <2>3, OneMoves
<1>5. CASE result = "pass" /\ handler \notin MemberHandlers
  <2>1. Answer(r, "served") /\ "served" \in Codes
    BY <1>5 DEF Dispatch, Codes
  <2> QED
    BY <1>1, <2>1, Answers
<1> QED
  BY <1>3, <1>4, <1>5

LEMMA LoadMoves ==
  ASSUME RequestsOK, NEW r \in Requests, NEW m, LoadMember(r, m)
  PROVE  RequestsOK' /\ \A s \in Requests : s # r => request'[s] = request[s]
<1> DEFINE c == request[r].caller
           route == request[r].route
<1>1. request[r].at = "load member" /\ request[r].at # "idle"
  BY DEF LoadMember
<1>2. (\E remote : <<c, route, remote>> \in Traffic) /\ Cleared(c)
  BY <1>1, WhereItIs DEF Underway, AtLimit, AtWrite, AtEnd
<1>3. CASE m \in Members /\ MayTouch(c, m, route.handler)
  <2> DEFINE q == [at |-> "write", caller |-> c, route |-> route, member |-> m]
  <2>1. Underway(q)
    BY <1>2, <1>3 DEF Underway, AtWrite
  <2>2. request' = [request EXCEPT ![r] = q]
    BY <1>3 DEF LoadMember
  <2> HIDE DEF q
  <2> QED
    BY <2>1, <2>2, OneMoves
<1>4. CASE ~(m \in Members /\ MayTouch(c, m, route.handler))
  <2>1. Answer(r, "refused") /\ "refused" \in Codes
    BY <1>4 DEF LoadMember, Codes
  <2> QED
    BY <1>1, <2>1, Answers
<1> QED
  BY <1>3, <1>4

\* What a step does to the requests, whichever it is.
LEMMA NextRequests ==
  RequestsOK /\ [PipelineNext]_pipelineVars => RequestsOK'
<1> SUFFICES ASSUME RequestsOK, [PipelineNext]_pipelineVars PROVE RequestsOK'
  OBVIOUS
<1>1. ASSUME NEW r \in Requests, SkipRule(r) PROVE RequestsOK'
  BY <1>1, NextRules DEF SkipRule
<1>2. ASSUME NEW r \in Requests, NoLimiter(r) PROVE RequestsOK'
  BY <1>2, Answers DEF NoLimiter, Counting, AtRule, Codes
<1>3. ASSUME NEW r \in Requests, Allow(r) PROVE RequestsOK'
  <2>1. AtRule(r) /\ (Answer(r, "limited") \/ NextRule(r))
    BY <1>3 DEF Allow, Counting
  <2> QED
    BY <2>1, NextRules, Answers DEF AtRule, Codes
<1>4. ASSUME NEW r \in Requests, Dispatch(r) PROVE RequestsOK'
  BY <1>4, DispatchMoves
<1>5. ASSUME NEW r \in Requests, NEW m, LoadMember(r, m) PROVE RequestsOK'
  BY <1>5, LoadMoves
<1>6. ASSUME NEW r \in Requests, WriteMember(r) PROVE RequestsOK'
  BY <1>6, Answers DEF WriteMember, Codes
<1>7. ASSUME NEW r \in Requests, Forget(r) PROVE RequestsOK'
  BY <1>7, OneMoves DEF Forget
<1>8. ASSUME NEW r \in Requests, NEW t \in Traffic, Arrive(r, t[1], t[2], t[3]) PROVE RequestsOK'
  BY <1>8, ArriveMoves
<1>9. ASSUME NEW l \in Registered, NEW c \in Keys, WindowEnds(l, c) PROVE RequestsOK'
  BY <1>9 DEF WindowEnds, RequestsOK
<1>10. CASE UNCHANGED pipelineVars
  BY <1>10 DEF pipelineVars, RequestsOK
<1> QED
  BY <1>1, <1>2, <1>3, <1>4, <1>5, <1>6, <1>7, <1>8, <1>9, <1>10 DEF PipelineNext, Progress

\* The type of a request is part of what is known of its way.
LEMMA RequestTypes ==
  ASSUME RequestsOK
  PROVE  \A r \in Requests :
           \/ request[r] = Idle
           \/ /\ request[r].caller \in Callers /\ request[r].route \in Routes
              /\ \/ request[r].at = "limit"
                 \/ request[r].at = "load member"
                 \/ request[r].at = "write" /\ request[r].member \in Members
                 \/ request[r].at = "answered" /\ request[r].code \in Codes
<1> SUFFICES ASSUME NEW r \in Requests, request[r] # Idle
             PROVE  /\ request[r].caller \in Callers /\ request[r].route \in Routes
                    /\ \/ request[r].at = "limit"
                       \/ request[r].at = "load member"
                       \/ request[r].at = "write" /\ request[r].member \in Members
                       \/ request[r].at = "answered" /\ request[r].code \in Codes
  OBVIOUS
<1>1. Underway(request[r])
  BY DEF RequestsOK
<1>2. request[r].caller \in Callers /\ request[r].route \in Routes
  BY <1>1, PipelineAssumptions DEF Underway
<1> QED
  BY <1>1, <1>2 DEF Underway, AtLimit, AtLoad, AtWrite, AtEnd

-----------------------------------------------------------------------------
(* The counters.                                                           *)

CountersOK == /\ count \in [Registered \X Keys -> Nat]
              /\ granted \in [Tallies -> Nat]
              /\ Counted

LEMMA SameCounters ==
  ASSUME CountersOK, UNCHANGED <<count, granted>>
  PROVE  CountersOK'
BY DEF CountersOK, Counted

\* The rule that a request is at, when it has a limiter.
LEMMA RuleParts ==
  ASSUME RequestsOK, NEW r \in Requests, Counting(r), Limiter(r) \in Registered
  PROVE  /\ Tally(r) \in Tallies
         /\ LimiterOf(Tally(r)) = Limiter(r)
         /\ CounterOf(Tally(r)) = <<Limiter(r), KeyOf(r)>>
         /\ CounterOf(Tally(r)) \in Registered \X Keys
         /\ Limit[Limiter(r)] \in Nat
<1> DEFINE strategy == Head(request[r].todo).strategy
<1>1. <<request[r].caller, request[r].route, request[r].remote>> \in Traffic
  BY WhereItIs DEF Counting, AtRule, Underway, AtLimit, AtLoad, AtWrite, AtEnd
<1>2. strategy \in Strategies /\ Limit[Limiter(r)] \in Nat
  BY Limits DEF Limiter
<1>7. KeyOf(r) = IF strategy = "anonymous" THEN request[r].remote ELSE request[r].caller
  BY DEF KeyOf, Key
<1>8. KeyOf(r) \in Keys
  BY <1>1, <1>7, PipelineAssumptions DEF Keys
<1>3. Tally(r) = <<request[r].route, strategy, KeyOf(r)>>
      /\ Limiter(r) = <<request[r].route.method, request[r].route.path, strategy>>
  BY DEF Tally, Limiter
<1> HIDE DEF strategy
<1>4. Tally(r) \in Tallies
  <2>1. CASE strategy = "anonymous"
    BY <1>1, <1>3, <1>7, <2>1 DEF Tallies
  <2>2. CASE strategy = "authenticated"
    BY <1>1, <1>3, <1>7, <2>2 DEF Tallies
  <2> QED
    BY <1>2, <2>1, <2>2 DEF Strategies
<1>5. LimiterOf(Tally(r)) = Limiter(r)
  BY <1>3 DEF LimiterOf
<1>6. CounterOf(Tally(r)) = <<Limiter(r), KeyOf(r)>>
  BY <1>3, <1>5 DEF CounterOf
<1> QED
  BY <1>2, <1>4, <1>5, <1>6, <1>8

\* A request that is counted: let through below the limit, refused at it.
LEMMA OneMore ==
  ASSUME NEW n \in Nat, NEW limit \in Nat
  PROVE  /\ (IF n > limit THEN n ELSE n + 1) \in Nat
         /\ Reached(n + 1, limit) =>
              Through(IF n > limit THEN n ELSE n + 1, limit) = Through(n, limit)
              /\ Through(n, limit) = limit
         /\ ~Reached(n + 1, limit) =>
              Through(IF n > limit THEN n ELSE n + 1, limit) = Through(n, limit) + 1
BY DEF Reached, Through

LEMMA AllowCounts ==
  ASSUME RequestsOK, CountersOK, NEW r \in Requests, Allow(r)
  PROVE  CountersOK'
<1> DEFINE h == Tally(r)
           k == CounterOf(h)
           limit == Limit[Limiter(r)]
           n == count[k]
           m == IF n > limit THEN n ELSE n + 1
<1>1. /\ h \in Tallies /\ LimiterOf(h) = Limiter(r) /\ k = <<Limiter(r), KeyOf(r)>>
      /\ k \in Registered \X Keys /\ limit \in Nat
  BY RuleParts DEF Allow
<1>2. n \in Nat /\ granted[h] = Through(n, limit) /\ granted[h] \in Nat
  BY <1>1 DEF CountersOK, Counted, Allow
<1>3. count' = [count EXCEPT ![k] = m]
  BY <1>1 DEF Allow
<1>4. IF Reached(n + 1, limit) THEN granted' = granted
                               ELSE granted' = [granted EXCEPT ![h] = granted[h] + 1]
  BY <1>1 DEF Allow
<1>5. m \in Nat /\ granted'[h] = Through(m, limit)
      /\ granted' \in [Tallies -> Nat]
      /\ \A g \in Tallies : g # h => granted'[g] = granted[g]
  <2> HIDE DEF h, n, limit, k
  <2>1. CASE Reached(n + 1, limit)
    BY <1>1, <1>2, <1>4, <2>1, OneMore DEF CountersOK
  <2>2. CASE ~Reached(n + 1, limit)
    BY <1>1, <1>2, <1>4, <2>2, OneMore DEF CountersOK
  <2> QED
    BY <2>1, <2>2
<1> HIDE DEF m, n, limit
<1>6. count' \in [Registered \X Keys -> Nat] /\ count'[k] = m
      /\ \A j \in Registered \X Keys : j # k => count'[j] = count[j]
  BY <1>1, <1>3, <1>5 DEF CountersOK
<1>7. ASSUME NEW g \in Tallies, LimiterOf(g) \in Registered
      PROVE  granted'[g] = Through(count'[CounterOf(g)], Limit[LimiterOf(g)])
  <2>1. CASE g = h
    BY <1>1, <1>5, <1>6, <2>1 DEF limit
  <2>2. CASE g # h
    <3>1. CounterOf(g) # k
      BY <1>1, <2>2, OneTally
    <3>2. CounterOf(g) \in Registered \X Keys
      BY <1>7, TallyParts DEF CounterOf
    <3> QED
      BY <1>5, <1>6, <1>7, <2>2, <3>1, <3>2 DEF CountersOK, Counted
  <2> QED
    BY <2>1, <2>2
<1> QED
  BY <1>5, <1>6, <1>7 DEF CountersOK, Counted

LEMMA WindowCounts ==
  ASSUME CountersOK, NEW l \in Registered, NEW c \in Keys, WindowEnds(l, c)
  PROVE  CountersOK'
<1>1. /\ count' = [count EXCEPT ![<<l, c>>] = 0]
      /\ granted' = [g \in Tallies |-> IF g[3] = c /\ LimiterOf(g) = l THEN 0 ELSE granted[g]]
  BY DEF WindowEnds, CountersOK, LimiterOf
<1>2. count' \in [Registered \X Keys -> Nat] /\ granted' \in [Tallies -> Nat]
  BY <1>1 DEF CountersOK
<1>3. ASSUME NEW g \in Tallies, LimiterOf(g) \in Registered
      PROVE  granted'[g] = Through(count'[CounterOf(g)], Limit[LimiterOf(g)])
  <2>1. CounterOf(g) = <<LimiterOf(g), g[3]>> /\ CounterOf(g) \in Registered \X Keys
    BY <1>3, TallyParts DEF CounterOf
  <2>2. Limit[LimiterOf(g)] \in Nat
    BY <1>3, Limits
  <2>3. CASE g[3] = c /\ LimiterOf(g) = l
    <3>1. granted'[g] = 0 /\ count'[CounterOf(g)] = 0
      BY <1>1, <2>1, <2>3 DEF CountersOK
    <3> QED
      BY <2>2, <3>1 DEF Through
  <2>4. CASE ~(g[3] = c /\ LimiterOf(g) = l)
    <3>1. granted'[g] = granted[g] /\ count'[CounterOf(g)] = count[CounterOf(g)]
      BY <1>1, <2>1, <2>4 DEF CountersOK
    <3> QED
      BY <1>3, <3>1 DEF CountersOK, Counted
  <2> QED
    BY <2>3, <2>4
<1> QED
  BY <1>2, <1>3 DEF CountersOK, Counted

LEMMA NextCounters ==
  RequestsOK /\ CountersOK /\ [PipelineNext]_pipelineVars => CountersOK'
<1> SUFFICES ASSUME RequestsOK, CountersOK, [PipelineNext]_pipelineVars PROVE CountersOK'
  OBVIOUS
<1>1. ASSUME NEW r \in Requests, Allow(r) PROVE CountersOK'
  BY <1>1, AllowCounts
<1>2. ASSUME NEW l \in Registered, NEW c \in Keys, WindowEnds(l, c) PROVE CountersOK'
  BY <1>2, WindowCounts
<1>3. CASE UNCHANGED <<count, granted>>
  BY <1>3, SameCounters
<1> QED
  BY <1>1, <1>2, <1>3 DEF PipelineNext, Progress, SkipRule, NoLimiter, Dispatch, LoadMember,
     WriteMember, Forget, Arrive, pipelineVars

-----------------------------------------------------------------------------
(* What a request owes the limiter.                                        *)

LEMMA SameOwes ==
  ASSUME OwedOK, NEW r \in Requests, owed' = owed, Settled(request'[r], owed[r]),
         \A s \in Requests : s # r => request'[s] = request[s]
  PROVE  OwedOK'
<1>1. \A s \in Requests : Settled(request'[s], owed'[s])
  BY DEF OwedOK
<1> QED
  BY <1>1 DEF OwedOK

\* The rule at the head is counted, or does not concern the request.
LEMMA AheadOfTail ==
  ASSUME NEW q, q.todo \in Seq(Rules), q.todo # <<>>,
         NEW t, t.todo = Tail(q.todo), t.caller = q.caller, t.header = q.header
  PROVE  /\ ~Counts(q.caller, q.header, Head(q.todo)) => Ahead(q) \subseteq Ahead(t)
         /\ Ahead(q) \ {Head(q.todo).strategy} \subseteq Ahead(t)
<1> SUFFICES ASSUME NEW x \in Ahead(q),
                    ~Counts(q.caller, q.header, Head(q.todo)) \/ x # Head(q.todo).strategy
             PROVE  x \in Ahead(t)
  OBVIOUS
<1>1. PICK i \in 1..Len(q.todo) : x = q.todo[i].strategy /\ Counts(q.caller, q.header, q.todo[i])
  BY DEF Ahead
<1>2. Head(q.todo) = q.todo[1]
  OBVIOUS
<1>3. i # 1
  BY <1>1, <1>2
<1>4. Len(q.todo) \in Nat /\ Len(t.todo) = Len(q.todo) - 1
  OBVIOUS
<1>5. i - 1 \in 1..Len(t.todo)
  BY <1>3, <1>4
<1>6. t.todo[i - 1] = q.todo[i]
  BY <1>4, <1>5
<1> QED
  BY <1>1, <1>5, <1>6 DEF Ahead

LEMMA RuleOwes ==
  ASSUME RequestsOK, OwedOK, NEW r \in Requests, AtRule(r), NextRule(r),
         \/ ~Counting(r) /\ owed' = owed
         \/ owed' = [owed EXCEPT ![r].strategies = @ \ {Head(request[r].todo).strategy}]
  PROVE  OwedOK'
<1> DEFINE q == request[r]
           t == [at |-> "limit", caller |-> request[r].caller, route |-> request[r].route,
                 config |-> request[r].config, remote |-> request[r].remote,
                 header |-> request[r].header, todo |-> Tail(request[r].todo)]
           rest == IF Counting(r) \/ owed' # owed
                     THEN owed[r].strategies \ {Head(request[r].todo).strategy} ELSE owed[r].strategies
           o == [forged |-> owed[r].forged, strategies |-> rest]
<1>1. request'[r] = t /\ \A s \in Requests : s # r => request'[s] = request[s]
  BY NextRules, Zenon
<1>2. AtLimit(q) /\ q.todo # <<>> /\ q.at = "limit"
  BY WhereItIs DEF AtRule, Underway, AtLimit, AtLoad, AtWrite, AtEnd
<1>3. q.todo \in Seq(Rules)
  BY <1>2 DEF AtLimit
<1>4. /\ ~Counts(q.caller, q.header, Head(q.todo)) => Ahead(q) \subseteq Ahead(t)
      /\ Ahead(q) \ {Head(q.todo).strategy} \subseteq Ahead(t)
  <2>1. t.todo = Tail(q.todo) /\ t.caller = q.caller /\ t.header = q.header
    OBVIOUS
  <2> HIDE DEF q, t
  <2> QED
    BY <1>2, <1>3, <2>1, AheadOfTail
<1>5. owed[r] \in Debts /\ Settled(q, owed[r])
  BY DEF OwedOK
<1>6. o \in Debts
  BY <1>5 DEF Debts
<1>7. Settled(t, o)
  <2>1. owed[r].forged \/ (q.header = SignedIn(q.caller) /\ owed[r].strategies \subseteq Ahead(q))
    BY <1>2, <1>5 DEF Settled
  <2>2. owed[r].forged \/ rest \subseteq Ahead(t)
    <3>1. CASE Counting(r) \/ owed' # owed
      BY <1>4, <2>1, <3>1
    <3>2. CASE ~Counting(r) /\ owed' = owed
      <4>1. ~Counts(q.caller, q.header, Head(q.todo))
        BY <3>2 DEF Counting
      <4> QED
        BY <1>4, <2>1, <3>2, <4>1
    <3> QED
      BY <3>1, <3>2
  <2>3. ~Passed(t)
    BY DEF Passed
  <2>4. t.header = q.header /\ t.caller = q.caller /\ o.forged = owed[r].forged /\ o.strategies = rest
    OBVIOUS
  <2> HIDE DEF t, o, rest
  <2> QED
    BY <2>1, <2>2, <2>3, <2>4 DEF Settled
<1>8. owed' = [owed EXCEPT ![r] = o]
  <2>1. owed[r] = [forged |-> owed[r].forged, strategies |-> owed[r].strategies]
    BY <1>5 DEF Debts
  <2>2. CASE ~Counting(r) /\ owed' = owed
    BY <2>1, <2>2 DEF OwedOK
  <2>3. CASE owed' = [owed EXCEPT ![r].strategies = @ \ {Head(request[r].todo).strategy}]
    <3> DEFINE less == owed[r].strategies \ {Head(request[r].todo).strategy}
    <3>1. owed' = [owed EXCEPT ![r] = [forged |-> owed[r].forged, strategies |-> less]]
      BY <2>1, <2>3
    <3>2. rest = less
      <4>1. CASE owed' # owed
        BY <4>1
      <4>2. CASE owed' = owed
        <5>1. owed'[r].strategies = less
          BY <3>1 DEF OwedOK
        <5> QED
          BY <4>2, <5>1
      <4> QED
        BY <4>1, <4>2
    <3> QED
      BY <3>1, <3>2
  <2> QED
    BY <2>2, <2>3
<1> HIDE DEF o, t
<1> QED
  BY <1>1, <1>6, <1>7, <1>8, StepOwes

LEMMA NextOwed ==
  RequestsOK /\ OwedOK /\ [PipelineNext]_pipelineVars => OwedOK'
<1> SUFFICES ASSUME RequestsOK, OwedOK, [PipelineNext]_pipelineVars PROVE OwedOK'
  OBVIOUS
<1>1. ASSUME NEW r \in Requests, SkipRule(r) PROVE OwedOK'
  BY <1>1, RuleOwes DEF SkipRule
<1>2. ASSUME NEW r \in Requests, NEW code \in {"panic", "limited"}, request[r].at = "limit",
             Answer(r, code), owed' = owed
      PROVE  OwedOK'
  <2>1. request'[r] = Answered(request[r], code)
        /\ \A s \in Requests : s # r => request'[s] = request[s]
    BY <1>2, Answers DEF Codes
  <2>2. Settled(request'[r], owed[r])
    BY <1>2, <2>1 DEF Answered, Settled, Passed
  <2> QED
    BY <1>2, <2>1, <2>2, SameOwes
<1>3. ASSUME NEW r \in Requests, NoLimiter(r) PROVE OwedOK'
  BY <1>2, <1>3 DEF NoLimiter, Counting, AtRule
<1>4. ASSUME NEW r \in Requests, Allow(r) PROVE OwedOK'
  <2>1. /\ AtRule(r)
        /\ \/ Answer(r, "limited") /\ owed' = owed
           \/ NextRule(r) /\ owed' = [owed EXCEPT ![r].strategies = @ \ {Head(request[r].todo).strategy}]
    BY <1>4 DEF Allow, Counting
  <2> QED
    BY <1>2, <2>1, RuleOwes DEF AtRule
\* Once the rules are through nothing is owed, and nothing will be.
<1>5. ASSUME NEW r \in Requests, owed' = owed,
             Passed(request[r]) \/ (request[r].at = "limit" /\ request[r].todo = <<>>),
             request'[r].at # "limit",
             \A s \in Requests : s # r => request'[s] = request[s]
      PROVE  OwedOK'
  <2>1. Settled(request[r], owed[r])
    BY DEF OwedOK
  <2>2. owed[r].forged \/ owed[r].strategies = {}
    <3>1. CASE request[r].at = "limit" /\ request[r].todo = <<>>
      <4>1. Ahead(request[r]) = {}
        BY <3>1 DEF Ahead
      <4> QED
        BY <2>1, <3>1, <4>1 DEF Settled
    <3> QED
      BY <1>5, <2>1, <3>1 DEF Settled
  <2>3. Settled(request'[r], owed[r])
    BY <1>5, <2>2 DEF Settled
  <2> QED
    BY <1>5, <2>3, SameOwes
<1>6. ASSUME NEW r \in Requests, Dispatch(r) PROVE OwedOK'
  <2>1. /\ request[r].at = "limit" /\ request[r].todo = <<>> /\ owed' = owed
        /\ \A s \in Requests : s # r => request'[s] = request[s]
    BY <1>6, DispatchMoves DEF Dispatch
  <2>2. request'[r].at # "limit"
    <3>1. DOMAIN request = Requests
      BY DEF RequestsOK
    <3>2. ASSUME NEW code, Answer(r, code) PROVE request'[r].at = "answered"
      BY <3>1, <3>2 DEF Answer
    <3>3. \/ \E code : Answer(r, code)
          \/ request' = [request EXCEPT ![r] = [at |-> "load member", caller |-> request[r].caller,
                                                route |-> request[r].route]]
      BY <1>6 DEF Dispatch
    <3> DEFINE q == [at |-> "load member", caller |-> request[r].caller, route |-> request[r].route]
    <3>4. ASSUME request' = [request EXCEPT ![r] = q] PROVE request'[r].at = "load member"
      <4>1. q.at = "load member"
        OBVIOUS
      <4> HIDE DEF q
      <4> QED
        BY <3>1, <3>4, <4>1
    <3> QED
      BY <3>2, <3>3, <3>4
  <2> QED
    BY <1>5, <2>1, <2>2
<1>7. ASSUME NEW r \in Requests, NEW m, LoadMember(r, m) PROVE OwedOK'
  <2>1. /\ request[r].at = "load member" /\ owed' = owed
        /\ \A s \in Requests : s # r => request'[s] = request[s]
    BY <1>7, LoadMoves DEF LoadMember
  <2>2. request'[r].at # "limit"
    <3>1. DOMAIN request = Requests
      BY DEF RequestsOK
    <3>2. ASSUME NEW code, Answer(r, code) PROVE request'[r].at = "answered"
      BY <3>1, <3>2 DEF Answer
    <3>3. \/ \E code : Answer(r, code)
          \/ request' = [request EXCEPT ![r] = [at |-> "write", caller |-> request[r].caller,
                                                route |-> request[r].route, member |-> m]]
      BY <1>7 DEF LoadMember
    <3> QED
      BY <3>1, <3>2, <3>3
  <2> QED
    BY <1>5, <2>1, <2>2 DEF Passed
<1>8. ASSUME NEW r \in Requests, WriteMember(r) PROVE OwedOK'
  <2>1. request[r].at = "write" /\ owed' = owed /\ Answer(r, "served") /\ "served" \in Codes
    BY <1>8 DEF WriteMember, Codes
  <2>2. /\ request'[r] = Answered(request[r], "served")
        /\ \A s \in Requests : s # r => request'[s] = request[s]
    BY <2>1, Answers
  <2>3. request'[r].at # "limit"
    BY <2>2 DEF Answered
  <2> QED
    BY <1>5, <2>1, <2>2, <2>3 DEF Passed
<1>9. ASSUME NEW r \in Requests, Forget(r) PROVE OwedOK'
  <2>1. Settled(Idle, Nothing) /\ Nothing \in Debts
    BY DEF Settled, Passed, Idle, Nothing, Debts
  <2>2. /\ owed' = [owed EXCEPT ![r] = Nothing] /\ request'[r] = Idle
        /\ \A s \in Requests : s # r => request'[s] = request[s]
    BY <1>9, OneMoves DEF Forget
  <2> QED
    BY <2>1, <2>2, StepOwes
<1>10. ASSUME NEW r \in Requests, NEW t \in Traffic, Arrive(r, t[1], t[2], t[3]) PROVE OwedOK'
  BY <1>10, ArriveMoves
<1>11. CASE UNCHANGED <<request, owed>>
  BY <1>11 DEF OwedOK
<1> QED
  BY <1>1, <1>3, <1>4, <1>6, <1>7, <1>8, <1>9, <1>10, <1>11
     DEF PipelineNext, Progress, WindowEnds, pipelineVars

-----------------------------------------------------------------------------
(* The accounts of administrators.                                         *)

LEMMA WriteParts ==
  ASSUME RequestsOK, NEW r \in Requests, request[r].at = "write"
  PROVE  /\ request[r].caller \in Callers /\ request[r].member \in Members
         /\ Cleared(request[r].caller)
         /\ MayTouch(request[r].caller, request[r].member, request[r].route.handler)
BY WhereItIs DEF Underway, AtLimit, AtLoad, AtEnd

AccountsOK == disabled \subseteq Members /\ EldestSuperStays

LEMMA NextAccounts ==
  RequestsOK /\ AccountsOK /\ [PipelineNext]_pipelineVars => AccountsOK'
<1> SUFFICES ASSUME RequestsOK, AccountsOK, [PipelineNext]_pipelineVars PROVE AccountsOK'
  OBVIOUS
<1>1. ASSUME NEW r \in Requests, WriteMember(r) PROVE AccountsOK'
  <2> DEFINE c == request[r].caller
             m == request[r].member
             handler == request[r].route.handler
  <2>1. c \in Callers /\ m \in Members /\ Cleared(c) /\ MayTouch(c, m, handler)
    BY <1>1, WriteParts DEF WriteMember
  <2>2. \/ handler = "disableAdminAccount" /\ disabled' = disabled \cup {m}
        \/ disabled' \subseteq disabled
    BY <1>1 DEF WriteMember
  <2>3. handler = "disableAdminAccount" => ~Eldest(m)
    BY <2>1, EldestIsProtected
  <2> HIDE DEF c, m, handler
  <2> QED
    BY <2>1, <2>2, <2>3 DEF AccountsOK, EldestSuperStays
<1>2. CASE UNCHANGED disabled
  BY <1>2 DEF AccountsOK, EldestSuperStays
<1> QED
  BY <1>1, <1>2 DEF PipelineNext, Progress, SkipRule, NoLimiter, Allow, WindowEnds, Dispatch,
     LoadMember, Forget, Arrive, pipelineVars

-----------------------------------------------------------------------------
LEMMA IInvParts == IInv <=> RequestsOK /\ CountersOK /\ OwedOK /\ AccountsOK
<1>1. IInv => RequestsOK /\ CountersOK /\ OwedOK /\ AccountsOK
  BY DEF IInv, TypeOK, CountersOK, AccountsOK
<1>2. RequestsOK /\ CountersOK /\ OwedOK /\ AccountsOK => IInv
  BY RequestTypes DEF IInv, TypeOK, CountersOK, AccountsOK, OwedOK, Debts
<1> QED
  BY <1>1, <1>2

LEMMA NextIInv == IInv /\ [PipelineNext]_pipelineVars => IInv'
<1>1. RequestsOK /\ CountersOK /\ OwedOK /\ AccountsOK /\ [PipelineNext]_pipelineVars
        => (RequestsOK /\ CountersOK /\ OwedOK /\ AccountsOK)'
  BY NextRequests, NextCounters, NextOwed, NextAccounts
<1>2. IInv' <=> (RequestsOK /\ CountersOK /\ OwedOK /\ AccountsOK)'
  BY IInvParts, PTL
<1> QED
  BY <1>1, <1>2, IInvParts

\* The invariant holds of every run, whatever the table of limits, the traffic
\* and the number of requests under way.
THEOREM Invariance == PipelineSpec => []IInv
<1> QED
  BY InitIInv, NextIInv, PTL DEF PipelineSpec

\* However many requests meet at a counter, no window lets more of them through
\* than the limit of their path, and no request passes that the rules for its
\* caller have not counted, but for anonymous ones with an X-User-ID of their own:
\* RateLimiterService.Middleware and the library's counter.
THEOREM LimitsAreKept == PipelineSpec => []WithinLimit
<1>1. IInv => WithinLimit
  <2>3. IInv => \A r \in Requests : Passed(request[r]) => owed[r].forged \/ owed[r].strategies = {}
    BY DEF IInv, OwedOK, Settled
  <2> SUFFICES ASSUME IInv, NEW g \in Tallies, LimiterOf(g) \in Registered
               PROVE  granted[g] <= Limit[LimiterOf(g)]
    BY <2>3 DEF IInv, TypeOK, WithinLimit, LimiterOf
  <2>1. /\ Limit[LimiterOf(g)] \in Nat /\ CounterOf(g) \in Registered \X Keys
        /\ granted[g] = Through(count[CounterOf(g)], Limit[LimiterOf(g)])
    BY Limits, TallyParts DEF CounterOf, IInv, Counted
  <2>2. count[CounterOf(g)] \in Nat
    BY <2>1 DEF IInv, TypeOK
  <2> QED
    BY <2>1, <2>2 DEF Through
<1> QED
  BY <1>1, Invariance, PTL

\* A request is refused only when the window has let through as many of its
\* kind as the limit says.
THEOREM RefusalsAreEarned == PipelineSpec => RefusedAtLimit
<1>1. ASSUME IInv, [PipelineNext]_pipelineVars, NEW r \in Requests, Counting(r),
             request'[r].at = "answered", request'[r].code = "limited"
      PROVE  granted[Tally(r)] >= Limit[Limiter(r)]
  <2>1. RequestsOK /\ CountersOK
    BY <1>1, IInvParts
  <2>2. request'[r] # request[r]
    BY <1>1 DEF Counting, AtRule
  <2>3. ASSUME NEW s \in Requests, Progress(s) \/ Forget(s) \/ (\E t \in Traffic : Arrive(s, t[1], t[2], t[3]))
        PROVE  s = r
    <3>1. CASE SkipRule(s)
      BY <2>1, <2>2, <3>1, NextRules DEF SkipRule
    <3>2. CASE NoLimiter(s)
      BY <2>1, <2>2, <3>2, Answers DEF NoLimiter, Counting, AtRule, Codes
    <3>3. CASE Allow(s)
      <4>1. AtRule(s) /\ (Answer(s, "limited") \/ NextRule(s))
        BY <3>3 DEF Allow, Counting
      <4> QED
        BY <2>1, <2>2, <4>1, NextRules, Answers DEF AtRule, Codes
    <3>4. CASE Dispatch(s)
      BY <2>1, <2>2, <3>4, DispatchMoves
    <3>5. CASE WriteMember(s)
      BY <2>1, <2>2, <3>5, Answers DEF WriteMember, Codes
    <3>6. CASE \E m \in Members \cup {NoMember} : LoadMember(s, m)
      BY <2>1, <2>2, <3>6, LoadMoves
    <3>7. CASE Forget(s)
      BY <2>1, <2>2, <3>7, OneMoves DEF Forget
    <3>8. CASE \E t \in Traffic : Arrive(s, t[1], t[2], t[3])
      BY <2>1, <2>2, <3>8, ArriveMoves
    <3> QED
      BY <2>3, <3>1, <3>2, <3>3, <3>4, <3>5, <3>6, <3>7, <3>8 DEF Progress
  <2>4. Progress(r) \/ Forget(r) \/ (\E t \in Traffic : Arrive(r, t[1], t[2], t[3]))
    <3>1. \/ \E s \in Requests : \/ Progress(s) \/ Forget(s)
                                \/ \E t \in Traffic : Arrive(s, t[1], t[2], t[3])
          \/ UNCHANGED request
      BY <1>1 DEF PipelineNext, WindowEnds, pipelineVars
    <3> QED
      BY <2>2, <2>3, <3>1
  <2>5. ~SkipRule(r) /\ ~NextRule(r)
    <3>1. AtRule(r) /\ ~SkipRule(r)
      BY <1>1 DEF SkipRule, Counting
    <3>2. ASSUME NextRule(r) PROVE request'[r].at = "limit"
      <4>1. request'[r] = [at |-> "limit", caller |-> request[r].caller, route |-> request[r].route,
                           config |-> request[r].config, remote |-> request[r].remote,
                           header |-> request[r].header, todo |-> Tail(request[r].todo)]
        BY <2>1, <3>1, <3>2, NextRules, Zenon
      <4> QED
        BY <4>1
    <3> QED
      BY <1>1, <3>1, <3>2
  <2>6. ~NoLimiter(r)
    <3> SUFFICES ASSUME NoLimiter(r) PROVE FALSE
      OBVIOUS
    <3>1. request'[r] = Answered(request[r], "panic")
      BY <2>1, Answers DEF NoLimiter, Counting, AtRule, Codes
    <3> QED
      BY <1>1, <3>1 DEF Answered
  <2>7. Allow(r)
    BY <1>1, <2>1, <2>4, <2>5, <2>6, ArriveMoves
       DEF Progress, Counting, AtRule, Dispatch, WriteMember, LoadMember, Forget, Arrive, Idle
  <2>8. /\ Tally(r) \in Tallies /\ LimiterOf(Tally(r)) = Limiter(r) /\ Limiter(r) \in Registered
        /\ CounterOf(Tally(r)) = <<Limiter(r), KeyOf(r)>>
        /\ CounterOf(Tally(r)) \in Registered \X Keys
        /\ Limit[Limiter(r)] \in Nat
    BY <1>1, <2>1, <2>7, RuleParts DEF Allow
  <2>9. Reached(count[CounterOf(Tally(r))] + 1, Limit[Limiter(r)])
    BY <2>5, <2>7, <2>8 DEF Allow
  <2>10. /\ count[CounterOf(Tally(r))] \in Nat
         /\ granted[Tally(r)] = Through(count[CounterOf(Tally(r))], Limit[Limiter(r)])
    BY <2>1, <2>8 DEF CountersOK, Counted
  <2> QED
    BY <2>8, <2>9, <2>10, OneMore
<1>2. IInv /\ [PipelineNext]_pipelineVars =>
        [\A r \in Requests :
           Counting(r) /\ request'[r].at = "answered" /\ request'[r].code = "limited"
             => granted[Tally(r)] >= Limit[Limiter(r)]]_pipelineVars
  BY <1>1
<1> QED
  BY <1>2, Invariance, PTL DEF PipelineSpec, RefusedAtLimit

\* Whatever administrators do to each other at the same time, the eldest super
\* administrator keeps the account: disableAdminAccount and its relatives.
THEOREM EldestStays == PipelineSpec => []EldestSuperStays
<1> QED
  BY Invariance, PTL DEF IInv

\* An account is disabled and enabled only by someone else of sufficient rank:
\* the checks of the routes hold until the row is written.
THEOREM RankDecides == PipelineSpec => DisabledByRank
<1>1. ASSUME IInv, [PipelineNext]_pipelineVars, NEW m \in Members,
             (m \in disabled) # (m \in disabled')
      PROVE  \E r \in Requests :
               /\ request[r].at = "write" /\ request[r].member = m
               /\ request[r].caller # m
               /\ GetRank(WhoIs[request[r].caller].level) >= GetRank("manager")
               /\ GetRank(WhoIs[request[r].caller].level) >= GetRank(WhoIs[m].level)
  <2>1. RequestsOK
    BY <1>1 DEF IInv
  <2>2. PICK r \in Requests : WriteMember(r)
    <3>1. \/ \E r \in Requests : WriteMember(r)
          \/ disabled' = disabled
      BY <1>1 DEF PipelineNext, Progress, SkipRule, NoLimiter, Allow, WindowEnds, Dispatch,
         LoadMember, Forget, Arrive, pipelineVars
    <3> QED
      BY <1>1, <3>1
  <2>3. request[r].at = "write" /\ request[r].member = m
    BY <1>1, <2>2 DEF WriteMember
  <2>4. /\ Cleared(request[r].caller)
        /\ MayTouch(request[r].caller, m, request[r].route.handler)
    BY <2>1, <2>3, WriteParts
  <2> QED
    BY <2>3, <2>4 DEF Cleared, MayTouch, CanModifyAdminLevel, HasAccessTo
<1>2. IInv /\ [PipelineNext]_pipelineVars =>
        [\A m \in Members : (m \in disabled) # (m \in disabled') =>
           \E r \in Requests :
             /\ request[r].at = "write" /\ request[r].member = m
             /\ request[r].caller # m
             /\ GetRank(WhoIs[request[r].caller].level) >= GetRank("manager")
             /\ GetRank(WhoIs[request[r].caller].level)
                  >= GetRank(WhoIs[m].level)]_pipelineVars
  BY <1>1
<1> QED
  BY <1>2, Invariance, PTL DEF PipelineSpec, DisabledByRank
=============================================================================
