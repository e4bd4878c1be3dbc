# Verification of buyr-api

buyr-api is the HTTP backend of a multi-vendor shop, written in Go: a chi
router in front of PostgreSQL, Redis for caches and one-time tokens, asynq (a
task queue in Redis) for background work and cron jobs, Stripe for payments.
This directory holds TLA+ models of the parts whose correctness depends on the
order in which things happen, TLC configurations that check them on small
instances, and TLAPS proofs for every instance.

Checking a model: `tlc -config MCSessions.cfg MCSessions.tla`. Checking the
proofs: `tlapm SessionsProofs.tla`, and so on for every module named
`...Proofs` (`AccountsProofs` and `CatalogueProofs` take minutes). `PROJECT.json` lists the runs with
their properties, the mutants, the lines of Go each definition stands for, the
findings, the hazards and the theorems.

## 1. Inventory

Paths are relative to `src/`. "M" marks what is modelled, "p" partly, "–" not;
section 9 gives the reasons.

| component | state it keeps | operations | interacts with |
|---|---|---|---|
| M payment pipeline: `cmd/api/orders.go`, `internal/store/payments.go`, `worker/task_process_order_payment.go`, `internal/payment` | `orders.status`, `orders.paid`, `payments`, Stripe's sessions | initiatePayment, handleStripeWebhook, ProcessTaskConfirmOrderPayment, Payments.Create | queue, carts, promo job |
| M task queue: `worker/distributor.go`, `processor.go` | tasks by id, uniqueness locks, retry counts | enqueue, dequeue, retry, archive | every background task |
| M promo reclaim job: `worker/scheduler` | `promos.used_count`, `orders.status` | one cron run a minute: list, release, mark | the orders table |
| M login sessions: `internal/store/sessions.go`, `cmd/api/auth.go`, `helpers.go` | `sessions`, tokens held by clients | sign-in, refresh, extension, invalidation, last use | users |
| M password reset: `cmd/api/auth.go` | the payload of one-time tokens, the password, the 2FA flag | request, confirm, 2FA or recovery code, reset | token store |
| p token store: `internal/store/cache/token.go` | a key per token, a set per user and scope, their expiries | Insert, Get, DeleteAllForUser | reset, activation, sign-in, e-mail change |
| M sign-up and activation: `auth.go`, `oauth.go`, `admins.go`, `vendors.go`, `store/users.go` | users, activation tokens | register, create vendor or admin, Google, activate | token store, e-mail |
| M account security: `two_factor_auth.go`, `users.go`, `store/cache/user.go` | 2FA secret, recovery codes, cached users | sign in with a code, set 2FA up, codes, change password or e-mail | token store, user cache |
| M addresses: `internal/store/addresses.go` | `is_default` per address | create, set default | – |
| M cart: `store/cart.go`, `cmd/api/carts.go` | cart items, quantities | create, add, change, remove, clear ordered items | products, checkout |
| M checkout and promo codes: `orders.go`, `store/promos.go` | orders, `used_count` | handleCheckout, FindByCode, ValidatePromoCode, IncrementUsage, ReleaseUsage | cart, payment, promo job |
| M rate limiter: `internal/ratelimiter`, `cmd/api/ratelimiter.go` | a limiter per strategy and endpoint, counters in Redis | match an entry, count, refuse | every route |
| M admin levels and permissions: `admins.go`, `permission.go` | admin levels, `disabled` | change role, enable, disable | every guarded route |
| M products: `store/products.go`, `cmd/api/products.go` | status, published flag, features, images | create, publish, approve, reject, show | categories, carts |
| M reviews, wishlists, categories, option types: their `store/*.go` | their rows | create, list, hide, delete | products, the pool of connections |
| M vendors, pagination: `store/paginate.go` and every listing | – | parse, LIMIT and OFFSET, metadata | clients |
| p audit log, order queries, e-mail tasks | – | listings; the enqueueing of the confirmation | – |
| – files, secrets, HTTP plumbing, configuration | – | – | – |

Components meet in three places: the rows of PostgreSQL, which API handlers,
payment workers and cron runs update with independent statements; the keys of
Redis, which handlers read, change and write back; and the queue, through which
the webhook hands work to the workers under a task id.

### What is hard here

* **Delivery.** Stripe repeats a webhook until it sees a 2xx; asynq repeats a
  task whose handler fails, panics or dies. What ran once may run again, and a
  refused enqueue leaves a uniqueness lock behind.
* **Independent writers of one row.** `orders.status` is written by payment
  workers (`setProcessingOrder`) and cron runs (`UpdateStatus`), neither of
  which looks at the status it replaces.
* **Read, then write.** Cron runs walk a list fetched earlier; reset handlers
  write back a payload they have read; `refreshToken` checks a row and extends
  it later; a checkout prices what it has read; an address is found free in one
  request and stored in another; a category is looked at before the transaction
  that uses it.
* **Steps outside a transaction.** The counting and the release of a promo use; the
  Redis commands of one token insert; a token or mail after its account.
* **Shared connections.** Transactions keep a connection each, and one handler takes
  more while it holds one.
* **Stale copies.** The user cache is never invalidated, and lacks the very
  fields that decide about a second factor.
* **Two names for one thing.** The limiter finds rules by pattern and counters by
  literal path, and takes who is signed in from a header but whose key it is from the
  context. Accounts are looked up by `ILIKE`, which takes `_` and `%` for wildcards, and
  kept apart by equality. Pages are cut by OFFSET from rows that move or tie.
* **Time.** Sessions and tokens expire between a check and the use of its
  result; the limit on renewals is written in one unit and read in another.

### What makes each component correct

* Payments: an acknowledged event is never lost; an order is paid only on the
  strength of a completed payment of its own; while an event is handled no other
  event of the order is; a completed payment clears the items it paid for;
  every task settles in the end. That every delivery does is promised nowhere: Stripe's
  own are refused (section 7).
* Promo job: an expired order has given its use back; `used_count` is exact, or
  off by no more than the faults explain; abandoned orders leave `pending`.
* Orders as a whole: status and paid agree; a completed payment is undone by a failed
  session of the same order only; a paid order does not expire (it does: section 6).
* Sessions: a refresh token extends its session once; access does not outlive
  the session; a session does not outlive six months.
* Password reset: no reset without the mailed link and, with two-factor
  authentication, a code; a confirmation is not undone.
* Accounts: an address belongs to one account and, once that is active, somebody has
  proved it or one that matches it; nobody signs in without what the account asked
  for; a reset changes the account that the address asked for names, by a link that
  went to such an address, and if that account has moved since, to one it has
  confirmed; an owner who keeps trying gets in, whatever was cut off when the account
  was made.
* Addresses: one default per type; a change of default does not lose it.
* Shop: an order holds what was in its customer's own cart, once, in stock and at its
  price; a code's uses match the orders that carry it, and its limit is passed by
  no more than the overlap.
* Rate limiter: a key gets no more through to a path than that path's limit, and is
  refused only then; who does not send the header himself is counted by every rule
  that concerns him.
* Admin levels: nobody disables the eldest super administrator or anyone above.
* Catalogue: products and option types are stored whole; a decision about a product
  stands; what the public listing shows can be opened; only the handler of option
  values can use the pool up.
* Pagination: where no two rows tie, a walk misses and repeats no more rows than have
  gone and come; with ties it still shows rows of the right age at every place.

## 2. Modules

```
TaskQueue    OrderTables                      TokenStore    Sessions    Addresses    Shop
     \        /       \                            |
    OrderPayments    PromoReclaim             PasswordReset
              \        /
            OrderLifecycle

RateLimitTable   Access      ConnectionPool           Paging     AccountStore
       \          /            /         \               |            |
      RequestPipeline    OptionTypes   Products      Listings      SignIn
                               \         /                           |
                                Catalogue                    AccountSettings
                                                                     |
                                                                 Accounts
```

`OrderPayments` refines `PaymentLedger`, and `Sessions` refines `SessionLife`.
`MC*` modules give the constants of one component values for TLC. `*Proofs` modules
hold the inductive invariants and the theorems of the module they are named after and
of those it uses: `OrderLifecycleProofs` those of `OrderPayments` and `PromoReclaim` too,
`CatalogueProofs` those of `Products`, `OptionTypes` and, beside them, `Listings`.

| module | what it is |
|---|---|
| `TaskQueue` | asynq as the workers use it: one task per id, uniqueness locks per payload, retries, archive. External code, modelled from its calls. |
| `OrderTables` | the two columns of `orders` that several components write, and the statements that write them. |
| `PaymentLedger` | the abstract promise: an event is taken, acknowledged only if taken, then recorded or given up. |
| `OrderPayments` | Stripe, webhook, queue and worker; refines `PaymentLedger`. |
| `PromoReclaim` | overlapping runs of the cron job. |
| `OrderLifecycle` | `OrderPayments` and `PromoReclaim` over the same orders. |
| `SessionLife` | the abstract promise: a session begins once, may get one more lifetime, and ends. |
| `Sessions` | the session row of a sign-in and concurrent `refreshToken` requests; refines `SessionLife`. |
| `TokenStore` | `RedisTokenModel`, one operator per Redis command. |
| `PasswordReset` | the five reset handlers over `TokenStore`, command by command. |
| `Addresses` | `AddressModel.Create` and `SetDefault` as transactions under READ COMMITTED. |
| `Shop` | carts, checkout and promo codes, one step per statement. |
| `RateLimitTable` | `setRateLimit`, entry by entry. |
| `Access` | ranks, `checkPermissions`, and the guards of every route. |
| `RequestPipeline` | a request through limiter, guards and the handlers of administrators. |
| `ConnectionPool` | requests, transactions and the connections they hold. |
| `OptionTypes`, `Products` | option types; categories, products, reviews and wishlists. |
| `Catalogue` | both behind one pool, with requests that end early. |
| `Paging` | `PaginateQueryFilter` and `calculateMetadata` as operators. |
| `Listings` | fourteen listings, and a client that walks through one. |
| `AccountStore` | the users table, the user cache, the tokens of all scopes. |
| `SignIn`, `AccountSettings` | the handlers of accounts, before and after signing in. |
| `Accounts` | these handlers side by side, cut off anywhere, and an owner who keeps trying. |

### How the models correspond to the code

**OrderPayments.** `checkout[e]` is what became of Stripe session `e` (none, open,
paid, unpaid), `task`/`locked` the queue, `handler[o]` the place of the worker
that runs the order's task, `payments[e]` the number of payment rows. One
action per handler: `InitiatePayment`, `CompleteCheckout` (the customer),
`AcceptEvent` and `RefuseEvent` (handleStripeWebhook with the two outcomes of
the enqueue call), `StartTask`, `CreatePayment` (one database transaction: row,
order, cart), `ReadFailedOrder`, `EnqueueConfirmation`, `FinishTask`, and
`AbortTask` for every way a run ends without success. asynq's scheduled and
retry states are merged into "pending"; delays are left out, so a retry may come
at any time. The orders are there from the start (section 7 says why), pending,
with their items. `WebhookCaller` says whether the deliveries of an instance
carry a user's access token, which the middleware of the route demands and Stripe's do
not. Deliveries that are answered 401, 500 or by the recoverer change nothing and
have no action. So the properties say what follows from the deliveries that do get in,
and none says that one gets in.

**PromoReclaim.** `run[r]` is one execution of HandleReclaimAbandonedPromos: its
list and the order it has released but not yet marked. Each statement is an
action, with a twin for its failure; `RunDies` stops a run anywhere. `released`
and `faults` are history variables.

**OrderLifecycle** interleaves the two; a step of one leaves the other's
variables alone and both write `status` and `paid`.

**Sessions.** `sessions[s]` has created, last-used and expiry time, the version,
the remember flag and the renewal limit *as stored*, that is, as the Unix time
`createUserSessionAndSetCookies` writes. `refreshToken` is two
actions: `Refresh`/`StartExtend` reads and validates the row, `Extend` updates
it where the version is still the one read. `FindOver` and `InvalidateSession`
are the two halves of the deletion of a session that is over. `NewExpiry` adds
the limit to `created_at`, as the code does, whatever it meant. `issued` and
`spent` record which refresh tokens exist and which have extended a session.

**TokenStore, PasswordReset.** A key has data and an expiry; so has the user's
set. `Insert` is three commands and `DeleteAllForUser` one per token and two
more; each is a step, other handlers run in between, and `GiveUp` ends a handler at
any of them. The payload has the three flags that decide a reset: confirmed by mail,
code needed, code verified. `clicked`, `proved`, `guarded` and `resets` are
history variables: what the properties compare the payload with.

**Addresses.** `row[a]` is what is committed; `trx[t]` an open transaction with its
uncommitted writes, whose rows are locked until it ends. A statement finds its
rows among what is committed when it begins (`ClearAddressTypeDefault`), takes
their locks one by one, and looks at each row again once it has it (`ClearRow`).
`Rollback` is any error, including the one SetDefault returns when no row was
affected, and the database's choice of a victim in a deadlock.

**Shop.** `request[r]` is the place of a request in its handler with what it has
read; `orders` are the committed ones. A checkout reads the rows by their ids,
validates the code, stores the order in one transaction and counts the use
after it; each of these is a step, and other requests run in between.
`Repaired` names the two statements PostgreSQL refuses as they are written
(section 7): with the empty set no order is ever stored, so the run takes them as
repaired; the other statements are as in the code. (`Products` and `AccountStore` have
the same switch for `Approve`, `Reject` and `createUser`.) `uncounted` and `carted`
are history variables.

**RequestPipeline.** `Arrive` chooses an entry of the table that matches the path,
any of them, as the iteration over a Go map does, and whether the request has the
header `X-User-ID` (`XUserID`): the authentication sets it for who is signed in and
leaves what an anonymous client has sent. The conditions of the rules look at the header,
the key of the rule for users comes from the context (`Key`). An anonymous client with
the header is therefore exempt from the rule for anonymous clients, and from the one for
users too, which has no key for it. Then one step per rule: passed over where its
condition does not hold or there is no key (`SkipRule`), counted (`Allow`), or a panic
where the literal path has no limiter (`NoLimiter`). `Remotes` are what a request may
have for an address, which is up to the client (section 7). `owed` is history: the
strategies that a request must still be counted under, for what its caller is, and
whether it has sent the header itself. `Dispatch` evaluates `Access!Admission`, the chain of guards
of the route. The handlers of administrators read a member and write it in two
steps. `granted` counts what was let through in a window.

**Catalogue.** `held` are the connections a request holds; `Statement` needs a free one,
`BeginTx` takes one, the end of a request gives all of them back. What arrives is a
pair of a caller and a form: `Permitted` says which ones the routes let through. Goroutines
that insert the parts of a product share the transaction's connection, so
that a failure of one leaves any subset inserted, and a rollback. The recursion of
`CreateOptionValues` takes one connection after another until `TimeOut`, the
middleware's sixty seconds, ends the request. `Repaired` names the two statements
of approval and rejection.

**Listings.** A row is a number, in the order of arrival; `CreatedAt` gives the time that
listings are ordered by, which may tie. A query may answer with any of the orders that its
ORDER BY allows, another one at each page; without ORDER BY with any order. `Accepts` and
`Parsed` are `Parse` as it works: a sort that is not in the safelist is replaced by the
default and not refused. `Read` serves the next page and follows its metadata; `Add`,
`Show`, `Hide` and `Erase` change the rows between two pages. `walk` records what was
seen, stayed, came and went.

**Accounts.** A handler is a sequence of steps, one statement, Redis command or
mail each, and `Stop` cuts it off between two of them. `cache[u]` is a copy of a row
without the fields its JSON leaves out; it is used until its time to live is over
and never invalidated. A token has a scope, a user, data, and the mailbox it
went to: a request can present only what was handed over. `GetByEmail` finds any of the
accounts that an address matches as a pattern (`Matches`), while `EmailFree`, the
unique constraint, compares for equality. `Create` works where `Repaired` has
`createUser`, as in the run. A scenario chooses
which requests come, which rows there are and which bounds apply; every scenario
is an initial state of one run. `OwnerSends` is the client of an account's owner, who
opens what is mailed to him, signs in and resets his password. `proved`, `signIns`
and `resets` are history variables: who has shown to have which address, what was shown
at a sign-in, and for a reset the address asked for, the mailbox of the link, and the
account's addresses when it was looked up and when its password was changed.

## 3. Runs

| run | instance | question and result |
|---|---|---|
| `payments_one_order` | 1 order, 2 sessions, 2 runs per task, 2 deliveries per event | Is anything lost or done for nothing, does everything settle, does the pipeline implement the ledger? Holds: all invariants, the refinement and the liveness of tasks. |
| `reclaim_faults` | 3 orders, two with a code, 2 overlapping runs, 2 faults | What do faults and overlap do to the accounting? An expired order has always been released; an order is released at most once per run and fault; as long as nothing failed and nothing was released twice the count is exact; everything abandoned leaves pending. |
| `lifecycle` | 1 order, 2 sessions, 1 run, 1 fault | Do the two writers of an order agree? status and paid do; a completed payment is undone only by a failed session of the same order. |
| `lifecycle_paid_expires` | the same | Does a paid order stay clear of expiry? **No** (finding). |
| `sessions` | 1 session, 2 requests, lifetimes in quarters of 30 days | Once per token, never revived, at most six months; does all that implement the one life of a session? Holds. |
| `reset` | 2 tokens, 2 handlers, stopped anywhere | Is each reset confirmed, and does a confirmation stick? Holds. |
| `addresses` | 3 addresses of 2 types, 2 transactions | Is the default kept and, one transaction after another, unique? Holds. |
| `pipeline` | 7 callers, 2 addresses, 2 requests, the entries of 8 routes | Do limits hold for each path, whichever entry is found, and is everybody counted who does not forge the header? Do administrators keep to their ranks? Holds. |
| `shop` | 2 customers, 2 requests, 2 products, a code for one use | Are orders sound and uses counted while carts and codes change under a checkout? Holds; the limit of a code is passed by what overlaps. |
| `catalogue` | 2 requests, 3 connections, 4 scenarios | Is everything stored whole, do decisions stand, who can use up the pool? Holds; of the pool, only the handler of option values. |
| `listings` | 4 rows, 5 at most, 3 changes, pages of 1 to 3 | What does a walk miss and repeat? Without ties no more than has gone and come; without an order the rows still add up. |
| `accounts` | 2 users, 3 addresses, one of which matches the others, 2 requests, 1 to 3 tokens, 12 scenarios | Are addresses distinct and proved, or matched by one that is, sign-ins and resets earned, and does the owner get in? Holds. |

Every property has a mutant, a plausible bug in one mapped definition (defined
just above it, under a comment "Mutant") with which the same run fails. The type
invariant of a module is the first conjunct of one of its invariants
(`OrdersSound`, `StoredAsAsked`, `SortedWalks`, `AccountsSound`, `WithinLimit`,
`UsedCountExact`, `WithinMaxRenewal`, `ResetIsConfirmed`, `AtMostOneDefault`,
`RowsPerDelivery`).

### Why the bounds are enough

* Two sessions of one order are the smallest instance with a task-id conflict,
  two deliveries the smallest with a duplicate and with a lock left by a
  refusal, two runs per task the smallest with a retry after a committed payment.
  Properties about several orders are proved (section 5).
* Two overlapping runs with two faults reach every pair of interleaved
  statements; three orders make two of them share a code and one have none.
* `Sessions` counts time in quarters of RememberMeTTL (30 days), so that the
  midpoint after which a session may be extended falls on a tick and one more
  follows before it expires. AccessTokenTTL and RefreshTokenTTL (minutes, an
  hour) round to 0. A horizon of 28 periods passes the 24 of the six months.
  Epoch is well above the lifetimes, as a Unix time is. A request sees the clock
  move at most once: requests time out after a minute, a period is days.
* `PasswordReset` counts periods of the token's life; the horizon lets a second
  token be issued after the first is dead. Two handlers overlap in all ways.
* `Addresses` has two addresses in one type, enough for two defaults, and one of
  another type, for requests whose type is not that of the address.
* `pipeline` counts limits in sixties, so that 30 becomes 1 and 120 becomes 2: a limit
  is reached by two requests and passed by three. A visitor sends the header or does
  not. Its routes are one that two entries match, paths with a parameter, rules per user
  and per address.
* `shop` has a code for one use and two requests, the smallest overshoot, and a
  product in two units, so that stock and quantity can meet.
* `catalogue` has one connection more than requests: only a handler that takes a
  second one can use them up. Each scenario has the requests that meet over the
  same rows.
* `listings` starts with more rows than the largest page and lets three changes
  fall between pages; `MaxPageSize` (100 in the code) becomes 3. Some tables have rows
  of one age, others have none.
* `accounts` separates requests that have no row or token in common into scenarios:
  an account being made, moved, secured, signed in to, recovered. Where time plays
  a part two periods pass the cache's life; elsewhere none is needed. One fault may
  fall anywhere in the scenarios that make an account, change a password, recover one
  or move to an address somebody else registers; the others have none. Two
  scenarios use an address that matches others: one with a Google account, one with a
  reset. One token is enough for them, since what matters is whom their address finds,
  and for a sign-in or a recovery with a second factor, which goes from step to step with
  one token; elsewhere there are two at a time, three while an owner keeps trying. In
  one scenario an account moves while a reset is under way.

The bounds that the code does not have are `MaxEnqueues`, `MaxFaults`, `Horizon`,
`MaxRows`, `MaxOrders`, `MaxChanges`, the values, notes and products of
`Catalogue`, and the tokens, periods and faults of a scenario of `Accounts`.
Symmetry is used in safety runs only. Deadlock checking is off where the system
may rest: all orders settled, the clock at its horizon, a walk over, no token left.

## 4. Fairness

* Workers: asynq's server keeps dequeuing, and a handler returns, fails or loses
  its lease. Hence weak fairness of `StartTask` and of `HandlerStep`, which
  includes the failure: no handler is assumed to succeed.
* The scheduler fires every minute and a run that has started goes on or dies:
  weak fairness of `RunStep`, per run. Faults are bounded by `MaxFaults`.
* `OwnerGetsIn` lets the owner go on trying (`OwnerSends`) and his requests be served
  (`Serve(Mine)`). Nothing is assumed of other requests, and faults are bounded.
* Customers and Stripe owe nothing: no fairness of `InitiatePayment`,
  `CompleteCheckout` or `AcceptEvent`. `Catalogue`, `Listings`, `RequestPipeline`,
  `Sessions`, `PasswordReset`, `Addresses` and `Shop` need none; `OrphansFreeze` of
  `Catalogue` says that something stays as it is.

## 5. Proofs

Every safety property of the passing runs is proved for all values of the constants,
so for any number of requests, orders, users, tokens, products and rows.

| module | theorem | statement |
|---|---|---|
| `OrderLifecycleProofs` | `AckedNeverLost` | `Spec => []AckedIsTracked` |
| | `PaidIsJustified` | `Spec => []PaidHasCompletedPayment` |
| | `HandledOneAtATime` | `Spec => []OutcomeOfHandledEvent` |
| | `CartIsCleared` | `Spec => []CompletedClearsCart` |
| | `RowsAreBounded` | `Spec => []RowsPerDelivery` |
| | `PipelineImplementsLedger` | `Spec => ImplementsLedger` |
| | `ReleaseComesFirst` | `ReclaimSpec => []ExpiredWasReleased` |
| | `ReleasesAreBounded` | `ReclaimSpec => []ReleasesBounded` |
| | `UsedCountIsExact` | `ReclaimSpec => []UsedCountExact` |
| | `ColumnsAgree` | `LifecycleSpec => []StatusAgreesWithPaid` |
| | `OnlyFailuresUndo` | `LifecycleSpec => []UndoneByFailedOnly` |
| | `TogetherAsApart` | payments and job keep their invariants side by side |
| `SessionsProofs` | `ExtendedOncePerToken` | `Spec => []OneExtensionPerToken` |
| | `AccessIsBounded` | `Spec => []AccessEndsWithSession` |
| | `RenewalIsBounded` | `Spec => []WithinMaxRenewal` |
| | `SessionsLiveOnce` | `Spec => ImplementsLife` |
| `PasswordResetProofs` | `ResetsAreConfirmed` | `Spec => []ResetIsConfirmed` |
| | `ConfirmationsStick` | `Spec => ConfirmationSticks` |
| `AddressesProofs` | `OneDefault` | `Spec => []AtMostOneDefault` |
| | `DefaultsAreKept` | `Spec => DefaultIsKept` |
| `RequestPipelineProofs` | `LimitsAreKept` | `PipelineSpec => []WithinLimit` |
| | `RefusalsAreEarned` | `PipelineSpec => RefusedAtLimit` |
| | `EldestStays` | `PipelineSpec => []EldestSuperStays` |
| | `RankDecides` | `PipelineSpec => DisabledByRank` |
| `ShopProofs` | `OrdersAreSound` | `ShopSpec => []OrdersSound` |
| | `UsesAreCounted` | `ShopSpec => []UsesCounted` |
| | `OwnersChangeRows` | `ShopSpec => RowsChangeByOwner` |
| `AccountsProofs` | `AccountsAreSound` | `Spec => []AccountsSound` |
| | `SignInsAreProved` | `Spec => []SignInsProved` |
| | `MailboxesSetPasswords` | `Spec => []MailboxSetsPassword` |
| `CatalogueProofs` | `StoredIsWhole` | `Spec => []StoredAsAsked` |
| | `ListingIsServed` | `Spec => []PublicListingServed` |
| | `OptionsAloneDrain` | `Spec => []DrainedByOptionsOnly` |
| | `DecisionsAreKept` | `Spec => DecisionsStand` |
| | `SortedWalksHold` | `ListingsSpec => []SortedWalks` |
| | `UnsortedWalksHold` | `ListingsSpec => []UnsortedWalkCounts` |

### Assumptions

Each module names what its constants have to satisfy, and TLC evaluates it in
the runs. Beyond types (limits are numbers, maps are functions, the value that
stands for "nothing" is no value) they say:

* `ReclaimAssumptions`, `AddressAssumptions`, `ShopAssumptions`, `PoolAssumption`: orders and
  cron runs, addresses, requests are finite in number. The proofs count them.
* `SessionAssumptions`: six months are longer than two lifetimes of a remembered
  session, and the clock does not start at zero, as Unix time does not. The limit
  on renewals is the sum of a time and a duration, so the proof needs the clock.
* `PipelineAssumptions`: a method and a path name one route.
* `AccountAssumptions`: nothing of what an address matches but that it is a set of
  addresses; an address need not even match itself (one with a backslash does not).
* `ScenarioAssumption` of `Accounts`: what is there at the start has one account per
  address, and who sends a request as somebody signed in has an active account, as
  signing in demands; there is no action that makes one inactive. The owner who keeps
  trying has an address that matches no other.
* `ProductAssumptions`: a customer is neither a vendor nor a manager, a user having one
  role, and products from before the status column have the parts they were stored with.
* `ScenariosAssumption` of `Catalogue`: each request is one that the routes let through to
  its handler (`Permitted`): only vendors create products, only customers write.
* `ListingAssumptions`: nothing but types. Creation times may tie and need not follow the
  order in which rows arrive.

### Inductive invariants

None of the properties is inductive alone. What had to be added is what the
handlers rely on without saying so:

* **OrderPayments.** `TasksAreEvents`: a task stored under an order's id is that
  order's, and of a completed session. Needed because the queue is shared with
  the confirmation e-mail, whose payload is an order: its enqueueing must fail.
  `HandlersAreActive`: a handler is at work exactly on active tasks, which is why no
  other event of the order gets into the queue meanwhile. `RowsAreCompleted`: payment
  rows belong to completed sessions, so that the outcome a row stands for no longer
  changes. `LedgerStep` shows under `IInv` that each step is `Take`, `Record` or
  `GiveUp` of the ledger or leaves its variables alone.
* **PromoReclaim.** While an order is pending any run may list it, so its releases are
  bounded by the runs that are marking it and the faults so far (`PendingReleases`);
  afterwards only the runs that have it on their list can release it again
  (`SettledReleases`). The two bounds meet when the status is written. The count follows
  the releases as long as none is repeated (`CountFollowsReleases`).
* **OrderLifecycle** conjoins both invariants with `StatusAgreesWithPaid`: the worker
  writes both columns, the job writes `status` only. `UndoneByFailedOnly` is inductive
  beside the invariant of the payments: `paid` is taken back only by the worker, together
  with the row of a session that failed, and rows are of sessions that are over
  (`RowsAreCompleted`).
* **Sessions.** A row's version is past every version it was extended from
  (`SpentBelow`, what the compare-and-set gives). A remembered row that was never
  extended has the limits of its sign-in, and so has the copy that a handler has
  read (`RememberedRows`, `ReadRows`): the first extension changes the version,
  after which the check against the user's version refuses all others, which is why
  the misread limit does no harm. For the refinement of `SessionLife`, a request that is
  about to delete a row has found it past its expiry or it has been extended since
  (`OverReads`, `Late`): `InvalidateSession` names the id alone, and what it may lose is
  an extension that was granted at the last moment, never a session still in its first
  lifetime. `ExtensionIsWhole` shows that the limit is so far off that an extension gives a
  whole lifetime.
* **PasswordReset.** A token belongs to the handler that issues it until its link is
  mailed, and only afterwards to others (`Turns`); the payload in Redis and the copy in
  each handler say nothing that did not happen (`Payloads`). Writing back a stale copy may
  then lose a verified code, never invent one. `ConfirmationSticks` needs that every
  copy a handler writes back after the mail is a confirmed one.
* **Addresses.** An uncommitted write is of the transaction's type (`WritesOfType`). As
  long as no two transactions have been open at once, a transaction has cleared what
  it sees of its type before it sets its own row (`OneByOne`).
* **RequestPipeline.** A counter that stands at n has let min(n, limit) requests
  through (`Counted`); a request that has got past a check meets it still, ranks being
  fixed (`RequestsOK`). What a request without a forged header owes, the rules still
  ahead of it will count; past the limiter it owes nothing (`Settled`).
* **Shop.** A checkout works on what it has read and never reads again, so what it has
  read must be fit to be ordered by itself (`Buying`, `Orderable`); ids are never used
  again, so a row found by its owner is deleted by its id only as his (`DeletesOwn`).
* **Accounts.** `Ready` says for each step of a handler what a request has got that is
  there: the address it carries is its account's or that account is active (`Owned`),
  somebody has shown to have an address that names the account's where Google activates
  it (`OwnerKnown`), the account that a reset will change has the address it was found
  with or has moved to one it confirmed (`HasStill`), what was shown to sign in is
  enough (`Earned`), the caller's account is active (`SignedIn`). A step may lead to
  another (set the cache, then go on; delete tokens, then go on), and `Leads` carries
  the facts across. `TokensOK` says that a token has been sent where it belongs
  (`Belongs`), a reset's to a mailbox that the address asked for names; `IssuedOK` that
  a request about to send a token sends it there, whoever writes that token back in the
  meantime. `UsersKept` is what every step keeps of the users: they stay, stay active,
  what was proved stays proved, and an address changes only to one that is proved.
  `Ready` and `Belongs` refer to users only through it, so that what one request has
  read survives the steps of the others.
* **Catalogue.** `Informed` says what a request knows at its step: which form it came
  with (`OnCourse`), what its transaction has inserted so far (`OptionTx`, `ProductTx`),
  that the category it looked at has been visible, even if it no longer is. That this
  category still exists at the commit rests on the lock that the inserted row holds on
  it (`RemoveCategory` waits for `Inserting`). Two open transactions have not inserted
  the same text or id (`Apart`): otherwise the second commit would overwrite a value of
  the first, so the unique indexes carry `ValuesAsAsked`. Who does not add option values
  holds at most one connection, and none between transactions (`Thrifty`); if all are
  taken, they belong to as many requests.
* **Listings.** The rows of a listing are ranked by its order; the pages read reach some
  rank, the boundary between what is behind the reader and what is ahead. What the walk
  missed are rows that stayed and are now behind the boundary without having been seen
  (`Missed`); what it will repeat are rows ahead of it that it has seen (`SeenAhead`).
  `Shifted` bounds the first by the rows that have gone and the second, with the
  repetitions so far, by those that have come: a row that disappears moves one row at
  most from ahead to behind, one that appears moves one at most the other way
  (`RowGoes`, `RowComes`), and the next page moves everything up to its end behind, all
  of it seen. At the end nothing is ahead (`ReachesTheEnd`: the last page is the ceiling
  of the quotient), which turns the bounds into those of `SortedWalks`. That needs that
  every answer has the same order (`Definite`: no ties, one row per image). With ties
  the answers agree on the creation times, place by place, whichever order each of them
  takes; undisturbed, those of what was seen are a prefix of those of the whole listing
  (`SeenInOrder`). Sums over a walk are never formed, so no induction over data is
  needed.

Each proof has a lemma per action or family of actions and combines them under
`Invariance` or `NextIInv`. The invariants were checked by TLC on the instances of the
runs first.

### Only model-checked

* Liveness: `TaskSettles`, `AbandonedLeavesPending`, `OrphansFreeze`, `OwnerGetsIn`. It is
  beyond the prover, and so is ENABLED.
* That an order's total is an integer: it is a fold over the items, again an
  induction over data. `OrdersSound` and its proof say which sum is stored, not its type.

## 6. Findings

A run reaches it, and `PROJECT.json` quotes the line it contradicts:

* A reclaim run marks an order expired from an old list, although it has been
  paid since, and gives its promo use back (`lifecycle_paid_expires`).

The models also show what several properties state as limits: a failed UPDATE
after a release repeats the release in the next run (`ReleasesBounded`), two
overlapping changes of the default address can both stay (`AtMostOneDefault`),
overlapping checkouts pass a code's limit (`UsesCounted`).

## 7. Seen while reading

The models follow the code in all of this, with one exception that has a name in them.
Five statements are refused by the database as they are written: `createOrder`,
`FindByCode`, `createUser`, and `Approve` and `Reject` of products. Without them there is
next to nothing to look at behind them, so a constant `Repaired` of `Shop`, `AccountStore`
and `Products` names those that an instance takes as working. The runs take all five so,
and what they show holds of the code with those statements repaired. The proofs hold for
any value of `Repaired`, the empty set included. `OrderPayments` begins with its orders
in place.

*Orders.*
* The confirmation e-mail is enqueued under the id of the payment task that is
  enqueuing it, and always refused (`worker/task_send_order_confirmation_email.go:31`).
* The Stripe webhook is mounted behind user authentication (`cmd/api/api.go:229-231`):
  deliveries without a user's token are answered 401, and so are all of Stripe's.
  `WebhookCaller` says which deliveries an instance has; the runs let them come with a
  token, to see what the handler, the queue and the worker make of them.
* A `payment_intent` that is no string makes the webhook panic
  (`cmd/api/orders.go:273-274`).
* A failed payment never releases the promo use: the error test is reversed
  (`worker/task_process_order_payment.go:78-81`).
* `createOrder` names nine columns for eight placeholders, and returns nil when
  the INSERT fails (`internal/store/orders.go:80-96`); `FindByCode` scans ten of
  eleven columns (`internal/store/promos.go:74-87`).
* The amount of a payment is cut to whole units (`cmd/api/orders.go:283`). The last
  unit in stock can be carted and not ordered (`cmd/api/orders.go:101`), and stock is never taken
  down. A fixed discount may exceed the total (`internal/store/promos.go:148`).

*Accounts.*
* After one extension a session's version differs from the user's for good
  (`cmd/api/auth.go:532`, `internal/store/sessions.go:296`): it lives on and its token is refused.
* `createUser` lacks a comma and two placeholders (`internal/store/users.go:333-345`).
* Accounts are found by `email ilike $1` (`internal/store/users.go:565`), in which `_` and
  `%` are wildcards, while `unique_email` compares for equality on a case-sensitive
  column. Who has the Google account `a_b@x` activates and gets into `acb@x`
  (`cmd/api/oauth.go:66`, `:122`), and a reset asked for with such an address may find
  another account at each step (`cmd/api/auth.go:968`). `AddressesProved` and
  `MailboxSetsPassword` say what is left.
* A reset looks its account up by address and changes it by id
  (`internal/store/users.go:638-650`): the account may have moved in between.
* A Google account that is linked stays linked to whom it was: the `ON CONFLICT` of
  `UpsertAccount` leaves `user_id` alone (`internal/store/users.go:369-375`).
* A copy of a user in the cache lacks secret and 2FA flag: while there is one, codes are
  not checked but answered 500, and changes of password or address skip the second factor
  (`cmd/api/users.go:57`, `:153`). `verifyTOTP` is negated (`cmd/api/helpers.go:174-182`);
  the code of `verifyChangePassword2fa` is not compared with anything.
* Setting a second factor up twice is not refused, and `EnableTwoFactorAuth` ignores
  the recovery codes. `force_password_change` is never cleared. Google activates an
  account whose address it has not verified. Nothing scans `disabled`.

*Addresses.* An address created as the default is cleared by its own transaction
(`internal/store/addresses.go:106`).

*Requests.*
* Rules are found by pattern, limiters by literal path (`internal/ratelimiter/ratelimiter.go:60`, `:234`):
  limited paths with a parameter, such as a product's approval, panic.
* Whether a request is signed in the limiter reads from `X-User-ID`
  (`internal/ratelimiter/ratelimiter.go:120`), which the middleware sets for users
  (`cmd/api/middlewares.go:72`) and leaves as it came for anonymous clients (`:24-31`). The
  key of the rule for users comes from the context, where an anonymous user has no id:
  an anonymous client with the header is counted by no rule that tells the two apart.
  The key of the rule for anonymous clients is `RemoteAddr`, which has the port of a
  connection, or after `middleware.RealIP` (`cmd/api/api.go:138`) what the client says in
  `X-Forwarded-For`. `WithinLimit` is a statement about keys.
* The change of an administrator's level answers with success
  (`cmd/api/admins.go:194`) although `ChangeAdminLevel` is a stub
  (`internal/store/users.go:1387`).

*Catalogue.*
* `Reject` and `Approve` of products skip a parameter number that they pass a
  value for (`internal/store/products.go:306-345`): PostgreSQL refuses both. New
  products have the status "", which neither would accept.
* Removing a category sets `category_id` to NULL, which most queries cannot scan.
* `CreateOptionValues` calls itself without end and holds a connection per call.

*Listings.*
* `Validator.Struct` returns what was noted before it only if a tag fails as well
  (`internal/validator/validator.go:85-104`): a sort outside the safelist or a page that is
  no number is not refused but served with the default (`internal/store/paginate.go:34-65`).
* `created_at` can tie and no query has a tie-breaker: two pages may show the same row
  of a tie and leave another out.
* Audit events are ordered by their administrator's age, options by nothing; a user's
  orders have neither LIMIT nor OFFSET nor ORDER BY. Grouped listings take the size of
  the page for the total. A product with two primary images comes twice.
* `(Page - 1) * PageSize` may overflow (`internal/store/paginate.go:106`).
* `LogEvent` names eight columns for seven values; `GetAuditLogByID` reads a table
  that no migration creates.

## 8. What could follow

The models cover the components that keep state, and the proofs all of their safety
properties. Two statements would round the picture off:

1. `MissedAtMostLost` for one vendor's listings, where a row comes once per primary image,
   so that one row moves several.
2. A refinement for checkout: one order and one counted use as a single step, for requests
   that nothing interrupts.

## 9. Not modelled

* Currencies, texts, e-mail contents, the columns of joins: no property here
  depends on them.
* Read-only views of one row or aggregate: `GetOrderForUserByID` and its kin, rating
  analytics, the list of a user's sessions. They keep no state, and a single
  SELECT sees one snapshot.
* `ReservePromo` and the functions around it, `CleanupOrphanedSets`: without a caller.
* `LogEvent` and `GetAuditLogByID`, which fail whenever they are called.
* Uploads, the mail service, configuration, routing, the tasks that only render and
  send a mail: input and output, or start-up code.
* Cryptography: a model takes a valid token or code as given. In particular
  tokens are never guessed or forged.
* asynq's delays between retries and its purge of archived tasks; PostgreSQL
  beyond row locks under READ COMMITTED; the loss of Redis.
