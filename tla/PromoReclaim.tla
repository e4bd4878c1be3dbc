---------------------------- MODULE PromoReclaim ----------------------------
(***************************************************************************)
(* The cron task that reclaims the promo codes of abandoned orders.        *)
(*                                                                         *)
(* Each run of HandleReclaimAbandonedPromos reads the list of abandoned    *)
(* orders once and then walks it: release the order's promo use, then mark *)
(* the order expired, as two statements outside any transaction.  The      *)
(* scheduler enqueues a run every minute without a uniqueness option, and  *)
(* up to ten workers execute tasks, so runs may overlap; a run may also    *)
(* die, or a statement fail, at any point.                                 *)
(*                                                                         *)
(* The promos' used_count starts at what the checkouts of the orders left  *)
(* it at (one IncrementUsage per order with a code, plus the uses of       *)
(* orders that are no longer in play).                                     *)
(***************************************************************************)
EXTENDS OrderTables, Naturals, FiniteSets

CONSTANTS PromoCodes,
          PromoOf,    \* orders.promo_code; NoPromo is the empty string
          NoPromo,
          BaseUses,   \* uses of each code by orders outside the model
          Runs,       \* executions of the cron task that may overlap
          MaxFaults,  \* bound: failed statements and dead workers
          NoOrder

ASSUME ReclaimAssumptions ==
  /\ PromoOf \in [Orders -> PromoCodes \cup {NoPromo}]
  /\ NoPromo \notin PromoCodes
  /\ BaseUses \in [PromoCodes -> Nat]
  /\ MaxFaults \in Nat
  /\ NoOrder \notin Orders
  /\ IsFiniteSet(Orders) /\ IsFiniteSet(Runs)

VARIABLES
  usedCount,  \* promos.used_count
  aged,       \* orders older than abandonedOrderTimeout
  run,        \* run[r]: a run's remaining list and the order being marked
  released,   \* released[o]: times ReleaseUsage was executed for order o
  faults      \* failures so far

reclaimVars == <<usedCount, aged, run, released, faults>>
cronVars    == <<status, paid, reclaimVars>>

HasPromo(o) == PromoOf[o] # NoPromo
Holders(p)  == {o \in Orders : PromoOf[o] = p}

\* active: the handler is executing; current: released but not yet marked.
RunStates == [active : BOOLEAN, todo : SUBSET Orders, current : Orders \cup {NoOrder}]

Idle == [active |-> FALSE, todo |-> {}, current |-> NoOrder]

ReclaimInit ==
  /\ usedCount = [p \in PromoCodes |-> BaseUses[p] + Cardinality(Holders(p))]
  /\ aged = {}
  /\ run = [r \in Runs |-> Idle]
  /\ released = [o \in Orders |-> 0]
  /\ faults = 0

\* Thirty minutes have passed since the order was created.
Age(o) ==
  /\ o \notin aged
  /\ aged' = aged \cup {o}
  /\ UNCHANGED <<status, paid, usedCount, run, released, faults>>

\* Mutants: orders of any status; orders younger than the cutoff.
AbandonedAnyStatus == aged
AbandonedYoung     == {o \in Orders \ aged : status[o] = "pending"}

Abandoned == {o \in aged : status[o] = "pending"}

GetAbandonedOrders(r) ==
  /\ ~run[r].active
  /\ Abandoned # {}
  /\ run' = [run EXCEPT ![r] = [Idle EXCEPT !.active = TRUE, !.todo = Abandoned]]
  /\ UNCHANGED <<status, paid, usedCount, aged, released, faults>>

\* The loop turns to order o, in the order of the rows, which is arbitrary.
\* used_count never goes below zero.
ReleaseUsage(r, o) ==
  /\ run[r].active /\ run[r].current = NoOrder
  /\ o \in run[r].todo
  /\ HasPromo(o)
  /\ usedCount' = [usedCount EXCEPT ![PromoOf[o]] = IF @ > 0 THEN @ - 1 ELSE @]
  /\ released' = [released EXCEPT ![o] = @ + 1]
  /\ run' = [run EXCEPT ![r].current = o]
  /\ UNCHANGED <<status, paid, aged, faults>>

\* Mutant: without the continue after a failed release.
ReleaseFailsGoesOn(r, o) ==
  /\ run[r].active /\ run[r].current = NoOrder
  /\ o \in run[r].todo
  /\ HasPromo(o)
  /\ faults < MaxFaults /\ faults' = faults + 1
  /\ run' = [run EXCEPT ![r].current = o]
  /\ UNCHANGED <<status, paid, usedCount, aged, released>>

\* A failed release is logged and the order left for a later run.
ReleaseFails(r, o) ==
  /\ run[r].active /\ run[r].current = NoOrder
  /\ o \in run[r].todo
  /\ HasPromo(o)
  /\ faults < MaxFaults /\ faults' = faults + 1
  /\ run' = [run EXCEPT ![r].todo = @ \ {o}]
  /\ UNCHANGED <<status, paid, usedCount, aged, released>>

\* Mutant: the order is marked before its use is released.
MarkableUnreleased(r, o) == /\ run[r].active
                            /\ \/ run[r].current = o
                               \/ run[r].current = NoOrder /\ o \in run[r].todo

\* The order a run marks next: the one just released, or one without a code.
Markable(r, o) == /\ run[r].active
                  /\ \/ run[r].current = o
                     \/ run[r].current = NoOrder /\ o \in run[r].todo /\ ~HasPromo(o)

MoveOn(r, o) ==
  run' = [run EXCEPT ![r].todo = @ \ {o}, ![r].current = NoOrder]

MarkExpired(r, o) ==
  /\ Markable(r, o)
  /\ UpdateStatus(o, "expired")
  /\ MoveOn(r, o)
  /\ UNCHANGED <<usedCount, aged, released, faults>>

\* A failed UPDATE is logged, with the promo use already released.
MarkFails(r, o) ==
  /\ Markable(r, o)
  /\ faults < MaxFaults /\ faults' = faults + 1
  /\ MoveOn(r, o)
  /\ UNCHANGED <<status, paid, usedCount, aged, released>>

EndRun(r) ==
  /\ run[r].active /\ run[r].todo = {}
  /\ run' = [run EXCEPT ![r] = Idle]
  /\ UNCHANGED <<status, paid, usedCount, aged, released, faults>>

\* The worker dies in the middle of a run; a later run starts from scratch.
RunDies(r) ==
  /\ run[r].active
  /\ faults < MaxFaults /\ faults' = faults + 1
  /\ run' = [run EXCEPT ![r] = Idle]
  /\ UNCHANGED <<status, paid, usedCount, aged, released>>

RunStep(r) == \/ GetAbandonedOrders(r) \/ EndRun(r) \/ RunDies(r)
              \/ \E o \in Orders : \/ ReleaseUsage(r, o) \/ ReleaseFails(r, o)
                                   \/ MarkExpired(r, o) \/ MarkFails(r, o)

ReclaimNext == (\E o \in Orders : Age(o)) \/ (\E r \in Runs : RunStep(r))

\* The scheduler fires every minute and a run that started goes on or dies.
ReclaimFairness == \A r \in Runs : WF_cronVars(RunStep(r))

CronInit == OrdersInit /\ ReclaimInit

ReclaimSpec == /\ CronInit
               /\ [][ReclaimNext]_cronVars
               /\ ReclaimFairness

-----------------------------------------------------------------------------
ReclaimTypeOK ==
  /\ OrdersTypeOK
  /\ usedCount \in [PromoCodes -> Nat]
  /\ aged \subseteq Orders
  /\ run \in [Runs -> RunStates]
  /\ released \in [Orders -> Nat]
  /\ faults \in 0..MaxFaults

\* The release comes first: an order is never left expired with its promo use
\* still counted, whichever statement failed and wherever a run died.
ExpiredWasReleased ==
  \A o \in Orders : status[o] = "expired" /\ HasPromo(o) => released[o] > 0

\* Releasing is not idempotent, but the damage is bounded: an order's use is
\* released at most once per overlapping run and once more per fault.
ReleasesBounded ==
  \A o \in Orders : released[o] <= Cardinality(Runs) + faults

BeingMarked(o) == \E r \in Runs : run[r].current = o

\* Runs that overlap on the list of orders, but never on an order, and whose
\* statements succeed keep used_count exact at every step: the uses of orders
\* outside the model plus those of the orders not yet reclaimed.  Those that
\* overlap on an order, or fail, never take it below zero.
UsedCountExact ==
  /\ ReclaimTypeOK
  /\ \A p \in PromoCodes : faults = 0 /\ (\A o \in Holders(p) : released[o] <= 1) =>
       usedCount[p] = BaseUses[p] + Cardinality({o \in Holders(p) :
                                       status[o] # "expired" /\ ~BeingMarked(o)})

\* Every abandoned order leaves "pending" in the end.
AbandonedLeavesPending ==
  \A o \in Orders : o \in aged ~> status[o] # "pending"
=============================================================================
