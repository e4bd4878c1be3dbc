--------------------------- MODULE OrderLifecycle ---------------------------
(***************************************************************************)
(* The payment pipeline and the promo reclaim job over the same orders.    *)
(* They meet in the orders table only: both update status without looking  *)
(* at what it was, the job from a list it read earlier.                    *)
(***************************************************************************)
EXTENDS OrderPayments, PromoReclaim

lifecycleVars == <<vars, reclaimVars>>

LifecycleInit == Init /\ ReclaimInit

LifecycleNext == \/ Next /\ UNCHANGED reclaimVars
                 \/ ReclaimNext /\ UNCHANGED paymentVars

LifecycleSpec == LifecycleInit /\ [][LifecycleNext]_lifecycleVars

-----------------------------------------------------------------------------
\* The two columns agree although four statements of two programs write them:
\* a processing order is paid, a cancelled one is not, and a pending order has
\* no payment row at all.
StatusAgreesWithPaid ==
  \A o \in Orders :
    /\ status[o] = "processing" => paid[o]
    /\ status[o] = "cancelled" => ~paid[o]
    /\ status[o] = "pending" =>
         \A e \in Checkouts : OrderOf[e] = o => payments[e] = 0

\* Events are applied whatever the order's status is, so a payment that
\* completed can be undone: its cart items are gone and the order is unpaid
\* all the same.  That takes a failed session of the very same order, whose
\* payment row then stands beside the completed one; no other order's event
\* does it, and the reclaim job never does, however old its list is.
UndoneByFailedOnly ==
  \A e \in Checkouts :
    checkout[e] = "paid" /\ payments[e] > 0 /\ ~paid[OrderOf[e]] =>
      \E f \in Checkouts : /\ OrderOf[f] = OrderOf[e]
                           /\ checkout[f] = "unpaid"
                           /\ payments[f] > 0

-----------------------------------------------------------------------------
\* "Mark the order as expired", of the "abandoned orders" it fetched
\* (worker/scheduler/cron_reclaim_abandoned_promos.go:32, 49): an order that is
\* paid is not abandoned and does not end up expired.
PaidNeverExpires == \A o \in Orders : paid[o] => status[o] # "expired"
=============================================================================
