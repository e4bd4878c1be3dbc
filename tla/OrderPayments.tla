--------------------------- MODULE OrderPayments ---------------------------
(***************************************************************************)
(* From the Stripe checkout session of a pending order to its payment row. *)
(*                                                                         *)
(* initiatePayment opens any number of checkout sessions for an order;     *)
(* Stripe sends checkout.session.completed at least once for each that is  *)
(* completed; handleStripeWebhook puts a task in the queue under the       *)
(* order's id and answers 2xx only if that succeeded; a worker then runs   *)
(* ProcessTaskConfirmOrderPayment, which can fail, panic or die anywhere.  *)
(*                                                                         *)
(* The webhook route sits behind requireAuthenicatedUser and the user      *)
(* role: only a delivery that carries a user's access token reaches the    *)
(* handler, any other is answered 401.  WebhookCaller says which kind the  *)
(* deliveries of an instance are.  Stripe itself carries no such token, so *)
(* that an event is acknowledged in the end is promised nowhere here: the  *)
(* properties say what follows from the deliveries that do get in.         *)
(* Deliveries that change nothing have no action: those answered 401, or   *)
(* 500 for a body, API version or signature the handler does not accept,   *)
(* and those that panic for a payment_intent that is no string.            *)
(***************************************************************************)
EXTENDS OrderTables, Naturals, FiniteSets

CONSTANTS Checkouts,    \* Stripe checkout sessions, each with its one event
          OrderOf,      \* metadata["order_id"] of a checkout session
          CartItems,    \* ids of cart_items rows
          ItemsOf,      \* order_items.cart_item_id of an order
          WebhookCaller, \* "user" or "anonymous": who deliveries come from
          MaxRetry,     \* asynq's retries of one task (25 in the code)
          MaxEnqueues,  \* bound: accepted deliveries of one event
          NoTask

ASSUME PaymentAssumptions ==
  /\ OrderOf \in [Checkouts -> Orders]
  /\ ItemsOf \in [Orders -> SUBSET CartItems]
  /\ WebhookCaller \in {"user", "anonymous"}
  /\ MaxRetry \in Nat
  /\ MaxEnqueues \in Nat \ {0}

VARIABLES
  checkout,   \* checkout[e]: what became of the session at Stripe
  acked,      \* events whose delivery Stripe saw answered with 2xx
  enqueued,   \* enqueued[e]: deliveries that made it into the queue
  task, locked,  \* the queue: see TaskQueue
  handler,    \* handler[o]: where the worker running order o's task is
  payments,   \* payments[e]: rows of the payments table for event e
  cartItems,  \* cart_items rows
  confirmed   \* orders whose confirmation email was ever enqueued

queueVars   == <<task, locked>>
stripeVars  == <<checkout, acked, enqueued>>
workerVars  == <<handler, payments, cartItems, confirmed>>
paymentVars == <<stripeVars, queueVars, workerVars>>
vars        == <<status, paid, paymentVars>>

\* A payment task's payload is the event; the payload of the confirmation
\* email task is the order.
Queue == INSTANCE TaskQueue WITH TaskIds  <- Orders,
                                 Payloads <- Checkouts \cup Orders

ASSUME NoTaskAssumption == NoTask \notin Queue!Tasks

Completed(e) == checkout[e] \in {"paid", "unpaid"}

EventOf(o) == task[o].payload

Init ==
  /\ OrdersInit
  /\ Queue!QueueInit
  /\ checkout = [e \in Checkouts |-> "none"]
  /\ acked = {}
  /\ enqueued = [e \in Checkouts |-> 0]
  /\ handler = [o \in Orders |-> "idle"]
  /\ payments = [e \in Checkouts |-> 0]
  /\ cartItems = CartItems
  /\ confirmed = {}

-----------------------------------------------------------------------------
(* The API and Stripe. *)

InitiatePayment(e) ==
  /\ checkout[e] = "none"
  /\ status[OrderOf[e]] = "pending"
  /\ checkout' = [checkout EXCEPT ![e] = "open"]
  /\ UNCHANGED <<status, paid, acked, enqueued, queueVars, workerVars>>

\* The customer completes the session; payment_status is paid or it is not.
CompleteCheckout(e) ==
  /\ checkout[e] = "open"
  /\ \E outcome \in {"paid", "unpaid"} :
       checkout' = [checkout EXCEPT ![e] = outcome]
  /\ UNCHANGED <<status, paid, acked, enqueued, queueVars, workerVars>>

\* Mutant: the payment task is enqueued without asynq.TaskID.
AcceptEventWithoutTaskID(e) ==
  /\ WebhookCaller = "user"
  /\ Completed(e)
  /\ enqueued[e] < MaxEnqueues
  /\ e \notin locked
  /\ task' = [task EXCEPT ![OrderOf[e]] = [payload |-> e, state |-> "pending", retried |-> 0]]
  /\ locked' = locked \cup {e}
  /\ enqueued' = [enqueued EXCEPT ![e] = @ + 1]
  /\ acked' = acked \cup {e}
  /\ UNCHANGED <<status, paid, checkout, workerVars>>

\* A delivery is enqueued and answered with 200.  Stripe may not see the
\* answer; within the bound it then delivers the event again.
AcceptEvent(e) ==
  /\ WebhookCaller = "user"
  /\ Completed(e)
  /\ enqueued[e] < MaxEnqueues
  /\ Queue!Available(OrderOf[e], e)
  /\ Queue!TryEnqueue(OrderOf[e], e)
  /\ enqueued' = [enqueued EXCEPT ![e] = @ + 1]
  /\ \/ acked' = acked \cup {e}
     \/ enqueued[e] + 1 < MaxEnqueues /\ acked' = acked
  /\ UNCHANGED <<status, paid, checkout, workerVars>>

\* Mutant: the error of the enqueue call is dropped, and Stripe gets a 200.
RefuseEventWith200(e) ==
  /\ WebhookCaller = "user"
  /\ Completed(e)
  /\ ~Queue!Available(OrderOf[e], e)
  /\ Queue!TryEnqueue(OrderOf[e], e)
  /\ acked' = acked \cup {e}
  /\ UNCHANGED <<status, paid, checkout, enqueued, workerVars>>

\* A delivery whose task the queue refuses is answered with 500; the lock it
\* took stays behind.
RefuseEvent(e) ==
  /\ WebhookCaller = "user"
  /\ Completed(e)
  /\ ~Queue!Available(OrderOf[e], e)
  /\ Queue!TryEnqueue(OrderOf[e], e)
  /\ UNCHANGED <<status, paid, stripeVars, workerVars>>

-----------------------------------------------------------------------------
(* The worker: ProcessTaskConfirmOrderPayment for the task of order o. *)

StartTask(o) ==
  /\ Queue!Dequeue(o)
  /\ handler' = [handler EXCEPT ![o] = "create"]
  /\ UNCHANGED <<status, paid, stripeVars, payments, cartItems, confirmed>>

Goto(o, from, to) ==
  /\ handler[o] = from
  /\ handler' = [handler EXCEPT ![o] = to]

\* Mutant: the cart items of paid orders are deleted before the order is paid.
CreatePaymentClearsFirst(o) ==
  LET e == EventOf(o)
      completed == checkout[e] = "paid"
  IN /\ Goto(o, "create", IF completed THEN "confirm" ELSE "failed")
     /\ payments' = [payments EXCEPT ![e] = @ + 1]
     /\ cartItems' = IF completed /\ paid[o] THEN cartItems \ ItemsOf[o] ELSE cartItems
     /\ SetProcessingOrder(o, completed)
     /\ UNCHANGED <<stripeVars, queueVars, confirmed>>

\* Payments.Create: one transaction inserts the row, sets the order and, for
\* a completed payment, deletes the cart items the order was made from.
CreatePayment(o) ==
  LET e == EventOf(o)
      completed == checkout[e] = "paid"
  IN /\ Goto(o, "create", IF completed THEN "confirm" ELSE "failed")
     /\ payments' = [payments EXCEPT ![e] = @ + 1]
     /\ SetProcessingOrder(o, completed)
     /\ cartItems' = IF completed THEN cartItems \ ItemsOf[o] ELSE cartItems
     /\ UNCHANGED <<stripeVars, queueVars, confirmed>>

\* After a failed payment the order is read, and nothing else is done: the
\* release of the promo code is guarded by err != nil.
ReadFailedOrder(o) ==
  /\ Goto(o, "failed", "confirm")
  /\ UNCHANGED <<status, paid, stripeVars, queueVars, payments, cartItems, confirmed>>

\* The email task has the order's id too.  An error is ignored.
EnqueueConfirmation(o) ==
  /\ Goto(o, "confirm", "done")
  /\ Queue!TryEnqueue(o, o)
  /\ confirmed' = IF Queue!Available(o, o) THEN confirmed \cup {o} ELSE confirmed
  /\ UNCHANGED <<status, paid, stripeVars, payments, cartItems>>

FinishTask(o) ==
  /\ Goto(o, "done", "idle")
  /\ Queue!Done(o)
  /\ UNCHANGED <<status, paid, stripeVars, payments, cartItems, confirmed>>

\* Every way a run of the task ends without Done: Payments.Create fails and
\* is rolled back, GetOrderByID fails and its nil order is dereferenced, or
\* the worker dies anywhere and the lease runs out.
AbortTask(o) ==
  /\ handler[o] # "idle"
  /\ handler' = [handler EXCEPT ![o] = "idle"]
  /\ Queue!Failed(o)
  /\ UNCHANGED <<status, paid, stripeVars, payments, cartItems, confirmed>>

LockExpires(p) ==
  /\ Queue!LockExpires(p)
  /\ UNCHANGED <<status, paid, stripeVars, workerVars>>

-----------------------------------------------------------------------------
HandlerStep(o) == CreatePayment(o) \/ ReadFailedOrder(o)
                    \/ EnqueueConfirmation(o) \/ FinishTask(o) \/ AbortTask(o)

Next ==
  \/ \E e \in Checkouts : \/ InitiatePayment(e) \/ CompleteCheckout(e)
                          \/ AcceptEvent(e) \/ RefuseEvent(e)
  \/ \E o \in Orders : StartTask(o) \/ HandlerStep(o)
  \/ \E p \in Checkouts \cup Orders : LockExpires(p)

\* Workers keep dequeuing and a started handler returns, one way or another.
\* Customers and Stripe owe nothing.
Fairness == \A o \in Orders : WF_vars(StartTask(o)) /\ WF_vars(HandlerStep(o))

Spec == Init /\ [][Next]_vars
FairSpec == Spec /\ Fairness

-----------------------------------------------------------------------------
TypeOK ==
  /\ OrdersTypeOK
  /\ Queue!QueueTypeOK
  /\ checkout \in [Checkouts -> {"none", "open", "paid", "unpaid"}]
  /\ acked \subseteq Checkouts
  /\ enqueued \in [Checkouts -> 0..MaxEnqueues]
  /\ handler \in [Orders -> {"idle", "create", "failed", "confirm", "done"}]
  /\ payments \in [Checkouts -> Nat]
  /\ cartItems \subseteq CartItems
  /\ confirmed \subseteq Orders

\* Event e has a payment row, or its task is still stored in the queue.
Tracked(e) == \/ payments[e] > 0
              \/ /\ task[OrderOf[e]] # NoTask
                 /\ EventOf(OrderOf[e]) = e

\* No acknowledged event is ever lost: once Stripe has seen the 2xx of
\* handleStripeWebhook and will not deliver the event again, there is a payment
\* row for it or a task that will create one (or was archived), whatever other
\* events, failures and lock expiries do in between.
AckedIsTracked == \A e \in acked : Tracked(e)

\* An order is paid only on the strength of a payment row for one of its own
\* checkout sessions that Stripe reported as paid (Payments.Create).
PaidHasCompletedPayment ==
  \A o \in Orders : paid[o] =>
    \E e \in Checkouts : /\ OrderOf[e] = o
                         /\ checkout[e] = "paid"
                         /\ payments[e] > 0

\* The cart items an order was made from are gone as soon as one of its
\* payments has completed, whatever the other sessions of the same order and
\* orders over the same cart items do (clearOrderedCartItems).
CompletedClearsCart ==
  \A e \in Checkouts : checkout[e] = "paid" /\ payments[e] > 0
                         => ItemsOf[OrderOf[e]] \cap cartItems = {}

\* One task per order: from the payment transaction to the end of the handler
\* the order shows the outcome of the very event that is being handled, since
\* asynq.TaskID(orderID) keeps the order's other events out of the queue.
OutcomeOfHandledEvent ==
  \A o \in Orders : handler[o] \in {"failed", "confirm", "done"} =>
    /\ payments[EventOf(o)] > 0
    /\ paid[o] = (checkout[EventOf(o)] = "paid")

\* A delivery that was accepted once leads to at most one payment row per run
\* of its task: retries and redeliveries multiply rows, but no further.
RowsPerDelivery ==
  /\ TypeOK
  /\ \A e \in Checkouts : payments[e] <= enqueued[e] * (MaxRetry + 1)

\* A task does not stay in progress: every payment task is in the end deleted
\* or archived, however often its handler fails or dies.
TaskSettles ==
  \A o \in Orders : task[o] # NoTask ~> task[o] = NoTask \/ Queue!InState(o, "archived")

-----------------------------------------------------------------------------
(* The pipeline implements the ledger. *)

Ledger == INSTANCE PaymentLedger WITH
  taken    <- {e \in Checkouts : enqueued[e] > 0},
  recorded <- {e \in Checkouts : payments[e] > 0},
  givenUp  <- {e \in Checkouts : /\ Queue!InState(OrderOf[e], "archived")
                                 /\ EventOf(OrderOf[e]) = e}

\* Webhook, queue and worker together implement the abstract ledger: nothing is
\* acknowledged or recorded that was not taken, and nothing is forgotten.
ImplementsLedger == Ledger!Spec

=============================================================================
