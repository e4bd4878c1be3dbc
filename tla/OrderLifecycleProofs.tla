------------------------- MODULE OrderLifecycleProofs -------------------------
(***************************************************************************)
(* Safety of the payment pipeline and of the promo reclaim job, each by    *)
(* itself and next to the other, for any orders, checkout sessions, cart   *)
(* items, promo codes, bounds, overlapping runs and faults.                *)
(***************************************************************************)
EXTENDS OrderLifecycle, FiniteSetTheorems, TLAPS

-----------------------------------------------------------------------------
(* The payment pipeline.                                                   *)

\* A stored task is the payment task of a completed checkout of its order (the
\* confirmation email never gets in: the order's payment task holds the id).
TasksAreEvents ==
  \A o \in Orders : task[o] # NoTask =>
    /\ EventOf(o) \in Checkouts
    /\ OrderOf[EventOf(o)] = o
    /\ Completed(EventOf(o))
    /\ enqueued[EventOf(o)] > 0

\* Only a completed checkout has payment rows.
RowsAreCompleted ==
  \A e \in Checkouts : payments[e] > 0 => Completed(e)

\* A handler only ever runs for an active task.
HandlersAreActive ==
  \A o \in Orders : handler[o] # "idle" => Queue!InState(o, "active")

IInv == /\ TypeOK
        /\ TasksAreEvents
        /\ HandlersAreActive
        /\ OutcomeOfHandledEvent
        /\ PaidHasCompletedPayment
        /\ AckedIsTracked
        /\ RowsAreCompleted
        /\ CompletedClearsCart

-----------------------------------------------------------------------------
USE PaymentAssumptions, NoTaskAssumption

LEMMA InitIInv == Init => IInv
<1> SUFFICES ASSUME Init PROVE IInv
  OBVIOUS
<1> USE DEF Init, OrdersInit, Queue!QueueInit
<1>1. TypeOK
  BY DEF TypeOK, OrdersTypeOK, OrderStatus, Queue!QueueTypeOK
<1>2. TasksAreEvents
  BY DEF TasksAreEvents
<1>3. HandlersAreActive
  BY DEF HandlersAreActive
<1>4. OutcomeOfHandledEvent /\ PaidHasCompletedPayment /\ AckedIsTracked
  BY DEF OutcomeOfHandledEvent, PaidHasCompletedPayment, AckedIsTracked
<1>5. RowsAreCompleted /\ CompletedClearsCart
  BY DEF RowsAreCompleted, CompletedClearsCart
<1> QED
  BY <1>1, <1>2, <1>3, <1>4, <1>5 DEF IInv

\* A failed run leaves a well-formed task with the same payload.
LEMMA AfterFailureType ==
  ASSUME NEW t \in Queue!Tasks
  PROVE  /\ Queue!AfterFailure(t) \in Queue!Tasks
         /\ Queue!AfterFailure(t).payload = t.payload
<1>1. CASE t.retried < MaxRetry
  <2>1. t.retried + 1 \in 0..MaxRetry
    BY <1>1 DEF Queue!Tasks
  <2>2. Queue!AfterFailure(t) = [t EXCEPT !.state = "pending", !.retried = t.retried + 1]
    BY <1>1 DEF Queue!AfterFailure
  <2> QED
    BY <2>1, <2>2 DEF Queue!Tasks
<1>2. CASE ~(t.retried < MaxRetry)
  BY <1>2 DEF Queue!AfterFailure, Queue!Tasks
<1> QED
  BY <1>1, <1>2

LEMMA NextTypeOK == IInv /\ [Next]_vars => TypeOK'
<1> SUFFICES ASSUME IInv, [Next]_vars PROVE TypeOK'
  OBVIOUS
<1> USE DEF IInv, TypeOK, OrdersTypeOK, OrderStatus, Queue!QueueTypeOK, Queue!Tasks,
            queueVars, stripeVars, workerVars
<1>1. ASSUME NEW e \in Checkouts, InitiatePayment(e) PROVE TypeOK'
  BY <1>1 DEF InitiatePayment
<1>2. ASSUME NEW e \in Checkouts, CompleteCheckout(e) PROVE TypeOK'
  BY <1>2 DEF CompleteCheckout
<1>3. ASSUME NEW e \in Checkouts, AcceptEvent(e) PROVE TypeOK'
  BY <1>3 DEF AcceptEvent, Queue!TryEnqueue, Queue!Available
<1>4. ASSUME NEW e \in Checkouts, RefuseEvent(e) PROVE TypeOK'
  BY <1>4 DEF RefuseEvent, Queue!TryEnqueue, Queue!Available
<1>5. ASSUME NEW o \in Orders, StartTask(o) PROVE TypeOK'
  BY <1>5 DEF StartTask, Queue!Dequeue, Queue!InState
<1>6. ASSUME NEW o \in Orders, CreatePayment(o) PROVE TypeOK'
  <2>1. EventOf(o) \in Checkouts
    BY <1>6 DEF CreatePayment, Goto, HandlersAreActive, TasksAreEvents, Queue!InState
  <2> QED
    BY <1>6, <2>1 DEF CreatePayment, Goto, SetProcessingOrder
<1>7. ASSUME NEW o \in Orders, ReadFailedOrder(o) PROVE TypeOK'
  BY <1>7 DEF ReadFailedOrder, Goto
<1>8. ASSUME NEW o \in Orders, EnqueueConfirmation(o) PROVE TypeOK'
  BY <1>8 DEF EnqueueConfirmation, Goto, Queue!TryEnqueue, Queue!Available
<1>9. ASSUME NEW o \in Orders, FinishTask(o) PROVE TypeOK'
  BY <1>9 DEF FinishTask, Goto, Queue!Done
<1>10. ASSUME NEW o \in Orders, AbortTask(o) PROVE TypeOK'
  <2>1. Queue!Failed(o) /\ task[o] \in Queue!Tasks
    BY <1>10 DEF AbortTask, Queue!Failed, Queue!InState
  <2>2. Queue!AfterFailure(task[o]) \in Queue!Tasks
    BY <2>1, AfterFailureType
  <2>3. Queue!QueueTypeOK'
    BY <2>1, <2>2 DEF Queue!Failed
  <2> QED
    BY <1>10, <2>3 DEF AbortTask
<1>11. ASSUME NEW p \in Checkouts \cup Orders, LockExpires(p) PROVE TypeOK'
  BY <1>11 DEF LockExpires, Queue!LockExpires
<1>12. CASE UNCHANGED vars
  BY <1>12 DEF vars, paymentVars
<1> QED
  BY <1>1, <1>2, <1>3, <1>4, <1>5, <1>6, <1>7, <1>8, <1>9, <1>10, <1>11, <1>12
     DEF Next, HandlerStep

-----------------------------------------------------------------------------
(* The other conjuncts of IInv are preserved together.  Each action changes   *)
(* little: the lemmas below treat the actions one by one.                     *)

Safe == /\ TasksAreEvents
        /\ HandlersAreActive
        /\ OutcomeOfHandledEvent
        /\ PaidHasCompletedPayment
        /\ AckedIsTracked
        /\ RowsAreCompleted
        /\ CompletedClearsCart

LEMMA StripeSteps ==
  ASSUME IInv, TypeOK', NEW e \in Checkouts,
         \/ InitiatePayment(e) \/ CompleteCheckout(e)
  PROVE  Safe'
<1> USE DEF IInv, Safe, TypeOK, stripeVars, queueVars, workerVars
<1>1. /\ checkout[e] \in {"none", "open"}
      /\ \A f \in Checkouts : f # e => checkout'[f] = checkout[f]
      /\ UNCHANGED <<status, paid, acked, enqueued, task, locked, handler, payments,
                     cartItems>>
  BY DEF InitiatePayment, CompleteCheckout
<1>2. \A f \in Checkouts : Completed(f) => checkout'[f] = checkout[f]
  BY <1>1 DEF Completed
<1>3. TasksAreEvents'
  BY <1>1, <1>2 DEF TasksAreEvents, EventOf, Completed
<1>4. HandlersAreActive'
  BY <1>1 DEF HandlersAreActive, Queue!InState
<1>5. OutcomeOfHandledEvent'
  <2> SUFFICES ASSUME NEW o \in Orders, handler[o] \in {"failed", "confirm", "done"}
               PROVE  /\ payments[EventOf(o)] > 0
                      /\ paid[o] = (checkout'[EventOf(o)] = "paid")
    BY <1>1 DEF OutcomeOfHandledEvent, EventOf
  <2>1. EventOf(o) \in Checkouts /\ Completed(EventOf(o))
    BY DEF HandlersAreActive, TasksAreEvents, Queue!InState
  <2> QED
    BY <2>1, <1>2 DEF OutcomeOfHandledEvent
<1>6. PaidHasCompletedPayment'
  BY <1>1, <1>2 DEF PaidHasCompletedPayment, Completed
<1>7. AckedIsTracked'
  BY <1>1 DEF AckedIsTracked, Tracked, EventOf
<1>8. RowsAreCompleted' /\ CompletedClearsCart'
  BY <1>1, <1>2 DEF RowsAreCompleted, CompletedClearsCart, Completed
<1> QED
  BY <1>3, <1>4, <1>5, <1>6, <1>7, <1>8

LEMMA AcceptStep ==
  ASSUME IInv, NEW e \in Checkouts, AcceptEvent(e)
  PROVE  Safe'
<1> USE DEF IInv, Safe, TypeOK, stripeVars, queueVars, workerVars
<1> DEFINE id == OrderOf[e]
           t  == [payload |-> e, state |-> "pending", retried |-> 0]
<1>1. /\ task[id] = NoTask
      /\ task' = [task EXCEPT ![id] = t]
      /\ acked' \subseteq acked \cup {e}
      /\ Completed(e)
      /\ enqueued' = [enqueued EXCEPT ![e] = @ + 1]
      /\ UNCHANGED <<status, paid, checkout, handler, payments, cartItems>>
  BY DEF AcceptEvent, Queue!Available, Queue!TryEnqueue
<1>2. task \in [Orders -> Queue!Tasks \cup {NoTask}] /\ id \in Orders
  BY DEF Queue!QueueTypeOK
<1>3. t # NoTask
  BY DEF Queue!Tasks
<1>4. task'[id] = t /\ \A o \in Orders : o # id => task'[o] = task[o]
  BY <1>1, <1>2
<1>5. handler[id] = "idle"
  BY <1>1, <1>2 DEF HandlersAreActive, Queue!InState
<1>6. TasksAreEvents'
  BY <1>1, <1>2, <1>4 DEF TasksAreEvents, EventOf, Completed
<1>7. HandlersAreActive'
  BY <1>1, <1>2, <1>4, <1>5 DEF HandlersAreActive, Queue!InState
<1>8. OutcomeOfHandledEvent'
  BY <1>1, <1>2, <1>4, <1>5 DEF OutcomeOfHandledEvent, EventOf
<1>9. PaidHasCompletedPayment'
  BY <1>1 DEF PaidHasCompletedPayment
<1>10. AckedIsTracked'
  <2> SUFFICES ASSUME NEW f \in acked' PROVE Tracked(f)'
    BY DEF AckedIsTracked
  <2>1. CASE f = e
    BY <2>1, <1>3, <1>4 DEF Tracked, EventOf
  <2>2. CASE f # e
    <3>1. f \in acked /\ f \in Checkouts /\ Tracked(f)
      BY <2>2, <1>1 DEF AckedIsTracked
    <3>2. CASE payments[f] > 0
      BY <3>2, <1>1 DEF Tracked
    <3>3. CASE ~(payments[f] > 0)
      <4>1. OrderOf[f] # id
        BY <3>1, <3>3, <1>1 DEF Tracked
      <4> QED
        BY <3>1, <3>3, <4>1, <1>4 DEF Tracked, EventOf
    <3> QED
      BY <3>2, <3>3
  <2> QED
    BY <2>1, <2>2
<1>11. RowsAreCompleted' /\ CompletedClearsCart'
  BY <1>1 DEF RowsAreCompleted, CompletedClearsCart, Completed
<1> QED
  BY <1>6, <1>7, <1>8, <1>9, <1>10, <1>11

\* A refused delivery, an expired lock and the confirmation email's failed
\* enqueue leave every task where it is; so does reading the failed order.
LEMMA QuietSteps ==
  ASSUME IInv, UNCHANGED <<status, paid, checkout, acked, enqueued, task, payments,
                           cartItems>>,
         \/ UNCHANGED handler
         \/ \E o \in Orders : \/ Goto(o, "failed", "confirm")
                              \/ Goto(o, "confirm", "done")
  PROVE  Safe'
<1> USE DEF IInv, Safe, TypeOK
<1>1. \A o \in Orders : /\ handler'[o] # "idle" => handler[o] # "idle"
                        /\ handler'[o] \in {"failed", "confirm", "done"}
                             => handler[o] \in {"failed", "confirm", "done"}
  BY DEF Goto
<1>2. TasksAreEvents' /\ PaidHasCompletedPayment' /\ AckedIsTracked'
  BY DEF TasksAreEvents, EventOf, Completed, PaidHasCompletedPayment,
         AckedIsTracked, Tracked
<1>3. HandlersAreActive'
  BY <1>1 DEF HandlersAreActive, Queue!InState
<1>4. OutcomeOfHandledEvent'
  BY <1>1 DEF OutcomeOfHandledEvent, EventOf
<1>5. RowsAreCompleted' /\ CompletedClearsCart'
  BY DEF RowsAreCompleted, CompletedClearsCart, Completed
<1> QED
  BY <1>2, <1>3, <1>4, <1>5

\* The task of order o starts, is retried or is archived: the stored task keeps
\* its payload and the handler is at its first step or at none.
LEMMA RestartSteps ==
  ASSUME IInv, NEW o \in Orders, StartTask(o) \/ AbortTask(o)
  PROVE  Safe'
<1> USE DEF IInv, Safe, TypeOK, Queue!QueueTypeOK, stripeVars
<1>1. /\ UNCHANGED <<status, paid, checkout, acked, enqueued, payments, cartItems>>
      /\ \A p \in Orders : p # o => task'[p] = task[p] /\ handler'[p] = handler[p]
  BY DEF StartTask, AbortTask, Queue!Dequeue, Queue!Failed
<1>2. task[o] \in Queue!Tasks /\ task[o] # NoTask
  BY DEF StartTask, AbortTask, Queue!Dequeue, Queue!Failed, Queue!InState
<1>3. /\ task'[o] \in Queue!Tasks
      /\ task'[o].payload = task[o].payload
      /\ \/ handler'[o] = "idle"
         \/ handler'[o] = "create" /\ task'[o].state = "active"
  <2>1. CASE StartTask(o)
    BY <2>1, <1>2 DEF StartTask, Queue!Dequeue, Queue!Tasks
  <2>2. CASE AbortTask(o)
    BY <2>2, <1>2, AfterFailureType DEF AbortTask, Queue!Failed
  <2> QED
    BY <2>1, <2>2
<1>4. task'[o] # NoTask
  BY <1>3
<1>5. \A p \in Orders : /\ task'[p] # NoTask <=> task[p] # NoTask
                        /\ task[p] # NoTask => task'[p].payload = task[p].payload
  BY <1>1, <1>2, <1>3, <1>4
<1>6. TasksAreEvents'
  BY <1>1, <1>5 DEF TasksAreEvents, EventOf, Completed
<1>7. HandlersAreActive'
  <2> SUFFICES ASSUME NEW p \in Orders, handler'[p] # "idle"
               PROVE  Queue!InState(p, "active")'
    BY DEF HandlersAreActive
  <2>1. CASE p = o
    BY <2>1, <1>3, <1>4 DEF Queue!InState
  <2>2. CASE p # o
    BY <2>2, <1>1 DEF HandlersAreActive, Queue!InState
  <2> QED
    BY <2>1, <2>2
<1>8. OutcomeOfHandledEvent'
  <2> SUFFICES ASSUME NEW p \in Orders, handler'[p] \in {"failed", "confirm", "done"}
               PROVE  /\ payments[EventOf(p)'] > 0
                      /\ paid[p] = (checkout[EventOf(p)'] = "paid")
    BY <1>1 DEF OutcomeOfHandledEvent
  <2>1. p # o
    BY <1>3
  <2> QED
    BY <2>1, <1>1 DEF OutcomeOfHandledEvent, EventOf
<1>9. PaidHasCompletedPayment' /\ RowsAreCompleted' /\ CompletedClearsCart'
  BY <1>1 DEF PaidHasCompletedPayment, RowsAreCompleted, CompletedClearsCart, Completed
<1>10. AckedIsTracked'
  <2> SUFFICES ASSUME NEW f \in acked PROVE Tracked(f)'
    BY <1>1 DEF AckedIsTracked
  <2>1. f \in Checkouts /\ OrderOf[f] \in Orders /\ Tracked(f)
    BY DEF AckedIsTracked
  <2> QED
    BY <2>1, <1>1, <1>5 DEF Tracked, EventOf
<1> QED
  BY <1>6, <1>7, <1>8, <1>9, <1>10

\* The payment transaction: the row, the order and the cart change together.
LEMMA CreateStep ==
  ASSUME IInv, NEW o \in Orders, CreatePayment(o)
  PROVE  Safe'
<1> USE DEF IInv, Safe, TypeOK, OrdersTypeOK, stripeVars, queueVars
<1> DEFINE e == EventOf(o)
           completed == checkout[e] = "paid"
<1>1. e \in Checkouts /\ OrderOf[e] = o /\ Completed(e)
  BY DEF CreatePayment, Goto, HandlersAreActive, TasksAreEvents, Queue!InState
<1>2. /\ handler[o] = "create"
      /\ handler' = [handler EXCEPT ![o] = IF completed THEN "confirm" ELSE "failed"]
      /\ payments' = [payments EXCEPT ![e] = @ + 1]
      /\ paid' = [paid EXCEPT ![o] = completed]
      /\ cartItems' = IF completed THEN cartItems \ ItemsOf[o] ELSE cartItems
      /\ UNCHANGED <<checkout, acked, enqueued, task>>
  BY DEF CreatePayment, Goto, SetProcessingOrder
<1>3. /\ payments'[e] > 0
      /\ \A f \in Checkouts : payments[f] > 0 => payments'[f] > 0
      /\ \A f \in Checkouts : payments'[f] > 0 => f = e \/ payments[f] > 0
  BY <1>1, <1>2
<1>4. TasksAreEvents'
  BY <1>2 DEF TasksAreEvents, EventOf, Completed
<1>5. HandlersAreActive'
  BY <1>2 DEF HandlersAreActive, Queue!InState
<1>6. OutcomeOfHandledEvent'
  <2> SUFFICES ASSUME NEW p \in Orders, handler'[p] \in {"failed", "confirm", "done"}
               PROVE  /\ payments'[EventOf(p)] > 0
                      /\ paid'[p] = (checkout[EventOf(p)] = "paid")
    BY <1>2 DEF OutcomeOfHandledEvent, EventOf
  <2>1. CASE p = o
    BY <2>1, <1>2, <1>3
  <2>2. CASE p # o
    <3>1. EventOf(p) \in Checkouts
      BY <2>2, <1>2 DEF HandlersAreActive, TasksAreEvents, Queue!InState
    <3> QED
      BY <2>2, <3>1, <1>2, <1>3 DEF OutcomeOfHandledEvent
  <2> QED
    BY <2>1, <2>2
<1>7. PaidHasCompletedPayment'
  <2> SUFFICES ASSUME NEW p \in Orders, paid'[p]
               PROVE  \E f \in Checkouts : /\ OrderOf[f] = p
                                           /\ checkout[f] = "paid"
                                           /\ payments'[f] > 0
    BY <1>2 DEF PaidHasCompletedPayment
  <2>1. CASE p = o
    BY <2>1, <1>1, <1>2, <1>3
  <2>2. CASE p # o
    BY <2>2, <1>2, <1>3 DEF PaidHasCompletedPayment
  <2> QED
    BY <2>1, <2>2
<1>8. AckedIsTracked'
  BY <1>2, <1>3 DEF AckedIsTracked, Tracked, EventOf
<1>9. RowsAreCompleted'
  BY <1>1, <1>2, <1>3 DEF RowsAreCompleted, Completed
<1>10. CompletedClearsCart'
  <2> SUFFICES ASSUME NEW f \in Checkouts, checkout[f] = "paid", payments'[f] > 0
               PROVE  ItemsOf[OrderOf[f]] \cap cartItems' = {}
    BY <1>2 DEF CompletedClearsCart
  <2>1. CASE f = e
    BY <2>1, <1>1, <1>2
  <2>2. CASE f # e
    BY <2>2, <1>2, <1>3 DEF CompletedClearsCart
  <2> QED
    BY <2>1, <2>2
<1> QED
  BY <1>4, <1>5, <1>6, <1>7, <1>8, <1>9, <1>10

\* The task goes, and its event has a payment row by then.
LEMMA FinishStep ==
  ASSUME IInv, NEW o \in Orders, FinishTask(o)
  PROVE  Safe'
<1> USE DEF IInv, Safe, TypeOK, Queue!QueueTypeOK, stripeVars
<1>1. /\ handler[o] = "done"
      /\ handler' = [handler EXCEPT ![o] = "idle"]
      /\ task' = [task EXCEPT ![o] = NoTask]
      /\ UNCHANGED <<status, paid, checkout, acked, enqueued, payments, cartItems>>
  BY DEF FinishTask, Goto, Queue!Done
<1>2. payments[EventOf(o)] > 0
  BY <1>1 DEF OutcomeOfHandledEvent
<1>3. TasksAreEvents'
  BY <1>1 DEF TasksAreEvents, EventOf, Completed
<1>4. HandlersAreActive'
  BY <1>1 DEF HandlersAreActive, Queue!InState
<1>5. OutcomeOfHandledEvent'
  BY <1>1 DEF OutcomeOfHandledEvent, EventOf
<1>6. PaidHasCompletedPayment' /\ RowsAreCompleted' /\ CompletedClearsCart'
  BY <1>1 DEF PaidHasCompletedPayment, RowsAreCompleted, CompletedClearsCart, Completed
<1>7. AckedIsTracked'
  <2> SUFFICES ASSUME NEW f \in acked PROVE Tracked(f)'
    BY <1>1 DEF AckedIsTracked
  <2>1. f \in Checkouts /\ OrderOf[f] \in Orders /\ Tracked(f)
    BY DEF AckedIsTracked
  <2>2. CASE payments[f] > 0
    BY <2>2, <1>1 DEF Tracked
  <2>3. CASE ~(payments[f] > 0)
    <3>1. OrderOf[f] # o
      BY <2>1, <2>3, <1>2 DEF Tracked
    <3> QED
      BY <2>1, <2>3, <3>1, <1>1 DEF Tracked, EventOf
  <2> QED
    BY <2>2, <2>3
<1> QED
  BY <1>3, <1>4, <1>5, <1>6, <1>7

LEMMA NextIInv == IInv /\ [Next]_vars => IInv'
<1> SUFFICES ASSUME IInv, [Next]_vars PROVE IInv'
  OBVIOUS
<1> USE DEF stripeVars, queueVars, workerVars
<1>1. TypeOK'
  BY NextTypeOK
<1>2. ASSUME NEW e \in Checkouts, InitiatePayment(e) \/ CompleteCheckout(e) PROVE Safe'
  BY <1>1, <1>2, StripeSteps
<1>3. ASSUME NEW e \in Checkouts, AcceptEvent(e) PROVE Safe'
  BY <1>3, AcceptStep
<1>4. ASSUME NEW e \in Checkouts, RefuseEvent(e) PROVE Safe'
  <2>1. UNCHANGED <<status, paid, checkout, acked, enqueued, task, payments, cartItems, handler>>
    BY <1>4 DEF RefuseEvent, Queue!TryEnqueue
  <2> QED
    BY <2>1, QuietSteps
<1>5. ASSUME NEW o \in Orders, StartTask(o) \/ AbortTask(o) PROVE Safe'
  BY <1>5, RestartSteps
<1>6. ASSUME NEW o \in Orders, CreatePayment(o) PROVE Safe'
  BY <1>6, CreateStep
<1>7. ASSUME NEW o \in Orders, ReadFailedOrder(o) PROVE Safe'
  <2>1. /\ UNCHANGED <<status, paid, checkout, acked, enqueued, task, payments, cartItems>>
        /\ Goto(o, "failed", "confirm")
    BY <1>7 DEF ReadFailedOrder
  <2> QED
    BY <2>1, QuietSteps
<1>8. ASSUME NEW o \in Orders, EnqueueConfirmation(o) PROVE Safe'
  <2>1. task[o] # NoTask
    BY <1>8 DEF EnqueueConfirmation, Goto, IInv, HandlersAreActive, Queue!InState
  <2>2. /\ UNCHANGED <<status, paid, checkout, acked, enqueued, task, payments, cartItems>>
        /\ Goto(o, "confirm", "done")
    BY <1>8, <2>1 DEF EnqueueConfirmation, Queue!TryEnqueue, Queue!Available
  <2> QED
    BY <2>2, QuietSteps
<1>9. ASSUME NEW o \in Orders, FinishTask(o) PROVE Safe'
  BY <1>9, FinishStep
<1>10. ASSUME NEW p \in Checkouts \cup Orders, LockExpires(p) PROVE Safe'
  <2>1. UNCHANGED <<status, paid, checkout, acked, enqueued, task, payments, cartItems, handler>>
    BY <1>10 DEF LockExpires, Queue!LockExpires
  <2> QED
    BY <2>1, QuietSteps
<1>11. ASSUME UNCHANGED vars PROVE Safe'
  <2>1. UNCHANGED <<status, paid, checkout, acked, enqueued, task, payments, cartItems, handler>>
    BY <1>11 DEF vars, paymentVars
  <2> QED
    BY <2>1, QuietSteps
<1>12. Safe'
  BY <1>2, <1>3, <1>4, <1>5, <1>6, <1>7, <1>8, <1>9, <1>10, <1>11 DEF Next, HandlerStep
<1> QED
  BY <1>1, <1>12 DEF IInv, Safe

\* Every variable keeps its type, for any orders, checkouts and bounds.
THEOREM TypeCorrect == Spec => []TypeOK
<1>1. IInv => TypeOK
  BY DEF IInv
<1> QED
  BY <1>1, InitIInv, NextIInv, PTL DEF Spec

\* No acknowledged event is lost: see AckedIsTracked.
THEOREM AckedNeverLost == Spec => []AckedIsTracked
<1>1. IInv => AckedIsTracked
  BY DEF IInv
<1> QED
  BY <1>1, InitIInv, NextIInv, PTL DEF Spec

\* No order is paid without a completed payment of its own.
THEOREM PaidIsJustified == Spec => []PaidHasCompletedPayment
<1>1. IInv => PaidHasCompletedPayment
  BY DEF IInv
<1> QED
  BY <1>1, InitIInv, NextIInv, PTL DEF Spec

\* The order shows the outcome of the event being handled.
THEOREM HandledOneAtATime == Spec => []OutcomeOfHandledEvent
<1>1. IInv => OutcomeOfHandledEvent
  BY DEF IInv
<1> QED
  BY <1>1, InitIInv, NextIInv, PTL DEF Spec

\* The cart items of an order with a completed payment are gone.
THEOREM CartIsCleared == Spec => []CompletedClearsCart
<1>1. IInv => CompletedClearsCart
  BY DEF IInv
<1> QED
  BY <1>1, InitIInv, NextIInv, PTL DEF Spec

-----------------------------------------------------------------------------
(* Payment rows per delivery.                                                *)

\* Runs of the task of event e that have yet to execute Payments.Create, if
\* every one of them fails: the current one, if it is not past it, and one for
\* each retry left.
RunsOf(t, h) ==
  IF t.state = "archived" THEN 0
  ELSE IF t.state = "pending" \/ h = "create" THEN MaxRetry + 1 - t.retried
  ELSE MaxRetry - t.retried

TaskRunsLeft(o) == IF task[o] = NoTask THEN 0 ELSE RunsOf(task[o], handler[o])

RunsLeft(e) ==
  IF task[OrderOf[e]] # NoTask /\ EventOf(OrderOf[e]) = e THEN TaskRunsLeft(OrderOf[e]) ELSE 0

\* Every accepted delivery pays for MaxRetry + 1 rows.
RowsWithinBudget ==
  \A e \in Checkouts : payments[e] + RunsLeft(e) <= enqueued[e] * (MaxRetry + 1)

LEMMA RunsOfType ==
  ASSUME NEW t \in Queue!Tasks, NEW h
  PROVE  RunsOf(t, h) \in 0..(MaxRetry + 1)
BY DEF RunsOf, Queue!Tasks

LEMMA RunsLeftType ==
  TypeOK => /\ \A o \in Orders : TaskRunsLeft(o) \in 0..(MaxRetry + 1)
            /\ \A e \in Checkouts : RunsLeft(e) \in 0..(MaxRetry + 1)
<1> SUFFICES ASSUME TypeOK
             PROVE  /\ \A o \in Orders : TaskRunsLeft(o) \in 0..(MaxRetry + 1)
                    /\ \A e \in Checkouts : RunsLeft(e) \in 0..(MaxRetry + 1)
  OBVIOUS
<1>1. ASSUME NEW o \in Orders PROVE TaskRunsLeft(o) \in 0..(MaxRetry + 1)
  <2>1. CASE task[o] = NoTask
    BY <2>1 DEF TaskRunsLeft
  <2>2. CASE task[o] # NoTask
    <3>1. task[o] \in Queue!Tasks
      BY <2>2 DEF TypeOK, Queue!QueueTypeOK
    <3> QED
      BY <2>2, <3>1, RunsOfType DEF TaskRunsLeft
  <2> QED
    BY <2>1, <2>2
<1> QED
  BY <1>1 DEF RunsLeft

LEMMA RunsLeftTypeNext ==
  TypeOK' => /\ \A o \in Orders : TaskRunsLeft(o)' \in 0..(MaxRetry + 1)
             /\ \A e \in Checkouts : RunsLeft(e)' \in 0..(MaxRetry + 1)
<1>1. TypeOK' => (/\ \A o \in Orders : TaskRunsLeft(o) \in 0..(MaxRetry + 1)
                  /\ \A e \in Checkouts : RunsLeft(e) \in 0..(MaxRetry + 1))'
  BY RunsLeftType, PTL
<1> QED
  BY <1>1

\* No step adds rows and runs left together, but for the budget of a delivery.
LEMMA RowsStep ==
  ASSUME IInv, TypeOK', RowsWithinBudget,
         \A e \in Checkouts :
           \/ /\ payments'[e] + RunsLeft(e)' <= payments[e] + RunsLeft(e)
              /\ enqueued'[e] = enqueued[e]
           \/ /\ payments'[e] = payments[e] /\ RunsLeft(e) = 0
              /\ enqueued'[e] = enqueued[e] + 1
  PROVE  RowsWithinBudget'
<1> SUFFICES ASSUME NEW e \in Checkouts
             PROVE  payments'[e] + RunsLeft(e)' <= enqueued'[e] * (MaxRetry + 1)
  BY DEF RowsWithinBudget
<1>1. /\ payments[e] \in Nat /\ payments'[e] \in Nat
      /\ enqueued[e] \in Nat /\ enqueued'[e] \in Nat /\ MaxRetry \in Nat
  BY DEF IInv, TypeOK
<1>2. RunsLeft(e) \in Nat
  BY RunsLeftType DEF IInv
<1>3. RunsLeft(e)' \in Nat /\ RunsLeft(e)' <= MaxRetry + 1
  BY RunsLeftTypeNext
<1>4. payments[e] + RunsLeft(e) <= enqueued[e] * (MaxRetry + 1)
  BY DEF RowsWithinBudget
<1>5. /\ enqueued[e] * (MaxRetry + 1) \in Nat
      /\ (enqueued[e] + 1) * (MaxRetry + 1) = enqueued[e] * (MaxRetry + 1) + (MaxRetry + 1)
  BY <1>1
<1> QED
  BY <1>1, <1>2, <1>3, <1>4, <1>5

LEMMA NextRows == IInv /\ RowsWithinBudget /\ TypeOK' /\ [Next]_vars => RowsWithinBudget'
<1> SUFFICES ASSUME IInv, RowsWithinBudget, TypeOK', [Next]_vars PROVE RowsWithinBudget'
  OBVIOUS
<1> USE DEF queueVars, stripeVars, workerVars
<1>u. \A o \in Orders : TaskRunsLeft(o) \in Nat
  BY RunsLeftType DEF IInv
<1>v. \A o \in Orders : TaskRunsLeft(o)' \in Nat
  BY RunsLeftTypeNext
<1>t. /\ \A e \in Checkouts : payments[e] \in Nat /\ RunsLeft(e) \in Nat
      /\ \A o \in Orders : task[o] # NoTask => task[o] \in Queue!Tasks
  BY RunsLeftType DEF IInv, TypeOK, Queue!QueueTypeOK
<1>q. ASSUME UNCHANGED <<payments, enqueued, task>>,
             \A o \in Orders : handler'[o] = "create" <=> handler[o] = "create"
      PROVE  RowsWithinBudget'
  <2>1. \A e \in Checkouts : RunsLeft(e)' = RunsLeft(e)
    BY <1>q DEF RunsLeft, TaskRunsLeft, EventOf, RunsOf
  <2> QED
    BY <1>t, <1>q, <2>1, RowsStep
<1>1. ASSUME NEW e \in Checkouts,
             InitiatePayment(e) \/ CompleteCheckout(e) \/ RefuseEvent(e)
      PROVE  RowsWithinBudget'
  <2>1. UNCHANGED <<payments, enqueued, task, handler>>
    BY <1>1 DEF InitiatePayment, CompleteCheckout, RefuseEvent, Queue!TryEnqueue
  <2> QED
    BY <2>1, <1>q
<1>2. ASSUME NEW e \in Checkouts, AcceptEvent(e) PROVE RowsWithinBudget'
  <2> DEFINE t == [payload |-> e, state |-> "pending", retried |-> 0]
  <2>1. /\ task[OrderOf[e]] = NoTask
        /\ task' = [task EXCEPT ![OrderOf[e]] = t]
        /\ enqueued' = [enqueued EXCEPT ![e] = @ + 1]
        /\ UNCHANGED <<payments, handler>>
    BY <1>2 DEF AcceptEvent, Queue!Available, Queue!TryEnqueue
  <2>2. RunsLeft(e) = 0 /\ enqueued'[e] = enqueued[e] + 1
    BY <2>1 DEF RunsLeft, EventOf, IInv, TypeOK
  <2>3. ASSUME NEW f \in Checkouts, f # e
        PROVE  RunsLeft(f)' = RunsLeft(f) /\ enqueued'[f] = enqueued[f]
    <3>1. CASE OrderOf[f] = OrderOf[e]
      <4>1. task'[OrderOf[f]].payload # f
        BY <2>1, <2>3, <3>1 DEF IInv, TypeOK, Queue!QueueTypeOK
      <4> QED
        BY <2>1, <2>3, <3>1, <4>1 DEF RunsLeft, EventOf, IInv, TypeOK
    <3>2. CASE OrderOf[f] # OrderOf[e]
      BY <2>1, <2>3, <3>2 DEF RunsLeft, TaskRunsLeft, EventOf, IInv, TypeOK, Queue!QueueTypeOK
    <3> QED
      BY <3>1, <3>2
  <2>4. \A f \in Checkouts :
          \/ /\ payments'[f] + RunsLeft(f)' <= payments[f] + RunsLeft(f)
             /\ enqueued'[f] = enqueued[f]
          \/ /\ payments'[f] = payments[f] /\ RunsLeft(f) = 0
             /\ enqueued'[f] = enqueued[f] + 1
    BY <1>t, <2>1, <2>2, <2>3
  <2> QED
    BY <2>4, RowsStep
<1>3. ASSUME NEW o \in Orders, task[o] # NoTask,
             \A p \in Orders : p # o => task'[p] = task[p] /\ handler'[p] = handler[p],
             task'[o] # NoTask => EventOf(o)' = EventOf(o),
             UNCHANGED enqueued,
             \/ UNCHANGED payments /\ TaskRunsLeft(o)' <= TaskRunsLeft(o)
             \/ /\ payments' = [payments EXCEPT ![EventOf(o)] = @ + 1]
                /\ task'[o] # NoTask /\ TaskRunsLeft(o)' + 1 <= TaskRunsLeft(o)
      PROVE  RowsWithinBudget'
  <2> SUFFICES ASSUME NEW e \in Checkouts
               PROVE  payments'[e] + RunsLeft(e)' <= payments[e] + RunsLeft(e)
    BY <1>3, RowsStep
  <2>1. OrderOf[e] \in Orders /\ payments[e] \in Nat /\ RunsLeft(e) \in Nat
    BY <1>t
  <2>2. e = EventOf(o) => OrderOf[e] = o
    BY <1>3 DEF IInv, TasksAreEvents
  <2>3. CASE OrderOf[e] # o
    <3>1. RunsLeft(e)' = RunsLeft(e)
      BY <2>1, <2>3, <1>3 DEF RunsLeft, TaskRunsLeft, EventOf
    <3>2. payments'[e] = payments[e]
      BY <1>3, <2>2, <2>3 DEF IInv, TypeOK
    <3> QED
      BY <3>1, <3>2, <2>1
  <2>4. CASE OrderOf[e] = o /\ e # EventOf(o)
    <3>1. RunsLeft(e) = 0 /\ RunsLeft(e)' = 0
      BY <1>3, <2>4 DEF RunsLeft
    <3>2. payments'[e] = payments[e]
      BY <1>3, <2>4 DEF IInv, TypeOK
    <3> QED
      BY <3>1, <3>2, <2>1
  <2>5. CASE OrderOf[e] = o /\ e = EventOf(o)
    <3>1. RunsLeft(e) = TaskRunsLeft(o)
      BY <1>3, <2>5 DEF RunsLeft
    <3>2. CASE task'[o] = NoTask
      <4>1. RunsLeft(e)' = 0 /\ payments'[e] = payments[e]
        BY <1>3, <2>5, <3>2 DEF RunsLeft
      <4> QED
        BY <4>1, <2>1
    <3>3. CASE task'[o] # NoTask
      <4>1. RunsLeft(e)' = TaskRunsLeft(o)'
        BY <1>3, <2>5, <3>3 DEF RunsLeft
      <4>2. TaskRunsLeft(o)' \in Nat /\ TaskRunsLeft(o) \in Nat
        BY <1>u, <1>v
      <4>3. payments'[e] = payments[e] \/ payments'[e] = payments[e] + 1
        BY <1>3, <2>1, <2>5 DEF IInv, TypeOK
      <4>4. payments'[e] = payments[e] + 1 => TaskRunsLeft(o)' + 1 <= TaskRunsLeft(o)
        BY <1>3, <2>1, <2>5 DEF IInv, TypeOK
      <4>5. TaskRunsLeft(o)' <= TaskRunsLeft(o)
        BY <1>3, <4>2
      <4> QED
        BY <3>1, <4>1, <4>2, <4>3, <4>4, <4>5, <2>1
    <3> QED
      BY <3>2, <3>3
  <2> QED
    BY <2>3, <2>4, <2>5
<1>4. ASSUME NEW o \in Orders, StartTask(o) PROVE RowsWithinBudget'
  <2>1. /\ task[o] # NoTask /\ task[o].state = "pending" /\ task[o] \in Queue!Tasks
        /\ task'[o] = [task[o] EXCEPT !.state = "active"] /\ handler'[o] = "create"
        /\ \A p \in Orders : p # o => task'[p] = task[p] /\ handler'[p] = handler[p]
        /\ UNCHANGED <<payments, enqueued>>
    BY <1>4, <1>t DEF StartTask, Queue!Dequeue, Queue!InState, IInv, TypeOK, Queue!QueueTypeOK
  <2>2. /\ EventOf(o)' = EventOf(o) /\ task'[o] # NoTask
        /\ TaskRunsLeft(o)' = TaskRunsLeft(o)
    BY <2>1 DEF TaskRunsLeft, RunsOf, EventOf, Queue!Tasks
  <2>3. TaskRunsLeft(o)' \in Nat
    BY <1>v
  <2> QED
    BY <2>1, <2>2, <2>3, <1>3
<1>5. ASSUME NEW o \in Orders, CreatePayment(o) PROVE RowsWithinBudget'
  <2>1. /\ handler[o] = "create" /\ task[o] # NoTask /\ task[o].state = "active"
        /\ task[o] \in Queue!Tasks
        /\ UNCHANGED <<task, enqueued>>
        /\ payments' = [payments EXCEPT ![EventOf(o)] = @ + 1]
        /\ handler'[o] # "create" /\ \A p \in Orders : p # o => handler'[p] = handler[p]
    BY <1>5, <1>t DEF CreatePayment, Goto, IInv, HandlersAreActive, Queue!InState, TypeOK
  <2>2. EventOf(o)' = EventOf(o) /\ TaskRunsLeft(o)' + 1 = TaskRunsLeft(o)
    BY <2>1 DEF TaskRunsLeft, RunsOf, EventOf, Queue!Tasks
  <2>3. TaskRunsLeft(o)' + 1 <= TaskRunsLeft(o)
    BY <2>2, <1>v, <1>u
  <2> QED
    BY <2>1, <2>2, <2>3, <1>3
<1>6. ASSUME NEW o \in Orders, ReadFailedOrder(o) \/ EnqueueConfirmation(o)
      PROVE  RowsWithinBudget'
  <2>1. task[o] # NoTask
    BY <1>6 DEF ReadFailedOrder, EnqueueConfirmation, Goto, IInv, HandlersAreActive,
                Queue!InState
  <2>2. /\ UNCHANGED <<payments, enqueued, task>>
        /\ \A p \in Orders : handler'[p] = "create" <=> handler[p] = "create"
    BY <1>6, <2>1 DEF ReadFailedOrder, EnqueueConfirmation, Goto, Queue!TryEnqueue,
                      Queue!Available, IInv, TypeOK
  <2> QED
    BY <2>2, <1>q
<1>7. ASSUME NEW o \in Orders, FinishTask(o) PROVE RowsWithinBudget'
  <2>1. /\ task[o] # NoTask
        /\ task' = [task EXCEPT ![o] = NoTask]
        /\ handler'[o] # "create" /\ \A p \in Orders : p # o => handler'[p] = handler[p]
        /\ UNCHANGED <<payments, enqueued>>
    BY <1>7 DEF FinishTask, Goto, Queue!Done, Queue!InState, IInv, TypeOK,
                HandlersAreActive
  <2>2. /\ task'[o] = NoTask /\ \A p \in Orders : p # o => task'[p] = task[p]
        /\ TaskRunsLeft(o)' <= TaskRunsLeft(o)
    BY <2>1, <1>u DEF IInv, TypeOK, Queue!QueueTypeOK, TaskRunsLeft
  <2> QED
    BY <2>1, <2>2, <1>3
<1>8. ASSUME NEW o \in Orders, AbortTask(o) PROVE RowsWithinBudget'
  <2>1. /\ task[o] # NoTask /\ task[o].state = "active" /\ task[o] \in Queue!Tasks
        /\ task'[o] = Queue!AfterFailure(task[o]) /\ handler'[o] = "idle"
        /\ \A p \in Orders : p # o => task'[p] = task[p] /\ handler'[p] = handler[p]
        /\ UNCHANGED <<payments, enqueued>>
    BY <1>8, <1>t DEF AbortTask, Queue!Failed, Queue!InState, IInv, TypeOK, Queue!QueueTypeOK
  <2>2. EventOf(o)' = EventOf(o) /\ task'[o] # NoTask
    BY <2>1, AfterFailureType DEF EventOf
  <2>3. TaskRunsLeft(o)' <= TaskRunsLeft(o)
    BY <2>1, <2>2 DEF TaskRunsLeft, RunsOf, Queue!AfterFailure, Queue!Tasks
  <2> QED
    BY <2>1, <2>2, <2>3, <1>3
<1>9. ASSUME NEW p \in Checkouts \cup Orders, LockExpires(p) PROVE RowsWithinBudget'
  BY <1>9, <1>q DEF LockExpires, Queue!LockExpires
<1>10. CASE UNCHANGED vars
  BY <1>10, <1>q DEF vars, paymentVars
<1> QED
  BY <1>1, <1>2, <1>4, <1>5, <1>6, <1>7, <1>8, <1>9, <1>10 DEF Next, HandlerStep

\* Retries and redeliveries multiply the rows of an event, but never beyond one
\* per run of each accepted delivery's task.
THEOREM RowsAreBounded == Spec => []RowsPerDelivery
<1>1. Init => RowsWithinBudget
  BY DEF Init, Queue!QueueInit, RowsWithinBudget, RunsLeft
<1>2. IInv /\ RowsWithinBudget => RowsPerDelivery
  <2> SUFFICES ASSUME IInv, RowsWithinBudget, NEW e \in Checkouts
               PROVE  payments[e] <= enqueued[e] * (MaxRetry + 1)
    BY DEF RowsPerDelivery, IInv
  <2>1. payments[e] + RunsLeft(e) <= enqueued[e] * (MaxRetry + 1)
    BY DEF RowsWithinBudget
  <2>2. payments[e] \in Nat /\ enqueued[e] \in Nat /\ RunsLeft(e) \in Nat
    BY RunsLeftType DEF IInv, TypeOK
  <2>3. enqueued[e] * (MaxRetry + 1) \in Nat
    BY <2>2
  <2> QED
    BY <2>1, <2>2, <2>3
<1>3. IInv /\ RowsWithinBudget /\ [Next]_vars => (IInv /\ RowsWithinBudget)'
  BY NextIInv, NextTypeOK, NextRows
<1> QED
  BY <1>1, <1>2, <1>3, InitIInv, PTL DEF Spec

-----------------------------------------------------------------------------
(* The refinement of the ledger, step by step.  The mapped variables:        *)

Taken    == {e \in Checkouts : enqueued[e] > 0}
Recorded == {e \in Checkouts : payments[e] > 0}
GivenUp  == {e \in Checkouts : /\ Queue!InState(OrderOf[e], "archived")
                               /\ EventOf(OrderOf[e]) = e}

LEMMA LedgerStep ==
  ASSUME IInv, [Next]_vars
  PROVE  [Ledger!LedgerNext]_Ledger!ledgerVars
<1> USE DEF IInv, TypeOK, Queue!QueueTypeOK, stripeVars, queueVars, workerVars
<1> DEFINE Stutter == UNCHANGED <<Taken, acked, Recorded, GivenUp>>
<1>0. ASSUME UNCHANGED <<acked, enqueued, payments, task>> PROVE Stutter
  BY <1>0 DEF Taken, Recorded, GivenUp, Queue!InState, EventOf
<1>1. ASSUME NEW e \in Checkouts,
             \/ InitiatePayment(e) \/ CompleteCheckout(e) \/ RefuseEvent(e)
      PROVE  Stutter
  <2>1. UNCHANGED <<acked, enqueued, payments, task>>
    BY <1>1 DEF InitiatePayment, CompleteCheckout, RefuseEvent, Queue!TryEnqueue
  <2> QED
    BY <2>1, <1>0
<1>2. ASSUME NEW e \in Checkouts, AcceptEvent(e) PROVE Ledger!Take(e)
  <2> DEFINE t == [payload |-> e, state |-> "pending", retried |-> 0]
  <2>1. /\ task[OrderOf[e]] = NoTask
        /\ task' = [task EXCEPT ![OrderOf[e]] = t]
        /\ enqueued' = [enqueued EXCEPT ![e] = @ + 1]
        /\ acked' \in {acked, acked \cup {e}}
        /\ UNCHANGED payments
    BY <1>2 DEF AcceptEvent, Queue!Available, Queue!TryEnqueue
  <2>2. Taken' = Taken \cup {e}
    BY <2>1 DEF Taken
  <2>3. Recorded' = Recorded
    BY <2>1 DEF Recorded
  <2>4. t.state # "archived"
    OBVIOUS
  <2>5. GivenUp' = GivenUp
    BY <2>1, <2>4 DEF GivenUp, Queue!InState, EventOf
  <2> QED
    BY <2>1, <2>2, <2>3, <2>5 DEF Ledger!Take, Taken, Recorded, GivenUp
<1>3. ASSUME NEW o \in Orders, NEW e \in Checkouts, e = EventOf(o), CreatePayment(o)
      PROVE  Ledger!Record(e)
  <2>1. enqueued[e] > 0
    BY <1>3 DEF CreatePayment, Goto, HandlersAreActive, TasksAreEvents, Queue!InState
  <2>2. /\ payments' = [payments EXCEPT ![e] = @ + 1]
        /\ UNCHANGED <<acked, enqueued, task>>
    BY <1>3 DEF CreatePayment
  <2>3. Recorded' = Recorded \cup {e}
    BY <2>2 DEF Recorded
  <2>4. Taken' = Taken /\ GivenUp' = GivenUp
    BY <2>2 DEF Taken, GivenUp, Queue!InState, EventOf
  <2> QED
    BY <2>1, <2>2, <2>3, <2>4 DEF Ledger!Record, Taken, Recorded, GivenUp
<1>4. ASSUME NEW o \in Orders, StartTask(o) \/ FinishTask(o) PROVE Stutter
  <2>1. /\ UNCHANGED <<acked, enqueued, payments>>
        /\ \A p \in Orders : p # o => task'[p] = task[p]
        /\ ~Queue!InState(o, "archived")
        /\ ~Queue!InState(o, "archived")'
    <3>1. CASE StartTask(o)
      BY <3>1 DEF StartTask, Queue!Dequeue, Queue!InState, Queue!Tasks
    <3>2. CASE FinishTask(o)
      BY <3>2 DEF FinishTask, Queue!Done, Queue!InState
    <3> QED
      BY <1>4, <3>1, <3>2
  <2>2. GivenUp' = GivenUp
    BY <2>1 DEF GivenUp, Queue!InState, EventOf
  <2> QED
    BY <2>1, <2>2 DEF Taken, Recorded
<1>5. ASSUME NEW o \in Orders, ReadFailedOrder(o) \/ EnqueueConfirmation(o) PROVE Stutter
  <2>1. CASE ReadFailedOrder(o)
    BY <2>1, <1>0 DEF ReadFailedOrder
  <2>2. CASE EnqueueConfirmation(o)
    <3>1. task[o] # NoTask
      BY <2>2 DEF EnqueueConfirmation, Goto, HandlersAreActive, Queue!InState
    <3>2. UNCHANGED <<acked, enqueued, payments, task>>
      BY <2>2, <3>1 DEF EnqueueConfirmation, Queue!TryEnqueue, Queue!Available
    <3> QED
      BY <3>2, <1>0
  <2> QED
    BY <1>5, <2>1, <2>2
<1>6. ASSUME NEW o \in Orders, NEW e \in Checkouts, e = EventOf(o), AbortTask(o)
      PROVE  Stutter \/ Ledger!GiveUp(e)
  <2>1. /\ UNCHANGED <<acked, enqueued, payments>>
        /\ task' = [task EXCEPT ![o] = Queue!AfterFailure(task[o])]
        /\ Queue!InState(o, "active")
        /\ task[o] \in Queue!Tasks
    BY <1>6 DEF AbortTask, Queue!Failed, Queue!InState
  <2>2. OrderOf[e] = o /\ enqueued[e] > 0
    BY <1>6, <2>1 DEF TasksAreEvents, Queue!InState
  <2>3. /\ task'[o] \in Queue!Tasks /\ task'[o] # NoTask
        /\ task'[o].payload = e
        /\ \A p \in Orders : p # o => task'[p] = task[p]
    BY <1>6, <2>1, AfterFailureType DEF EventOf
  <2>4. Taken' = Taken /\ Recorded' = Recorded
    BY <2>1 DEF Taken, Recorded
  <2>5. e \notin GivenUp
    BY <2>1, <2>2 DEF GivenUp, Queue!InState
  <2>6. \A f \in Checkouts : f # e => (f \in GivenUp' <=> f \in GivenUp)
    <3> SUFFICES ASSUME NEW f \in Checkouts, f # e
                 PROVE  f \in GivenUp' <=> f \in GivenUp
      OBVIOUS
    <3>1. CASE OrderOf[f] = o
      BY <3>1, <2>3, <1>6 DEF GivenUp, EventOf
    <3>2. CASE OrderOf[f] # o
      BY <3>2, <2>3 DEF GivenUp, EventOf, Queue!InState
    <3> QED
      BY <3>1, <3>2
  <2>7. CASE e \in GivenUp'
    <3>1. GivenUp' = GivenUp \cup {e}
      BY <2>7, <2>5, <2>6 DEF GivenUp
    <3> QED
      BY <3>1, <2>1, <2>2, <2>4 DEF Ledger!GiveUp, Taken, Recorded, GivenUp
  <2>8. CASE e \notin GivenUp'
    <3>1. GivenUp' = GivenUp
      BY <2>8, <2>5, <2>6 DEF GivenUp
    <3> QED
      BY <3>1, <2>1, <2>4
  <2> QED
    BY <2>7, <2>8
<1>7. ASSUME NEW p \in Checkouts \cup Orders, LockExpires(p) PROVE Stutter
  BY <1>7, <1>0 DEF LockExpires, Queue!LockExpires
<1>8. ASSUME UNCHANGED vars PROVE Stutter
  BY <1>8, <1>0 DEF vars, paymentVars
<1> DEFINE Allowed == Stutter \/ Ledger!LedgerNext
<1> HIDE DEF Stutter, IInv, TypeOK, Queue!QueueTypeOK, stripeVars, queueVars, workerVars
<1>9. ASSUME NEW e \in Checkouts, Ledger!Take(e) \/ Ledger!Record(e) \/ Ledger!GiveUp(e)
      PROVE  Allowed
  BY <1>9 DEF Ledger!LedgerNext
<1>10. \A o \in Orders : CreatePayment(o) \/ AbortTask(o) => EventOf(o) \in Checkouts
  BY DEF CreatePayment, AbortTask, Goto, IInv, HandlersAreActive, TasksAreEvents,
         Queue!InState
<1>14. Stutter => Allowed
  OBVIOUS
<1> HIDE DEF Allowed
<1>11. ASSUME NEW o \in Orders, CreatePayment(o) PROVE Allowed
  <2>1. PICK e \in Checkouts : e = EventOf(o)
    BY <1>11, <1>10
  <2> QED
    BY <1>11, <2>1, <1>3, <1>9
<1>12. ASSUME NEW o \in Orders, AbortTask(o) PROVE Allowed
  <2>1. PICK e \in Checkouts : e = EventOf(o)
    BY <1>12, <1>10
  <2>2. Stutter \/ Ledger!GiveUp(e)
    BY <1>12, <2>1, <1>6
  <2> QED
    BY <2>2, <1>9, <1>14
<1>13. ASSUME NEW e \in Checkouts, AcceptEvent(e) PROVE Allowed
  <2>1. Ledger!Take(e)
    BY <1>13, <1>2
  <2> QED
    BY <2>1, <1>9
<1>15. ASSUME NEW o \in Orders, StartTask(o) \/ HandlerStep(o) PROVE Allowed
  BY <1>15, <1>4, <1>5, <1>11, <1>12, <1>14 DEF HandlerStep
<1>16. Allowed
  <2>1. CASE UNCHANGED vars
    BY <2>1, <1>8, <1>14
  <2>2. CASE Next
    BY <2>2, <1>1, <1>7, <1>13, <1>14, <1>15 DEF Next
  <2> QED
    BY <2>1, <2>2
<1> QED
  BY <1>16 DEF Allowed, Stutter, Ledger!ledgerVars, Taken, Recorded, GivenUp

\* Webhook, queue and worker implement the abstract payment ledger.
THEOREM PipelineImplementsLedger == Spec => ImplementsLedger
<1>1. Init => Ledger!LedgerInit
  BY DEF Init, OrdersInit, Queue!QueueInit, Ledger!LedgerInit, Queue!InState
<1>2. IInv /\ [Next]_vars => [Ledger!LedgerNext]_Ledger!ledgerVars
  BY LedgerStep
<1> QED
  BY <1>1, <1>2, InitIInv, NextIInv, PTL DEF Spec, ImplementsLedger, Ledger!Spec

-----------------------------------------------------------------------------
(* The promo reclaim job.                                                  *)

\* A run has one order in hand at most: it is on its list, and its use has been
\* released.
InHand ==
  \A r \in Runs : run[r].current # NoOrder =>
    /\ run[r].active
    /\ run[r].current \in run[r].todo
    /\ HasPromo(run[r].current)
    /\ released[run[r].current] > 0

\* Runs that have released the use of o and not yet written its status, and
\* runs that may still release it.
Marking(o) == {r \in Runs : run[r].current = o}
Waiting(o) == {r \in Runs : run[r].active /\ o \in run[r].todo /\ run[r].current # o}

\* While an order is pending, any run may list it: each release of its use is
\* then that of a run marking it, or was followed by a fault.
PendingReleases ==
  \A o \in Orders : status[o] = "pending" =>
    released[o] <= Cardinality(Marking(o)) + faults

\* Afterwards only the runs that list it already can release its use.
SettledReleases ==
  \A o \in Orders : status[o] # "pending" =>
    released[o] + Cardinality(Waiting(o)) <= Cardinality(Runs) + faults

\* used_count follows the releases for as long as none is repeated.
CountFollowsReleases ==
  \A p \in PromoCodes : (\A o \in Holders(p) : released[o] <= 1) =>
    usedCount[p] = BaseUses[p] + Cardinality({o \in Holders(p) : released[o] = 0})

JobInv == /\ ReclaimTypeOK
          /\ InHand
          /\ ExpiredWasReleased
          /\ PendingReleases
          /\ SettledReleases
          /\ CountFollowsReleases

\* Without faults and without the payment worker, a released order is marked or
\* about to be.
ReleasedShows ==
  \A o \in Orders : faults = 0 /\ released[o] > 0 => status[o] = "expired" \/ BeingMarked(o)

-----------------------------------------------------------------------------
USE ReclaimAssumptions

\* Cardinalities of sets of runs.
LEMMA RunSets ==
  ASSUME NEW S \in SUBSET Runs
  PROVE  /\ IsFiniteSet(S) /\ Cardinality(S) \in Nat
         /\ Cardinality(S) <= Cardinality(Runs)
         /\ \A T \in SUBSET S : Cardinality(T) <= Cardinality(S)
         /\ \A r \in Runs : /\ r \notin S => Cardinality(S \cup {r}) = Cardinality(S) + 1
                            /\ r \in S => Cardinality(S \ {r}) = Cardinality(S) - 1
<1>1. IsFiniteSet(S) /\ Cardinality(S) <= Cardinality(Runs)
  BY FS_Subset
<1>2. Cardinality(S) \in Nat
  BY <1>1, FS_CardinalityType
<1>3. \A T \in SUBSET S : Cardinality(T) <= Cardinality(S)
  BY <1>1, FS_Subset
<1>4. \A r \in Runs : /\ r \notin S => Cardinality(S \cup {r}) = Cardinality(S) + 1
                      /\ r \in S => Cardinality(S \ {r}) = Cardinality(S) - 1
  BY <1>1, FS_AddElement, FS_RemoveElement
<1> QED
  BY <1>1, <1>2, <1>3, <1>4

LEMMA TwoSets ==
  ASSUME NEW S \in SUBSET Runs, NEW T \in SUBSET Runs, S \cap T = {}
  PROVE  Cardinality(S) + Cardinality(T) <= Cardinality(Runs)
<1>1. /\ IsFiniteSet(S) /\ IsFiniteSet(T) /\ Cardinality(S) \in Nat /\ Cardinality(T) \in Nat
  BY RunSets
<1>2. Cardinality(S \cup T) = Cardinality(S) + Cardinality(T) - Cardinality(S \cap T)
  BY <1>1, FS_Union
<1>3. Cardinality(S \cap T) = 0
  BY FS_EmptySet
<1>4. Cardinality(S \cup T) <= Cardinality(Runs)
  BY RunSets
<1> QED
  BY <1>1, <1>2, <1>3, <1>4

LEMMA JobInitInv == OrdersInit /\ ReclaimInit => JobInv /\ ReleasedShows
<1> SUFFICES ASSUME OrdersInit, ReclaimInit PROVE JobInv /\ ReleasedShows
  OBVIOUS
<1> USE DEF OrdersInit, ReclaimInit, Idle
<1>1. \A p \in PromoCodes : IsFiniteSet(Holders(p)) /\ Cardinality(Holders(p)) \in Nat
  <2> SUFFICES ASSUME NEW p \in PromoCodes
               PROVE  IsFiniteSet(Holders(p)) /\ Cardinality(Holders(p)) \in Nat
    OBVIOUS
  <2>1. Holders(p) \in SUBSET Orders
    BY DEF Holders
  <2>2. IsFiniteSet(Holders(p))
    BY <2>1, FS_Subset
  <2> QED
    BY <2>2, FS_CardinalityType
<1>2. ReclaimTypeOK
  <2>1. OrdersTypeOK
    BY DEF OrdersTypeOK, OrderStatus
  <2>2. usedCount \in [PromoCodes -> Nat]
    BY <1>1
  <2>3. run \in [Runs -> RunStates]
    BY DEF RunStates
  <2>4. aged \subseteq Orders /\ released \in [Orders -> Nat] /\ faults \in 0..MaxFaults
    OBVIOUS
  <2> QED
    BY <2>1, <2>2, <2>3, <2>4 DEF ReclaimTypeOK
<1>3. InHand /\ ExpiredWasReleased /\ ReleasedShows
  BY DEF InHand, ExpiredWasReleased, ReleasedShows
<1>4. PendingReleases
  BY RunSets DEF PendingReleases, Marking
<1>5. SettledReleases
  BY DEF SettledReleases
<1>6. CountFollowsReleases
  <2> SUFFICES ASSUME NEW p \in PromoCodes
               PROVE  {o \in Holders(p) : released[o] = 0} = Holders(p)
    BY <1>1 DEF CountFollowsReleases
  <2> QED
    BY DEF Holders
<1> QED
  BY <1>2, <1>3, <1>4, <1>5, <1>6 DEF JobInv

LEMMA JobTypes ==
  ASSUME ReclaimTypeOK
  PROVE  /\ faults \in Nat
         /\ \A o \in Orders : /\ released[o] \in Nat
                              /\ Marking(o) \in SUBSET Runs /\ Waiting(o) \in SUBSET Runs
                              /\ Cardinality(Marking(o)) \in Nat
                              /\ Cardinality(Waiting(o)) \in Nat
         /\ Cardinality(Runs) \in Nat
<1>1. \A o \in Orders : Marking(o) \in SUBSET Runs /\ Waiting(o) \in SUBSET Runs
  BY DEF Marking, Waiting
<1> QED
  BY <1>1, RunSets DEF ReclaimTypeOK

LEMMA RunWrites ==
  ASSUME NEW todo \in SUBSET Orders, NEW o \in Orders,
         NEW rec \in RunStates
  PROVE  /\ [rec EXCEPT !.current = o] \in RunStates
         /\ [rec EXCEPT !.todo = todo, !.current = NoOrder] \in RunStates
BY DEF RunStates

LEMMA NextReclaimTypeOK ==
  ASSUME ReclaimTypeOK, ReclaimNext
  PROVE  ReclaimTypeOK'
<1> USE DEF ReclaimTypeOK, OrdersTypeOK
<1>1. ASSUME NEW o \in Orders, Age(o) PROVE ReclaimTypeOK'
  BY <1>1 DEF Age
<1>2. ASSUME NEW r \in Runs, NEW new \in RunStates, run' = [run EXCEPT ![r] = new]
      PROVE  run' \in [Runs -> RunStates]
  BY <1>2
<1>3. ASSUME NEW r \in Runs, GetAbandonedOrders(r) PROVE ReclaimTypeOK'
  <2>1. [Idle EXCEPT !.active = TRUE, !.todo = Abandoned] \in RunStates
    BY DEF RunStates, Idle, Abandoned
  <2> QED
    BY <1>3, <1>2, <2>1 DEF GetAbandonedOrders
<1>4. ASSUME NEW r \in Runs, EndRun(r) \/ RunDies(r) PROVE ReclaimTypeOK'
  <2>1. Idle \in RunStates
    BY DEF RunStates, Idle
  <2> QED
    BY <1>4, <1>2, <2>1 DEF EndRun, RunDies
<1>5. ASSUME NEW r \in Runs, NEW o \in Orders, ReleaseUsage(r, o) PROVE ReclaimTypeOK'
  <2>1. PromoOf[o] \in PromoCodes
    BY <1>5 DEF ReleaseUsage, HasPromo
  <2>2. usedCount' \in [PromoCodes -> Nat]
    BY <1>5, <2>1 DEF ReleaseUsage
  <2>3. [run[r] EXCEPT !.current = o] \in RunStates
    <3>1. run[r] \in RunStates
      OBVIOUS
    <3> QED
      BY <3>1, RunWrites
  <2>4. run' = [run EXCEPT ![r] = [run[r] EXCEPT !.current = o]]
    BY <1>5 DEF ReleaseUsage
  <2> QED
    BY <1>5, <1>2, <2>2, <2>3, <2>4 DEF ReleaseUsage
<1>6. ASSUME NEW r \in Runs, NEW o \in Orders, ReleaseFails(r, o) PROVE ReclaimTypeOK'
  <2>1. [run[r] EXCEPT !.todo = @ \ {o}] \in RunStates
    BY DEF RunStates
  <2>2. run' = [run EXCEPT ![r] = [run[r] EXCEPT !.todo = @ \ {o}]]
    BY <1>6 DEF ReleaseFails
  <2> QED
    BY <1>6, <1>2, <2>1, <2>2 DEF ReleaseFails
<1>7. ASSUME NEW r \in Runs, NEW o \in Orders, MarkExpired(r, o) \/ MarkFails(r, o)
      PROVE  ReclaimTypeOK'
  <2>1. [run[r] EXCEPT !.todo = @ \ {o}, !.current = NoOrder] \in RunStates
    <3>1. run[r] \in RunStates /\ run[r].todo \ {o} \in SUBSET Orders
      BY DEF RunStates
    <3> QED
      BY <3>1, RunWrites
  <2>2. run' = [run EXCEPT ![r] = [run[r] EXCEPT !.todo = @ \ {o}, !.current = NoOrder]]
    BY <1>7 DEF MarkExpired, MarkFails, MoveOn
  <2>3. run' \in [Runs -> RunStates]
    BY <1>2, <2>1, <2>2
  <2> QED
    BY <1>7, <2>3 DEF MarkExpired, MarkFails, UpdateStatus, OrderStatus
<1> QED
  BY <1>1, <1>3, <1>4, <1>5, <1>6, <1>7 DEF ReclaimNext, RunStep

\* The two bounds on releases, for one order and any step: what each kind of step
\* may do to the sets of runs, the releases and the faults.
ReleaseBounds(o) ==
  /\ status[o] = "pending" => released[o] <= Cardinality(Marking(o)) + faults
  /\ status[o] # "pending" =>
       released[o] + Cardinality(Waiting(o)) <= Cardinality(Runs) + faults

LEMMA BoundsStep ==
  ASSUME ReclaimTypeOK, ReclaimTypeOK', NEW o \in Orders, ReleaseBounds(o),
         Marking(o) \cap Waiting(o) = {},
         status'[o] = "pending" => status[o] = "pending",
         \/ \* nothing about o, but it may leave pending or be listed while pending
            /\ released'[o] = released[o] /\ faults' = faults
            /\ status'[o] = "pending" => Marking(o)' = Marking(o)
            /\ status'[o] # "pending" => Waiting(o)' \subseteq Waiting(o)
         \/ \* a fault, which takes at most one run away
            /\ released'[o] = released[o] /\ faults' = faults + 1
            /\ status'[o] = status[o]
            /\ \E r \in Runs : Marking(o)' = Marking(o) \ {r}
            /\ Waiting(o)' \subseteq Waiting(o)
         \/ \* run r, which was waiting, releases the use of o
            /\ released'[o] = released[o] + 1 /\ faults' = faults
            /\ status'[o] = status[o]
            /\ \E r \in Waiting(o) : /\ Marking(o)' = Marking(o) \cup {r}
                                     /\ Waiting(o)' = Waiting(o) \ {r}
  PROVE  ReleaseBounds(o)'
<1>1. /\ faults \in Nat /\ faults' \in Nat /\ released[o] \in Nat
      /\ Marking(o) \in SUBSET Runs /\ Waiting(o) \in SUBSET Runs
      /\ Marking(o)' \in SUBSET Runs /\ Waiting(o)' \in SUBSET Runs
      /\ Cardinality(Runs) \in Nat
  BY JobTypes DEF ReclaimTypeOK, Marking, Waiting
<1> DEFINE m == Cardinality(Marking(o))
           w == Cardinality(Waiting(o))
<1>2. /\ m \in Nat /\ w \in Nat /\ m + w <= Cardinality(Runs)
      /\ Cardinality(Marking(o)') \in Nat /\ Cardinality(Waiting(o)') \in Nat
  BY <1>1, RunSets, TwoSets
<1>3. CASE /\ released'[o] = released[o] /\ faults' = faults
           /\ status'[o] = "pending" => Marking(o)' = Marking(o)
           /\ status'[o] # "pending" => Waiting(o)' \subseteq Waiting(o)
  <2>1. status'[o] # "pending" => Cardinality(Waiting(o)') <= w
    BY <1>1, <1>3, RunSets
  <2> QED
    BY <1>1, <1>2, <1>3, <2>1 DEF ReleaseBounds
<1>4. CASE /\ released'[o] = released[o] /\ faults' = faults + 1
           /\ status'[o] = status[o]
           /\ \E r \in Runs : Marking(o)' = Marking(o) \ {r}
           /\ Waiting(o)' \subseteq Waiting(o)
  <2>1. Cardinality(Waiting(o)') <= w
    BY <1>1, <1>4, RunSets
  <2>2. m <= Cardinality(Marking(o)') + 1
    <3>1. PICK r \in Runs : Marking(o)' = Marking(o) \ {r}
      BY <1>4
    <3>2. CASE r \in Marking(o)
      <4>1. Cardinality(Marking(o) \ {r}) = m - 1
        BY <1>1, <3>2, RunSets
      <4> QED
        BY <4>1, <1>2, <3>1
    <3>3. CASE r \notin Marking(o)
      <4>1. Marking(o)' = Marking(o)
        BY <3>1, <3>3
      <4> QED
        BY <4>1, <1>2
    <3> QED
      BY <3>2, <3>3
  <2> QED
    BY <1>1, <1>2, <1>4, <2>1, <2>2 DEF ReleaseBounds
<1>5. CASE /\ released'[o] = released[o] + 1 /\ faults' = faults
           /\ status'[o] = status[o]
           /\ \E r \in Waiting(o) : /\ Marking(o)' = Marking(o) \cup {r}
                                    /\ Waiting(o)' = Waiting(o) \ {r}
  <2>1. PICK r \in Waiting(o) : /\ Marking(o)' = Marking(o) \cup {r}
                                /\ Waiting(o)' = Waiting(o) \ {r}
    BY <1>5
  <2>2. r \in Runs /\ r \notin Marking(o)
    BY <1>1
  <2>3. Cardinality(Marking(o)') = m + 1 /\ Cardinality(Waiting(o)') = w - 1
    BY <1>1, <2>1, <2>2, RunSets
  <2> QED
    BY <1>1, <1>2, <1>5, <2>3 DEF ReleaseBounds
<1> QED
  BY <1>3, <1>4, <1>5

LEMMA BoundsMeaning ==
  PendingReleases /\ SettledReleases <=> \A o \in Orders : ReleaseBounds(o)
BY DEF PendingReleases, SettledReleases, ReleaseBounds

\* What a step of the job does to each order's runs, releases and status.
BoundsKept ==
  \A o \in Orders :
    /\ status'[o] = "pending" => status[o] = "pending"
    /\ \/ /\ released'[o] = released[o] /\ faults' = faults
          /\ status'[o] = "pending" => Marking(o)' = Marking(o)
          /\ status'[o] # "pending" => Waiting(o)' \subseteq Waiting(o)
       \/ /\ released'[o] = released[o] /\ faults' = faults + 1
          /\ status'[o] = status[o]
          /\ \E r \in Runs : Marking(o)' = Marking(o) \ {r}
          /\ Waiting(o)' \subseteq Waiting(o)
       \/ /\ released'[o] = released[o] + 1 /\ faults' = faults
          /\ status'[o] = status[o]
          /\ \E r \in Waiting(o) : /\ Marking(o)' = Marking(o) \cup {r}
                                   /\ Waiting(o)' = Waiting(o) \ {r}

LEMMA JobBounds ==
  ASSUME JobInv, ReclaimTypeOK', BoundsKept
  PROVE  PendingReleases' /\ SettledReleases'
<1> SUFFICES ASSUME NEW o \in Orders PROVE ReleaseBounds(o)'
  BY DEF PendingReleases, SettledReleases, ReleaseBounds
<1>1. ReclaimTypeOK /\ ReleaseBounds(o)
  BY BoundsMeaning DEF JobInv
<1>2. Marking(o) \cap Waiting(o) = {}
  BY DEF Marking, Waiting
<1> QED
  BY <1>1, <1>2, BoundsStep DEF BoundsKept

\* A run without an order in hand stays so, and lists no order that is past
\* "pending".
LEMMA ListSteps ==
  ASSUME JobInv, ReclaimTypeOK', NEW r \in Runs,
         \/ GetAbandonedOrders(r) \/ EndRun(r) \/ RunDies(r)
         \/ \E o \in Orders : ReleaseFails(r, o)
  PROVE  JobInv'
<1> USE DEF JobInv, ReclaimTypeOK
<1>1. /\ UNCHANGED <<status, paid, usedCount, released>>
      /\ faults' \in {faults, faults + 1}
      /\ \A q \in Runs : q # r => run'[q] = run[q]
      /\ run'[r].current = NoOrder
  <2>1. CASE GetAbandonedOrders(r)
    BY <2>1 DEF GetAbandonedOrders, Idle
  <2>2. CASE EndRun(r) \/ RunDies(r)
    BY <2>2 DEF EndRun, RunDies, Idle
  <2>3. CASE \E o \in Orders : ReleaseFails(r, o)
    BY <2>3 DEF ReleaseFails, RunStates
  <2> QED
    BY <2>1, <2>2, <2>3
<1>2. InHand' /\ ExpiredWasReleased' /\ CountFollowsReleases'
  BY <1>1 DEF InHand, ExpiredWasReleased, CountFollowsReleases
<1>3. \A o \in Orders : Marking(o)' = Marking(o) \ {r}
  BY <1>1 DEF Marking
<1>4. BoundsKept
  <2> SUFFICES ASSUME NEW o \in Orders
               PROVE  \/ /\ faults' = faults
                         /\ status[o] = "pending" => Marking(o)' = Marking(o)
                         /\ status[o] # "pending" => Waiting(o)' \subseteq Waiting(o)
                      \/ /\ faults' = faults + 1
                         /\ Waiting(o)' \subseteq Waiting(o)
    BY <1>1, <1>3 DEF BoundsKept
  <2>1. CASE GetAbandonedOrders(r)
    <3>1. ~run[r].active /\ run'[r].todo = Abandoned /\ faults' = faults
      BY <2>1 DEF GetAbandonedOrders, Idle
    <3>2. Marking(o)' = Marking(o)
      BY <1>3, <3>1 DEF Marking, InHand
    <3>3. status[o] # "pending" => Waiting(o)' \subseteq Waiting(o)
      BY <1>1, <3>1 DEF Waiting, Abandoned
    <3> QED
      BY <3>1, <3>2, <3>3
  <2>2. CASE EndRun(r)
    <3>1. run[r].todo = {} /\ run'[r].todo = {} /\ faults' = faults
      BY <2>2 DEF EndRun, Idle
    <3>2. run[r].current = NoOrder
      BY <3>1 DEF InHand
    <3>3. Marking(o)' = Marking(o)
      BY <1>3, <3>2 DEF Marking
    <3>4. Waiting(o)' \subseteq Waiting(o)
      BY <1>1, <3>1 DEF Waiting
    <3> QED
      BY <3>1, <3>3, <3>4
  <2>3. CASE RunDies(r)
    <3>1. ~run'[r].active /\ faults' = faults + 1
      BY <2>3 DEF RunDies, Idle
    <3>2. Waiting(o)' \subseteq Waiting(o)
      BY <1>1, <3>1 DEF Waiting
    <3> QED
      BY <3>1, <3>2
  <2>4. CASE \E p \in Orders : ReleaseFails(r, p)
    <3>1. /\ run[r].active /\ run[r].current = NoOrder
          /\ run'[r].todo \subseteq run[r].todo /\ faults' = faults + 1
      BY <2>4 DEF ReleaseFails, RunStates
    <3>2. Waiting(o)' \subseteq Waiting(o)
      BY <1>1, <3>1 DEF Waiting
    <3> QED
      BY <3>1, <3>2
  <2> QED
    BY <2>1, <2>2, <2>3, <2>4
<1> QED
  BY <1>2, <1>4, JobBounds

\* The use of an order is released: used_count goes down by one, and not below
\* zero, which it does not reach before the last use is released.
LEMMA ReleaseStep ==
  ASSUME JobInv, ReclaimTypeOK', NEW r \in Runs, NEW o \in Orders, ReleaseUsage(r, o)
  PROVE  JobInv'
<1> USE DEF JobInv, ReclaimTypeOK
<1>1. /\ run[r].active /\ run[r].current = NoOrder /\ o \in run[r].todo /\ HasPromo(o)
      /\ UNCHANGED <<status, paid, faults>>
      /\ released' = [released EXCEPT ![o] = @ + 1]
      /\ run' = [run EXCEPT ![r].current = o]
  BY DEF ReleaseUsage
<1>2. /\ \A q \in Runs : q # r => run'[q] = run[q]
      /\ run'[r].active = run[r].active /\ run'[r].todo = run[r].todo /\ run'[r].current = o
  <2>1. run[r] \in RunStates
    OBVIOUS
  <2>2. run'[r] = [run[r] EXCEPT !.current = o]
    BY <1>1
  <2> QED
    BY <1>1, <2>1, <2>2 DEF RunStates
<1>3. /\ released'[o] = released[o] + 1 /\ released'[o] > 0
      /\ \A p \in Orders : p # o => released'[p] = released[p]
      /\ \A p \in Orders : released[p] > 0 => released'[p] > 0
  BY <1>1
<1>4. InHand'
  <2> SUFFICES ASSUME NEW q \in Runs, run'[q].current # NoOrder
               PROVE  /\ run'[q].active /\ run'[q].current \in run'[q].todo
                      /\ HasPromo(run'[q].current) /\ released'[run'[q].current] > 0
    BY DEF InHand, HasPromo
  <2>1. CASE q = r
    BY <2>1, <1>1, <1>2, <1>3
  <2>2. CASE q # r
    <3>1. /\ run[q].current # NoOrder /\ run[q].active /\ run[q].current \in run[q].todo
          /\ HasPromo(run[q].current) /\ released[run[q].current] > 0
      BY <2>2, <1>2 DEF InHand
    <3>2. run[q].current \in Orders
      BY <3>1 DEF RunStates
    <3> QED
      BY <2>2, <3>1, <3>2, <1>2, <1>3
  <2> QED
    BY <2>1, <2>2
<1>5. ExpiredWasReleased'
  BY <1>1, <1>3 DEF ExpiredWasReleased, HasPromo
<1>6. BoundsKept
  <2> SUFFICES ASSUME NEW p \in Orders
               PROVE  \/ /\ p # o
                         /\ Marking(p)' = Marking(p) /\ Waiting(p)' = Waiting(p)
                      \/ /\ p = o
                         /\ r \in Waiting(p)
                         /\ Marking(p)' = Marking(p) \cup {r}
                         /\ Waiting(p)' = Waiting(p) \ {r}
    BY <1>1, <1>3 DEF BoundsKept
  <2>1. CASE p # o
    BY <2>1, <1>1, <1>2 DEF Marking, Waiting
  <2>2. CASE p = o
    BY <2>2, <1>1, <1>2 DEF Marking, Waiting
  <2> QED
    BY <2>1, <2>2
<1>7. CountFollowsReleases'
  <2> SUFFICES ASSUME NEW p \in PromoCodes, \A q \in Holders(p) : released'[q] <= 1
               PROVE  usedCount'[p] = BaseUses[p]
                                        + Cardinality({q \in Holders(p) : released'[q] = 0})
    BY DEF CountFollowsReleases, Holders
  <2> DEFINE left == {q \in Holders(p) : released[q] = 0}
  <2>1. \A q \in Holders(p) : q \in Orders /\ released[q] <= released'[q]
    BY <1>3 DEF Holders
  <2>2. \A q \in Holders(p) : released[q] <= 1
    BY <2>1
  <2>3. usedCount[p] = BaseUses[p] + Cardinality(left)
    BY <2>2 DEF CountFollowsReleases
  <2>4. IsFiniteSet(left) /\ Cardinality(left) \in Nat /\ BaseUses[p] \in Nat
    <3>1. left \in SUBSET Orders
      BY <2>1
    <3> QED
      BY <3>1, FS_Subset, FS_CardinalityType
  <2>5. CASE PromoOf[o] = p
    <3>1. o \in left /\ {q \in Holders(p) : released'[q] = 0} = left \ {o}
      BY <2>5, <1>3, <2>1 DEF Holders
    <3>2. Cardinality(left \ {o}) = Cardinality(left) - 1
      <4>1. o \in left
        BY <3>1
      <4> HIDE DEF left
      <4> QED
        BY <4>1, <2>4, FS_RemoveElement
    <3>3. Cardinality(left) # 0
      BY <3>1, <2>4, FS_EmptySet
    <3>4. usedCount'[p] = usedCount[p] - 1
      BY <2>3, <2>4, <2>5, <3>3 DEF ReleaseUsage
    <3>5. Cardinality({q \in Holders(p) : released'[q] = 0}) = Cardinality(left) - 1
      BY <3>1, <3>2
    <3> HIDE DEF left
    <3> QED
      BY <3>4, <3>5, <2>3, <2>4
  <2>6. CASE PromoOf[o] # p
    <3>1. {q \in Holders(p) : released'[q] = 0} = left
      BY <2>6, <1>3 DEF Holders
    <3>2. usedCount'[p] = usedCount[p]
      BY <2>6 DEF ReleaseUsage
    <3> QED
      BY <3>1, <3>2, <2>3
  <2> QED
    BY <2>5, <2>6
<1> QED
  BY <1>4, <1>5, <1>6, <1>7, JobBounds

\* The order in hand is marked, or the attempt fails: the run moves on.
LEMMA MarkStep ==
  ASSUME JobInv, ReclaimTypeOK', NEW r \in Runs, NEW o \in Orders,
         MarkExpired(r, o) \/ MarkFails(r, o)
  PROVE  JobInv'
<1> USE DEF JobInv, ReclaimTypeOK
<1>1. /\ Markable(r, o) /\ UNCHANGED <<usedCount, aged, released>>
      /\ \/ faults' = faults /\ status' = [status EXCEPT ![o] = "expired"]
         \/ faults' = faults + 1 /\ status' = status
  BY DEF MarkExpired, MarkFails, UpdateStatus
<1>2. /\ \A q \in Runs : q # r => run'[q] = run[q]
      /\ run'[r].active = run[r].active /\ run'[r].current = NoOrder
      /\ run'[r].todo = run[r].todo \ {o}
  <2>1. run[r] \in RunStates
    OBVIOUS
  <2>2. run' = [run EXCEPT ![r] = [run[r] EXCEPT !.todo = @ \ {o}, !.current = NoOrder]]
    BY DEF MarkExpired, MarkFails, MoveOn
  <2> QED
    BY <2>1, <2>2 DEF RunStates
<1>3. /\ run[r].current \in {o, NoOrder} /\ o # NoOrder /\ o \in run[r].todo
      /\ HasPromo(o) => released[o] > 0
  BY <1>1 DEF Markable, InHand
<1>4. InHand'
  BY <1>1, <1>2 DEF InHand, HasPromo
<1>5. ExpiredWasReleased'
  BY <1>1, <1>3 DEF ExpiredWasReleased, HasPromo, OrdersTypeOK
<1>6. CountFollowsReleases'
  BY <1>1 DEF CountFollowsReleases
<1>7. \A p \in Orders : /\ Marking(p)' = Marking(p) \ {r}
                        /\ Waiting(p)' \subseteq Waiting(p)
                        /\ p # o => Marking(p)' = Marking(p)
  BY <1>2, <1>3 DEF Marking, Waiting
<1>8. BoundsKept
  <2>1. CASE faults' = faults /\ status' = [status EXCEPT ![o] = "expired"]
    <3>1. status'[o] = "expired" /\ \A p \in Orders : p # o => status'[p] = status[p]
      BY <2>1 DEF OrdersTypeOK
    <3> QED
      BY <2>1, <3>1, <1>1, <1>7 DEF BoundsKept
  <2>2. CASE faults' = faults + 1 /\ status' = status
    BY <2>2, <1>1, <1>7 DEF BoundsKept
  <2> QED
    BY <1>1, <2>1, <2>2
<1> QED
  BY <1>4, <1>5, <1>6, <1>8, JobBounds

\* Steps that leave runs and promo codes alone: time passes, or the payment
\* worker takes an order from whatever it was to processing or cancelled.
LEMMA OutsideStep ==
  ASSUME JobInv, ReclaimTypeOK', UNCHANGED <<usedCount, run, released, faults>>,
         \A o \in Orders : status'[o] \in {"pending", "expired"} => status'[o] = status[o]
  PROVE  JobInv'
<1> USE DEF JobInv
<1>1. InHand' /\ ExpiredWasReleased' /\ CountFollowsReleases'
  BY DEF InHand, ExpiredWasReleased, CountFollowsReleases
<1>2. BoundsKept
  BY DEF BoundsKept, Marking, Waiting
<1> QED
  BY <1>1, <1>2, JobBounds

LEMMA NextJobInv ==
  ASSUME JobInv, ReclaimNext
  PROVE  JobInv'
<1>1. ReclaimTypeOK'
  BY NextReclaimTypeOK DEF JobInv
<1>2. ASSUME NEW o \in Orders, Age(o) PROVE JobInv'
  BY <1>1, <1>2, OutsideStep DEF Age
<1>3. ASSUME NEW r \in Runs, RunStep(r) PROVE JobInv'
  BY <1>1, <1>3, ListSteps, ReleaseStep, MarkStep DEF RunStep
<1> QED
  BY <1>2, <1>3 DEF ReclaimNext

LEMMA NextReleasedShows ==
  ASSUME JobInv, ReleasedShows, ReclaimNext, ReclaimTypeOK'
  PROVE  ReleasedShows'
<1> SUFFICES ASSUME NEW o \in Orders, faults' = 0, released'[o] > 0
             PROVE  status'[o] = "expired" \/ BeingMarked(o)'
  BY DEF ReleasedShows
<1> USE DEF JobInv, ReclaimTypeOK
<1>1. faults = 0 /\ faults' = faults
  BY DEF ReclaimNext, RunStep, Age, GetAbandonedOrders, EndRun, RunDies, ReleaseUsage,
         ReleaseFails, MarkExpired, MarkFails
<1>2. CASE \E p \in Orders : Age(p)
  BY <1>1, <1>2 DEF Age, ReleasedShows, BeingMarked
<1>3. ASSUME NEW r \in Runs, GetAbandonedOrders(r) \/ EndRun(r)
      PROVE  status'[o] = "expired" \/ BeingMarked(o)'
  <2>1. /\ UNCHANGED <<status, released>> /\ \A q \in Runs : q # r => run'[q] = run[q]
        /\ ~run[r].active \/ run[r].todo = {}
    BY <1>3 DEF GetAbandonedOrders, EndRun
  <2>2. run[r].current # o
    BY <2>1 DEF InHand
  <2> QED
    BY <1>1, <2>1, <2>2 DEF ReleasedShows, BeingMarked
<1>4. ASSUME NEW r \in Runs, NEW p \in Orders, ReleaseUsage(r, p)
      PROVE  status'[o] = "expired" \/ BeingMarked(o)'
  <2>1. /\ UNCHANGED status /\ run[r].current = NoOrder
        /\ released' = [released EXCEPT ![p] = @ + 1]
        /\ \A q \in Runs : q # r => run'[q] = run[q]
        /\ run'[r].current = p
    BY <1>4 DEF ReleaseUsage, RunStates
  <2>2. CASE o = p
    BY <2>1, <2>2 DEF BeingMarked
  <2>3. CASE o # p
    BY <2>1, <2>3, <1>1 DEF ReleasedShows, BeingMarked
  <2> QED
    BY <2>2, <2>3
<1>5. ASSUME NEW r \in Runs, NEW p \in Orders, MarkExpired(r, p)
      PROVE  status'[o] = "expired" \/ BeingMarked(o)'
  <2>1. /\ status' = [status EXCEPT ![p] = "expired"] /\ UNCHANGED released
        /\ run[r].current \in {p, NoOrder}
        /\ \A q \in Runs : q # r => run'[q] = run[q]
    BY <1>5 DEF MarkExpired, UpdateStatus, MoveOn, Markable
  <2>2. CASE o = p
    BY <2>1, <2>2 DEF OrdersTypeOK
  <2>3. CASE o # p
    BY <2>1, <2>3, <1>1 DEF ReleasedShows, BeingMarked, OrdersTypeOK
  <2> QED
    BY <2>2, <2>3
<1>6. ~ \E r \in Runs : \/ RunDies(r)
                        \/ \E p \in Orders : ReleaseFails(r, p) \/ MarkFails(r, p)
  BY <1>1 DEF RunDies, ReleaseFails, MarkFails
<1> QED
  BY <1>2, <1>3, <1>4, <1>5, <1>6 DEF ReclaimNext, RunStep

LEMMA ReclaimInvariance == ReclaimSpec => [](JobInv /\ ReleasedShows)
<1>1. CronInit => JobInv /\ ReleasedShows
  BY JobInitInv DEF CronInit
<1>2. JobInv /\ ReleasedShows /\ [ReclaimNext]_cronVars => (JobInv /\ ReleasedShows)'
  <2> SUFFICES ASSUME JobInv, ReleasedShows, [ReclaimNext]_cronVars
               PROVE  (JobInv /\ ReleasedShows)'
    OBVIOUS
  <2>1. CASE ReclaimNext
    BY <2>1, NextJobInv, NextReclaimTypeOK, NextReleasedShows DEF JobInv
  <2>2. CASE UNCHANGED cronVars
    <3>1. UNCHANGED <<status, paid, usedCount, aged, run, released, faults>>
      BY <2>2 DEF cronVars, reclaimVars
    <3>2. ReclaimTypeOK'
      BY <3>1 DEF JobInv, ReclaimTypeOK, OrdersTypeOK
    <3>3. JobInv'
      BY <3>1, <3>2, OutsideStep
    <3> QED
      BY <3>1, <3>3 DEF ReleasedShows, BeingMarked
  <2> QED
    BY <2>1, <2>2
<1> QED
  BY <1>1, <1>2, PTL DEF ReclaimSpec

\* The promo use is released before the order is marked, whatever fails.
THEOREM ReleaseComesFirst == ReclaimSpec => []ExpiredWasReleased
<1>1. JobInv => ExpiredWasReleased
  BY DEF JobInv
<1> QED
  BY <1>1, ReclaimInvariance, PTL

LEMMA JobBoundsReleases == JobInv => ReleasesBounded
<1> SUFFICES ASSUME JobInv, NEW o \in Orders
             PROVE  released[o] <= Cardinality(Runs) + faults
  BY DEF ReleasesBounded
<1>1. /\ released[o] \in Nat /\ faults \in Nat /\ Cardinality(Runs) \in Nat
      /\ Cardinality(Marking(o)) \in Nat /\ Cardinality(Waiting(o)) \in Nat
      /\ Marking(o) \in SUBSET Runs
  BY JobTypes DEF JobInv
<1>2. Cardinality(Marking(o)) <= Cardinality(Runs)
  BY <1>1, RunSets
<1>3. ReleaseBounds(o)
  BY BoundsMeaning DEF JobInv
<1> QED
  BY <1>1, <1>2, <1>3 DEF ReleaseBounds

\* An order's use is released once per overlapping run and once more per fault
\* at most.
THEOREM ReleasesAreBounded == ReclaimSpec => []ReleasesBounded
BY JobBoundsReleases, ReclaimInvariance, PTL

\* Well-typed states, in which used_count is exact for as long as nothing fails
\* and no use is released twice.
THEOREM UsedCountIsExact == ReclaimSpec => []UsedCountExact
<1>1. JobInv /\ ReleasedShows => UsedCountExact
  <2> SUFFICES ASSUME JobInv, ReleasedShows, NEW p \in PromoCodes, faults = 0,
                      \A o \in Holders(p) : released[o] <= 1
               PROVE  usedCount[p] = BaseUses[p] + Cardinality({o \in Holders(p) :
                                       status[o] # "expired" /\ ~BeingMarked(o)})
    BY DEF UsedCountExact, JobInv
  <2>1. \A o \in Holders(p) : o \in Orders /\ HasPromo(o) /\ released[o] \in Nat
    BY DEF Holders, HasPromo, JobInv, ReclaimTypeOK
  <2>2. ASSUME NEW o \in Holders(p)
        PROVE  released[o] = 0 <=> status[o] # "expired" /\ ~BeingMarked(o)
    <3>1. CASE released[o] = 0
      <4>1. ~(0 > 0)
        OBVIOUS
      <4> QED
        BY <2>1, <3>1, <4>1 DEF JobInv, ExpiredWasReleased, InHand, BeingMarked,
                                ReclaimTypeOK, RunStates
    <3>2. CASE released[o] # 0
      BY <2>1, <3>2 DEF ReleasedShows
    <3> QED
      BY <3>1, <3>2
  <2>3. {o \in Holders(p) : released[o] = 0}
          = {o \in Holders(p) : status[o] # "expired" /\ ~BeingMarked(o)}
    BY <2>2
  <2> QED
    BY <2>3 DEF JobInv, CountFollowsReleases
<1> QED
  BY <1>1, ReclaimInvariance, PTL

-----------------------------------------------------------------------------
(* Both programs over one orders table.                                      *)

LEMMA WorkerStep ==
  ASSUME IInv, [Next]_vars
  PROVE  /\ \A o \in Orders : status'[o] \in {"pending", "expired"} => status'[o] = status[o]
         /\ StatusAgreesWithPaid => StatusAgreesWithPaid'
         /\ UndoneByFailedOnly => UndoneByFailedOnly'
<1> USE DEF IInv, TypeOK, OrdersTypeOK, stripeVars, queueVars, workerVars
<1>1. ASSUME NEW o \in Orders, CreatePayment(o)
      PROVE  /\ \A p \in Orders : status'[p] \in {"pending", "expired"} => status'[p] = status[p]
             /\ StatusAgreesWithPaid => StatusAgreesWithPaid'
             /\ UndoneByFailedOnly => UndoneByFailedOnly'
  <2>1. PICK e \in Checkouts : e = EventOf(o) /\ OrderOf[e] = o
    BY <1>1 DEF CreatePayment, Goto, HandlersAreActive, TasksAreEvents, Queue!InState
  <2>2. /\ payments' = [payments EXCEPT ![e] = @ + 1]
        /\ status' = [status EXCEPT ![o] = IF checkout[e] = "paid" THEN "processing"
                                                                  ELSE "cancelled"]
        /\ paid' = [paid EXCEPT ![o] = (checkout[e] = "paid")]
    BY <1>1, <2>1 DEF CreatePayment, SetProcessingOrder
  <2>3. /\ \A p \in Orders : p # o => status'[p] = status[p] /\ (paid'[p] <=> paid[p])
        /\ \A f \in Checkouts : f # e => payments'[f] = payments[f]
        /\ \/ status'[o] = "processing" /\ paid'[o]
           \/ status'[o] = "cancelled" /\ ~paid'[o]
    BY <2>2
  <2>4. \A f \in Checkouts : OrderOf[f] # o => payments'[f] = payments[f]
    BY <2>1, <2>3
  <2>5. StatusAgreesWithPaid => StatusAgreesWithPaid'
    BY <2>3, <2>4 DEF StatusAgreesWithPaid
  <2>6. /\ UNCHANGED checkout
        /\ Completed(e)
    BY <1>1, <2>1 DEF CreatePayment, Goto, HandlersAreActive, TasksAreEvents, Queue!InState
  <2>7. /\ payments'[e] > 0
        /\ \A f \in Checkouts : payments[f] > 0 => payments'[f] > 0
        /\ \A f \in Checkouts : payments'[f] > 0 => f = e \/ payments[f] > 0
    BY <2>1, <2>2
  <2>8. ASSUME UndoneByFailedOnly,
               NEW f \in Checkouts, checkout[f] = "paid", payments'[f] > 0, ~paid'[OrderOf[f]]
        PROVE  \E g \in Checkouts : /\ OrderOf[g] = OrderOf[f]
                                    /\ checkout[g] = "unpaid"
                                    /\ payments'[g] > 0
    <3>1. CASE OrderOf[f] = o
      BY <3>1, <2>1, <2>2, <2>6, <2>7, <2>8 DEF Completed
    <3>2. CASE OrderOf[f] # o
      BY <3>2, <2>1, <2>3, <2>7, <2>8 DEF UndoneByFailedOnly
    <3> QED
      BY <3>1, <3>2
  <2>9. UndoneByFailedOnly => UndoneByFailedOnly'
    BY <2>6, <2>8 DEF UndoneByFailedOnly
  <2> QED
    BY <2>3, <2>5, <2>9
<1>2. ASSUME UNCHANGED <<status, paid, payments>>,
             \A f \in Checkouts : payments[f] > 0 => checkout'[f] = checkout[f]
      PROVE  /\ \A p \in Orders : status'[p] \in {"pending", "expired"} => status'[p] = status[p]
             /\ StatusAgreesWithPaid => StatusAgreesWithPaid'
             /\ UndoneByFailedOnly => UndoneByFailedOnly'
  BY <1>2 DEF StatusAgreesWithPaid, UndoneByFailedOnly
<1>3. \/ \E o \in Orders : CreatePayment(o)
      \/ \E f \in Checkouts : InitiatePayment(f) \/ CompleteCheckout(f)
      \/ UNCHANGED <<status, paid, payments, checkout>>
  BY DEF Next, HandlerStep, AcceptEvent, RefuseEvent,
         StartTask, ReadFailedOrder, EnqueueConfirmation, FinishTask, AbortTask, LockExpires,
         vars, paymentVars
<1>4. ASSUME NEW f \in Checkouts, InitiatePayment(f) \/ CompleteCheckout(f)
      PROVE  /\ UNCHANGED <<status, paid, payments>>
             /\ \A g \in Checkouts : payments[g] > 0 => checkout'[g] = checkout[g]
  BY <1>4 DEF InitiatePayment, CompleteCheckout, RowsAreCompleted, Completed
<1> QED
  BY <1>1, <1>2, <1>3, <1>4

\* The job changes the status column of the orders it expires, and nothing else
\* of the payment pipeline.
LEMMA JobStep ==
  ASSUME IInv, JobInv, ReclaimNext, UNCHANGED paymentVars
  PROVE  /\ IInv'
         /\ \A o \in Orders : status'[o] \in {status[o], "expired"}
         /\ StatusAgreesWithPaid => StatusAgreesWithPaid'
         /\ UndoneByFailedOnly => UndoneByFailedOnly'
<1>1. UNCHANGED paid /\ \A o \in Orders : status'[o] \in {status[o], "expired"}
  BY DEF ReclaimNext, RunStep, Age, GetAbandonedOrders, EndRun, RunDies, ReleaseUsage,
         ReleaseFails, MarkExpired, MarkFails, UpdateStatus, JobInv, ReclaimTypeOK, OrdersTypeOK
<1>2. UNCHANGED <<checkout, acked, enqueued, task, locked, handler, payments, cartItems,
                  confirmed>>
  BY DEF paymentVars, stripeVars, queueVars, workerVars
<1>3. OrdersTypeOK'
  BY NextReclaimTypeOK DEF JobInv, ReclaimTypeOK
<1>4. TypeOK'
  BY <1>2, <1>3 DEF IInv, TypeOK, Queue!QueueTypeOK
<1>5. Safe'
  BY <1>1, <1>2 DEF IInv, Safe, TasksAreEvents, HandlersAreActive, Queue!InState, EventOf,
                    Completed, OutcomeOfHandledEvent, PaidHasCompletedPayment, AckedIsTracked,
                    Tracked, RowsAreCompleted, CompletedClearsCart
<1>6. StatusAgreesWithPaid => StatusAgreesWithPaid'
  BY <1>1, <1>2 DEF StatusAgreesWithPaid
<1>7. UndoneByFailedOnly => UndoneByFailedOnly'
  BY <1>1, <1>2 DEF UndoneByFailedOnly
<1> QED
  BY <1>1, <1>4, <1>5, <1>6, <1>7 DEF IInv, Safe

LifecycleInv == IInv /\ JobInv /\ StatusAgreesWithPaid /\ UndoneByFailedOnly

LEMMA LifecycleStep ==
  ASSUME LifecycleInv, [LifecycleNext]_lifecycleVars
  PROVE  LifecycleInv'
<1>1. CASE [Next]_vars /\ UNCHANGED reclaimVars
  <2>1. IInv' /\ UNCHANGED <<usedCount, aged, run, released, faults>>
    BY <1>1, NextIInv DEF LifecycleInv, reclaimVars
  <2>2. /\ \A o \in Orders : status'[o] \in {"pending", "expired"} => status'[o] = status[o]
        /\ StatusAgreesWithPaid' /\ UndoneByFailedOnly'
    BY <1>1, WorkerStep DEF LifecycleInv
  <2>3. ReclaimTypeOK'
    BY <2>1 DEF LifecycleInv, JobInv, ReclaimTypeOK, IInv, TypeOK
  <2>4. JobInv'
    BY <2>1, <2>2, <2>3, OutsideStep DEF LifecycleInv
  <2> QED
    BY <2>1, <2>2, <2>4 DEF LifecycleInv
<1>2. CASE ReclaimNext /\ UNCHANGED paymentVars
  BY <1>2, NextJobInv, JobStep DEF LifecycleInv
<1> QED
  BY <1>1, <1>2 DEF LifecycleNext, lifecycleVars

LEMMA LifecycleInvariance == LifecycleSpec => []LifecycleInv
<1>1. LifecycleInit => LifecycleInv
  <2> SUFFICES ASSUME LifecycleInit PROVE LifecycleInv
    OBVIOUS
  <2>1. IInv /\ JobInv
    BY InitIInv, JobInitInv DEF LifecycleInit, Init
  <2>2. StatusAgreesWithPaid /\ UndoneByFailedOnly
    BY DEF LifecycleInit, Init, OrdersInit, StatusAgreesWithPaid, UndoneByFailedOnly
  <2> QED
    BY <2>1, <2>2 DEF LifecycleInv
<1>2. LifecycleInv /\ [LifecycleNext]_lifecycleVars => LifecycleInv'
  BY LifecycleStep
<1> QED
  BY <1>1, <1>2, PTL DEF LifecycleSpec

\* The status and paid columns agree, though the worker and the job write them
\* independently.
THEOREM ColumnsAgree == LifecycleSpec => []StatusAgreesWithPaid
<1>1. LifecycleInv => StatusAgreesWithPaid
  BY DEF LifecycleInv
<1> QED
  BY <1>1, LifecycleInvariance, PTL

\* A completed payment whose order is unpaid stands beside a failed payment of
\* the same order: no event of another order and no run of the job undoes one.
THEOREM OnlyFailuresUndo == LifecycleSpec => []UndoneByFailedOnly
<1>1. LifecycleInv => UndoneByFailedOnly
  BY DEF LifecycleInv
<1> QED
  BY <1>1, LifecycleInvariance, PTL

\* What is proved of either program by itself holds of both together: payments
\* do not multiply releases, and the job does not cost a payment.
THEOREM TogetherAsApart ==
  LifecycleSpec => [](/\ AckedIsTracked /\ PaidHasCompletedPayment
                      /\ OutcomeOfHandledEvent /\ CompletedClearsCart
                      /\ ExpiredWasReleased /\ ReleasesBounded)
<1>1. LifecycleInv => /\ AckedIsTracked /\ PaidHasCompletedPayment
                      /\ OutcomeOfHandledEvent /\ CompletedClearsCart
                      /\ ExpiredWasReleased /\ ReleasesBounded
  BY JobBoundsReleases DEF LifecycleInv, IInv, JobInv
<1> QED
  BY <1>1, LifecycleInvariance, PTL
=============================================================================
