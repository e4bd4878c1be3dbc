---------------------------- MODULE OrderTables ----------------------------
(***************************************************************************)
(* The columns of the orders table that the payment worker and the promo   *)
(* reclaim job both write: status and paid.  Every order of the model is   *)
(* already in the table, "pending" and unpaid, as handleCheckout stores it *)
(* (cmd/api/orders.go:135-142).                                            *)
(***************************************************************************)
CONSTANT Orders

VARIABLES status,  \* orders.status
          paid     \* orders.paid

OrderStatus == {"pending", "processing", "cancelled", "expired"}

OrdersTypeOK == /\ status \in [Orders -> OrderStatus]
                /\ paid \in [Orders -> BOOLEAN]

OrdersInit == /\ status = [o \in Orders |-> "pending"]
              /\ paid = [o \in Orders |-> FALSE]

\* Mutant: a failed payment counts as paid.
SetProcessingOrderPaid(o, isPaid) ==
  /\ status' = [status EXCEPT ![o] = IF isPaid THEN "processing" ELSE "cancelled"]
  /\ paid' = [paid EXCEPT ![o] = TRUE]

\* UPDATE orders SET status = $2, paid = $3 WHERE id = $1: whatever the
\* status was before.
SetProcessingOrder(o, isPaid) ==
  /\ status' = [status EXCEPT ![o] = IF isPaid THEN "processing" ELSE "cancelled"]
  /\ paid' = [paid EXCEPT ![o] = isPaid]

\* Mutant: an order that leaves the normal course is also marked unpaid.
UpdateStatusAndUnpay(o, s) ==
  /\ status' = [status EXCEPT ![o] = s]
  /\ paid' = [paid EXCEPT ![o] = FALSE]

\* UPDATE orders SET status = $1 WHERE id = $2: whatever the status was
\* before, and leaving paid alone.
UpdateStatus(o, s) ==
  /\ status' = [status EXCEPT ![o] = s]
  /\ UNCHANGED paid
=============================================================================
