--------------------------- MODULE PaymentLedger ---------------------------
(***************************************************************************)
(* What the payment pipeline promises to Stripe, without orders, tasks or  *)
(* workers: an event is acknowledged only after it has been taken, a taken *)
(* event may be recorded (once or more), and a taken event is in the end   *)
(* recorded or given up for good.                                          *)
(***************************************************************************)
CONSTANT Checkouts

VARIABLES taken,     \* events handed to the queue
          acked,     \* events Stripe got a 2xx for
          recorded,  \* events with a payment row
          givenUp    \* events whose task ran out of retries

ledgerVars == <<taken, acked, recorded, givenUp>>

LedgerInit == /\ taken = {}
              /\ acked = {}
              /\ recorded = {}
              /\ givenUp = {}

\* Stripe may lose the answer, so taking does not imply acknowledging.
Take(e) ==
  /\ taken' = taken \cup {e}
  /\ acked' \in {acked, acked \cup {e}}
  /\ UNCHANGED <<recorded, givenUp>>

Record(e) ==
  /\ e \in taken
  /\ recorded' = recorded \cup {e}
  /\ UNCHANGED <<taken, acked, givenUp>>

GiveUp(e) ==
  /\ e \in taken
  /\ givenUp' = givenUp \cup {e}
  /\ UNCHANGED <<taken, acked, recorded>>

LedgerNext == \E e \in Checkouts : Take(e) \/ Record(e) \/ GiveUp(e)

Spec == LedgerInit /\ [][LedgerNext]_ledgerVars
=============================================================================
