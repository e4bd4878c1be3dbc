-------------------------- MODULE MCOrderPayments --------------------------
(* Instances of OrderPayments for TLC. *)
EXTENDS OrderPayments, TLC

CONSTANTS o1, o2, e1, e2, i1, i2

\* Two checkout sessions of one order.
OneOrder      == {o1}
TwoCheckouts  == {e1, e2}
BothOfO1      == e1 :> o1 @@ e2 :> o1
O1Items       == o1 :> {i1}
=============================================================================
