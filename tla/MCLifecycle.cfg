\* Payments and reclaim of one order with two checkout sessions.
\* The system rests once every order has been paid, cancelled or reclaimed.
CHECK_DEADLOCK FALSE
SPECIFICATION LifecycleSpec
CONSTANTS
  o1 = o1  e1 = e1  e2 = e2  i1 = i1  p1 = p1  r1 = r1
  Orders = {o1}
  Checkouts = {e1, e2}
  OrderOf <- BothOfO1
  CartItems = {i1}
  ItemsOf <- O1Item
  WebhookCaller = "user"
  MaxRetry = 1
  MaxEnqueues = 1
  NoTask = NoTask
  PromoCodes = {p1}
  PromoOf <- O1Code
  NoPromo = NoPromo
  BaseUses <- NoUse
  Runs = {r1}
  MaxFaults = 1
  NoOrder = NoOrder
INVARIANTS
  StatusAgreesWithPaid
  UndoneByFailedOnly
