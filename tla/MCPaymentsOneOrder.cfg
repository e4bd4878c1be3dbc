\* One order, two checkout sessions, two runs per task, redelivery.
\* The pipeline may come to rest: no pending order, no delivery left within the bound.
CHECK_DEADLOCK FALSE
SPECIFICATION FairSpec
CONSTANTS
  o1 = o1  o2 = o2
  e1 = e1  e2 = e2
  i1 = i1  i2 = i2
  Orders <- OneOrder
  Checkouts <- TwoCheckouts
  OrderOf <- BothOfO1
  CartItems = {i1, i2}
  ItemsOf <- O1Items
  WebhookCaller = "user"
  MaxRetry = 1
  MaxEnqueues = 2
  NoTask = NoTask
INVARIANTS
  AckedIsTracked
  PaidHasCompletedPayment
  OutcomeOfHandledEvent
  RowsPerDelivery
  CompletedClearsCart
PROPERTIES
  ImplementsLedger
  TaskSettles
