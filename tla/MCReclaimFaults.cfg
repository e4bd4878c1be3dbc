\* Overlapping runs, statements that fail, runs that die.
\* Nothing is left to do once every order has expired.
CHECK_DEADLOCK FALSE
SPECIFICATION ReclaimSpec
CONSTANTS
  o1 = o1  o2 = o2  o3 = o3  p1 = p1  r1 = r1  r2 = r2
  Orders <- ThreeOrders
  PromoCodes = {p1}
  PromoOf <- SharedCode
  NoPromo = NoPromo
  BaseUses <- OneUse
  Runs = {r1, r2}
  MaxFaults = 2
  NoOrder = NoOrder
INVARIANTS
  ExpiredWasReleased
  ReleasesBounded
  UsedCountExact
PROPERTIES
  AbandonedLeavesPending
