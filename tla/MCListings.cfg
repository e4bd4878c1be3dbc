\* Four rows at first, five at most; pages of four are refused.  A walk that is
\* over stays over.
SPECIFICATION ListingsSpec
CHECK_DEADLOCK FALSE
CONSTANTS
  MaxRows = 5
  AtStart = 4
  CreatedAt <- SomeTimes
  Owner <- SomeOwners
  Images <- SomeImages
  Vendor = 1
  Sizes = {1, 2, 3, 4}
  MaxPageSize = 3
  MaxChanges = 3
INVARIANTS
  SortedWalks
  UnsortedWalkCounts
