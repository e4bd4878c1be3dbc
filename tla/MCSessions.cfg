\* One session, two concurrent refreshes, the default lifetimes.
\* The clock stops at the horizon.
CHECK_DEADLOCK FALSE
SPECIFICATION Spec
CONSTANTS
  s1 = s1  s2 = s2  r1 = r1  r2 = r2
  SessionIds = {s1}
  Requests = {r1, r2}
  AccessTTL = 0
  RefreshTTL = 0
  RememberTTL = 4
  SixMonths = 24
  UserVersion = 1
  Epoch = 60
  Horizon = 88
  NoRow = NoRow
SYMMETRY Symmetry
INVARIANTS
  OneExtensionPerToken
  AccessEndsWithSession
  WithinMaxRenewal
PROPERTIES
  ImplementsLife
