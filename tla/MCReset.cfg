\* Two tokens of one user, two concurrent handlers.
\* The clock stops at the horizon.
CHECK_DEADLOCK FALSE
SPECIFICATION Spec
CONSTANTS
  t1 = t1  t2 = t2  h1 = h1  h2 = h2
  Tokens = {t1, t2}
  Handlers = {h1, h2}
  TTL = 1
  Horizon = 2
  NoKey = NoKey
  Forever = Forever
SYMMETRY Symmetry
INVARIANTS
  ResetIsConfirmed
PROPERTY ConfirmationSticks
