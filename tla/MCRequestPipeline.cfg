\* Two requests at a time from a visitor, a customer and five administrators.
SPECIFICATION PipelineSpec
CONSTANTS
  r1 = r1  r2 = r2  home = home  cafe = cafe
  visitor = visitor  customer = customer
  senior = senior  junior = junior  manager = manager  support = support  novice = novice
  Endpoints <- ScaledLimits
  Routes <- AllRoutes
  Callers = {visitor, customer, senior, junior, manager, support, novice}
  Remotes = {home, cafe}
  Traffic <- SomeTraffic
  WhoIs <- Roles
  CreatedAt <- Ages
  Requests = {r1, r2}
  NoMember = NoMember
SYMMETRY Symmetry
INVARIANTS
  WithinLimit
  EldestSuperStays
PROPERTIES
  RefusedAtLimit
  DisabledByRank
