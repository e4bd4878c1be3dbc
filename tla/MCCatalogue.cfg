\* Two requests at a time, on three connections.
SPECIFICATION Spec
CONSTANTS
  r1 = r1  r2 = r2  vera = vera  dan = dan  mia = mia  ann = ann  furniture = furniture  toys = toys  lamp = lamp  doll = doll
  c1 = c1  c2 = c2  c3 = c3
  ot1 = ot1  ot2 = ot2  n1 = n1  n2 = n2  v1 = v1  v2 = v2  v3 = v3
  Requests = {r1, r2}
  Connections = {c1, c2, c3}
  Types = {ot1, ot2}
  Values = {v1, v2, v3}
  Names = {"colour", "size", "red", "blue", "green"}
  Vendors = {vera, dan}
  Managers = {mia}
  Customers = {ann}
  Categories = {furniture, toys}
  ProductIds = {lamp, doll}
  Parts <- SomeParts
  Notes = {n1, n2}
  Seeded <- OldProduct
  Repaired = {"Approve", "Reject"}
  Scenarios <- SomeScenarios
INVARIANTS
  StoredAsAsked
  PublicListingServed
  DrainedByOptionsOnly
PROPERTIES
  DecisionsStand
  OrphansFreeze
