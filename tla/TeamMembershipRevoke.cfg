SPECIFICATION Spec
CONSTANTS
  alice = alice
  bob = bob
  org = org
  squad = squad
  troop = troop
  r1 = r1
  r2 = r2
  r3 = r3
  None = None
  Seed = Seed
  Users = {alice}
  Teams = {org, squad, troop}
  Requests = {r1, r2}
  Parent <- Tree
  Suffix <- SameSuffix
  Kinds = {"remove"}
  MaxOpen = 1
  Overlapping = {}
  Reconciling = FALSE
PROPERTY
  RemovalRevokes
CHECK_DEADLOCK FALSE
