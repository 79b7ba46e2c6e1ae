SPECIFICATION Spec
CONSTANTS
  alice = alice
  bob = bob
  org = org
  squad = squad
  troop = troop
  r1 = r1
  r2 = r2
  r3 = r3
  None = None
  Seed = Seed
  Users = {alice}
  Teams = {org, squad, troop}
  Requests = {r1, r2, r3}
  Parent <- Tree
  Suffix <- SameSuffix
  Kinds = {"add", "remove", "transfer"}
  MaxOpen = 3
  Overlapping = {"transfer"}
  Reconciling = TRUE
INVARIANTS
  AccessFollowsTeams
PROPERTIES
  Atomic
CHECK_DEADLOCK FALSE
