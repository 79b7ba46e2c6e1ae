SPECIFICATION FairSpec
CONSTANTS
  alice = alice
  bob = bob
  org = org
  squad = squad
  troop = troop
  r1 = r1
  r2 = r2
  r3 = r3
  None = None
  Seed = Seed
  Users = {alice}
  Teams = {org, squad}
  Requests = {r1, r2, r3}
  Parent <- Branch
  Suffix <- SameSuffix
  Kinds = {"add", "remove", "transfer"}
  MaxOpen = 2
  Overlapping = {"add", "remove", "transfer"}
  Reconciling = FALSE
INVARIANTS
  RowsSound
PROPERTY
  TransactionsEnd
CHECK_DEADLOCK FALSE
