SPECIFICATION Spec
CONSTANTS
  c1 = c1
  c2 = c2
  etl = etl
  etl2 = etl2
  t1 = t1
  t2 = t2
  v1 = v1
  v2 = v2
  d1 = d1
  d2 = d2
  x = x
  y = y
  rw = rw
  ro = ro
  u1 = u1
  s1 = s1
  s2 = s2
  u2 = u2
  n1 = n1
  n2 = n2
  w1 = w1
  w2 = w2
  oa = oa
  ob = ob
  coord = coord
  da = da
  db = db
  sx = sx
  q1 = q1
  q2 = q2
  q3 = q3
  Channels = {c1, c2}
  Usernames = {etl, etl2}
  Pks = {1, 2}
  MaxRequests = 3
  MaxFaults = 1
  Rows = {1, 2}
  Teams = {t1, t2}
  Pseudonymous = {t2}
  Visitors = {v1, v2}
  Deciders = {d1, d2}
  MaxDecisions = 2
  Labels = {x, y}
  Perms = {rw, ro}
  ReadWrite = rw
  Users = {u1}
  Sessions = {s1, s2}
  Limit = 2
  MaxCreations = 2
  MaxEdits = 2
  Admins = {u1, u2}
  TeamNames = {n1, n2}
  MaxChanges = 3
  Callers = {w1, w2}
  Capacity = 2
  MaxClock = 3
  MaxCalls = 5
  Orgs = {oa, ob}
  Tiers = {coord}
  Devices = {da, db}
  Suffixes = {sx}
  Queriers = {q1, q2, q3}
  PoolMax = 2
  RowIds = {2, 9}
  Refs = {2, 3, 9}
  FileRows = 3
  TreeTeams = {1, 2, 3, 4, 5}
  MaxDepth = 2
SYMMETRY Alike
INVARIANTS
  AccountsFollowRows
  AccountsFollowRequests
  CustomChannelsSound
  GroupsFollowRecords
  RateKept
  DevicesSound
  PoolSound
  TreesSound
  ScopesAgree
PROPERTIES
  OnlyOwnAccounts
  DecisionsStand
  TransfersSound
CHECK_DEADLOCK FALSE
