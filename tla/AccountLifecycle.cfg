SPECIFICATION FairSpec
CONSTANTS
  web1 = web1
  web2 = web2
  Users = {1, 2}
  Syncs <- OneProcess
  PageSize = 1
  MaxActs = 3
  MaxFaults = 1
INVARIANTS
  StatusFollowsIntent
  RevokedWhenCut
PROPERTY
  AgreeEventually
