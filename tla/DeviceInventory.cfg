SPECIFICATION FairSpec
CONSTANTS
  phone = phone
  browser = browser
  ana = ana
  alias = alias
  p1 = p1
  Uids = {phone, browser}
  Users = {ana}
  Certs = {1, 2, 3}
  Carrier <- MCCarrier
  Owner <- MCOwner
  Reports = {alias}
  Candidates <- MCCandidates
  Syncers = {1, 2}
  Pollers = {p1}
  Ops = {1}
  RevokeMaxCerts = 2
  RevokeEnabled = {TRUE, FALSE}
  MaxEvents = 1
  MaxFaults = 1
INVARIANTS
  RevocationsHold
PROPERTIES
  RowsChangeWithCause
  InventoryConverges
