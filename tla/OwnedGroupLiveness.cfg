SPECIFICATION FairSpec
CONSTANTS
  alice = alice
  bob = bob
  robot = robot
  squad = squad
  troop = troop
  w1 = w1
  w2 = w2
  r1 = r1
  r2 = r2
  Users = {alice, bob}
  Ignored = {}
  Groups = {squad, troop}
  Chains <- BothOrders
  Requests = {r1, r2}
  Workers <- OneWorker
  Sweeping = TRUE
  MaxFailures = 1
  MaxOperator = 0
PROPERTY
  SweepConverges
CHECK_DEADLOCK FALSE
