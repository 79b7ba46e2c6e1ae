SPECIFICATION Spec
CONSTANTS
  alice = alice
  bob = bob
  robot = robot
  squad = squad
  troop = troop
  w1 = w1
  w2 = w2
  r1 = r1
  r2 = r2
  Users = {alice, bob}
  Ignored = {robot}
  Groups = {squad, troop}
  Chains <- BothOrders
  Requests = {r1, r2}
  Workers <- TwoWorkers
  Sweeping = FALSE
  MaxFailures = 1
  MaxOperator = 1
SYMMETRY Symmetry
INVARIANT
  ConvergedOrAccounted
PROPERTY
  IgnoredUntouched
CHECK_DEADLOCK FALSE
