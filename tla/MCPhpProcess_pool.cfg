SPECIFICATION Spec
CHECK_DEADLOCK FALSE
SYMMETRY Symmetry
CONSTANTS
  t1 = t1
  t2 = t2
  k1 = k1
  k2 = k2
  b1 = b1
  b2 = b2
  Free = Free
  Threads = {t1, t2}
  Keys = {k1, k2}
  Clients = {1, 2}
  MaxHandles = 2
  MAX_POOLS = 1
  Scenarios <- Everything
INVARIANTS RetirementSignalled NothingOutlivesClose OneCoordinatorPerBroker InUseStaysOpen
