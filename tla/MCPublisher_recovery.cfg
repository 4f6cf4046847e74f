SPECIFICATION Spec
CONSTANTS
  p1 = p1
  p2 = p2
  p3 = p3
  Pubs = {p1, p2}
  Delayed = {}
  Size <- UnitSize
  MaxBytes = 2
  Capacity = 2
  Confirms = TRUE
  MaxChannels = 2
  ConnEvents <- StaleRecovery
  Faults = {"lost"}
  Shutdown = FALSE
SYMMETRY PlainPubs
INVARIANTS HeldOnce AttemptsDistinct
PROPERTIES OutcomeIsFinal RearmedOnceWhileParked ImplementsContract
CHECK_DEADLOCK FALSE
