SPECIFICATION Spec
CONSTANTS
  p1 = p1
  p2 = p2
  p3 = p3
  Pubs = {p1, p2, p3}
  Delayed = {p1}
  Size <- MixedSize
  MaxBytes = 2
  Capacity = 2
  Confirms = FALSE
  MaxChannels = 2
  ConnEvents <- LossAndEnd
  Faults = {"lost"}
  Shutdown = TRUE
SYMMETRY SmallPubs
INVARIANTS BudgetBalanced ParkedOnlyWhileSuspended
CHECK_DEADLOCK FALSE
