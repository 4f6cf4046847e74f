SPECIFICATION FairSpec
CONSTANTS
  p1 = p1
  p2 = p2
  p3 = p3
  Pubs = {p1}
  Delayed = {}
  Size <- UnitSize
  MaxBytes = 2
  Capacity = 2
  Confirms = TRUE
  MaxChannels = 2
  ConnEvents <- LossAndRecovery
  Faults = {"lost", "refused"}
  Shutdown = TRUE


PROPERTIES EveryPublishResolves
CHECK_DEADLOCK FALSE
