SPECIFICATION Spec
CONSTANTS
  Pubs = {1, 2, 3}
  SizeOf <- Mixed  Weight <- Mixed
  Expirable = {2}
  FlushThreshold = 2  MaxMessages = 3  MaxBytes = 3
  MaxDrains = 1  MaxPendingErrors = 2
  DrainIds = {1, 2}
  MaxOps = 1  MaxFailures = 1
  Ops = {"flush", "pop", "drainErrors", "close"}
  Modes = {"confirmed", "blind"}
  MaxStalls <- StallsOnce
  BufferCapacity = 1  InflightCap = 1  MaxBudget = 3
  Unroutable = {2}
INVARIANTS EveryPublicationAccounted ReturnsReported FlushIsBarrier NothingStranded PumpBudgetBalanced
