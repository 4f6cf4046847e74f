SPECIFICATION Spec
CHECK_DEADLOCK FALSE
CONSTANTS
  s1 = s1
  s2 = s2
  Order <- Both
  Weight <- Weighted
  CommandCap = 1
  ErrorCap = 1
  Setups <- Safety
INVARIANTS BytesAccounted NoSettlementForgotten RefusedOnlyPoison ReleaseKeepsCopy SettledAsAsked
