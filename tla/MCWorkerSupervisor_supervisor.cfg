SPECIFICATION FairSpec
CONSTANTS
  eu = eu
  us = us
  mail = mail
  bulk = bulk
  logs = logs
  Plan <- MCPlan
  Queues <- MCQueues
  MaxReArms = 2
  Escalation = 2
  Convergence = 2
  MemoTtl = 2
  Cooldown = 1
  Idle = 1
  Setups <- MCSetups
INVARIANTS LeavesNothingBehind
PROPERTIES ReleasesLand Ends
CHECK_DEADLOCK FALSE
