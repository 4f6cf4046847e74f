CONSTANTS
  Job = {j1}
  Configs <- DelayedRelease
SPECIFICATION Spec
INVARIANT NoJobLost
CHECK_DEADLOCK FALSE
