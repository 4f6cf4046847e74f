SPECIFICATION Spec
CONSTANTS
  Job = {j1, j2}
  Configs <- Everything
SYMMETRY Symmetry
INVARIANTS NoJobLost NothingReturned
PROPERTIES NeverEarly AttemptsNeverFall ClearSweepsBuckets
CHECK_DEADLOCK FALSE
