SPECIFICATION FairSpec
CONSTANTS
  co = co
  c1 = c1
  c2 = c2
  a1 = a1
  q1 = q1
  q2 = q2
  Coordinator = co
  Callers = {c1}
  Admins = {}
  Tasks = {co, c1}
  Profiles = {q2}
  Extras = {q2}
  Environments <- Liveness
PROPERTIES Recovers CallersReturn CloseCompletes FailureReachesPublisher
CHECK_DEADLOCK FALSE
