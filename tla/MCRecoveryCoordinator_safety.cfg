SPECIFICATION Spec
CONSTANTS
  co = co
  c1 = c1
  c2 = c2
  a1 = a1
  q1 = q1
  q2 = q2
  Coordinator = co
  Callers = {c1, c2}
  Admins = {a1}
  Tasks = {co, c1, c2, a1}
  Profiles = {q1, q2}
  Extras = {q2}
  Environments <- Safety
INVARIANTS FreshIsCurrent DeclaredBeforeConsumed
PROPERTIES ReplacesOnlyWhatItSaw
CHECK_DEADLOCK FALSE
