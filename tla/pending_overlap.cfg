SPECIFICATION Spec
CONSTANTS
  Callers = {c1, c2}
  Waiters = {w1}
  QueueSize = 1
INVARIANTS
  NeverPanics
CHECK_DEADLOCK FALSE
