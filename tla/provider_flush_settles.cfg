SPECIFICATION Spec
CONSTANTS
  e1 = e1
  e2 = e2
  e3 = e3
  e4 = e4
  Events = {e1}
  TypeOf <- ErrorsOnly
  Callers = {c1}
  Flushers = {f1}
  Deadlined = {}
  Worker = worker
  None = none
  Modes = {TRUE}
  BatchSize = 2
  QueueSize = 1
INVARIANTS
  FlushSettles
