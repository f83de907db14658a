SPECIFICATION ShutdownSpec
CONSTANTS
  Callers = {c1, c2, c3}
  Waiters = {w1, w2}
  QueueSize = 1
INVARIANTS
  WaitIsABarrier
  NoLostWakeup
PROPERTIES
  ImplementsWaitGroup
  WaitComesBack
CHECK_DEADLOCK FALSE
