SPECIFICATION FairSpec
CONSTANTS
  e1 = e1
  e2 = e2
  e3 = e3
  e4 = e4
  Events = {e1, e2, e4}
  TypeOf <- MixedTypes
  Callers = {c1, c2}
  Flushers = {f1}
  Deadlined = {f1}
  Worker = worker
  None = none
  Modes = {TRUE, FALSE}
  BatchSize = 2
  QueueSize = 1
INVARIANTS
  PendingCounts
  FlushHandsOver
  InOnePlace
PROPERTIES
  EventsOnlyAdvance
  KeepsOrder
  ImplementsLedger
  EventuallySettled
  FlushComesBack
