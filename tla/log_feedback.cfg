SPECIFICATION Spec
CONSTANTS
  Callers = {c1, c2}
  Worker = worker
  None = none
  Configs <- InfoBridged
  QueueSize = 1
INVARIANTS
  BridgeCallsDoNotBlock
