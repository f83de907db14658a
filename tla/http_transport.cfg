SPECIFICATION FairSpec
CONSTANTS
  e1 = e1
  e2 = e2
  e3 = e3
  e4 = e4
  s1 = s1
  s2 = s2
  s3 = s3
  Events = {e1, e2, e3, e4}
  IdOf <- MCIdOf
  Poison = {e4}
  Senders = {s1, s2, s3}
  Items <- MCItems
  Cancellable = {s1}
  MaxRetries = 1
INVARIANTS
  StoredOnce
  GivesUpWithReason
PROPERTIES
  RetriesAreDue
  CallsWindDown
  ImplementsDelivery
  SendReturns
CHECK_DEADLOCK FALSE
