SPECIFICATION Spec
CONSTANTS
  err = err
  tx = tx
  lax = lax
  strict = strict
  late = late
  Core = Core
  None = None
  Captures = {err, tx}
  Type <- MCType
  InRequest = {err}
  Providers = {lax, strict, late}
  Initial <- MCInitial
  Privacy <- MCPrivacy
  Hooked = {strict}
  Edited = {"eventId", "env", "headers", "breadcrumbs"}
  Sections = {"eventId", "env", "url", "headers", "breadcrumbs", "extra"}
  Shape <- MCShape
  Traces = {"t"}
INVARIANTS
  TraceIsAPair
  OfferedOnce
  OwnOptionsOnly
PROPERTIES
  QueuedStays
CHECK_DEADLOCK FALSE
