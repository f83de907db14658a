SPECIFICATION Spec
CONSTANTS
  Codes = {101, 103, 204, 404, 503}
  MaxBody = 2
  MaxSent = 4
  MaxBodyBytes = 2
  MaxRequest = 3
  HookMayPanic = TRUE
INVARIANTS
  HandlerReadsTheBody
  ObservedIsSent
  SnippetIsPrefix
  FailuresReported
  ReportedOnce
  ReportedStatusIsSent
PROPERTIES
  LeavesResponseAlone
CHECK_DEADLOCK FALSE
