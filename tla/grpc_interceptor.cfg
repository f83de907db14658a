SPECIFICATION Spec
CONSTANTS
  Codes = {"OK", "NotFound", "Unknown", "Internal"}
  HookMayPanic = TRUE
INVARIANTS
  FailuresReported
  ReportedOnce
  ReportedCodeIsAnswered
  AnswerStands
CHECK_DEADLOCK FALSE
