SPECIFICATION Spec
CONSTANTS
  Spans = {s1, s2}
  Root = root
  None = None
  Torn = torn
  Statuses = {ok}
  Contents = {c1, c2}
  Started = 1
  MaxTime = 1
SYMMETRY Symmetry
INVARIANTS
  TimesAgree
  SpansReported
  ReportedAsLeft
CHECK_DEADLOCK FALSE
