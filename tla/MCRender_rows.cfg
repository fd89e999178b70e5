SPECIFICATION Spec
CONSTANTS
  t1 = t1  t2 = t2  none = none
  ToolIds = {t1, t2}
  NoId = none
  RunStates = {"done", "failed"}
  NoState = none
  MaxEvents = 5
INVARIANTS FootersMarkExchanges TailAgreesWithDanglingRun RowsMeanEvents
PROPERTIES RowsOnlySettle
\* Events are bounded, so the fold ends.
CHECK_DEADLOCK FALSE
