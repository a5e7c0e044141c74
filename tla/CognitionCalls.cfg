CONSTANTS
  MaxRetries = 2
  RequestTimeout = 2
SPECIFICATION Spec
INVARIANTS WorkBounded TimeBounded TriedAll RefusalEndsCall
PROPERTIES CallEnds
CHECK_DEADLOCK FALSE
