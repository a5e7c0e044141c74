SPECIFICATION Spec
CONSTANTS
  Sessions = {s}
  Callers = {c1, c2}
  None = none
  MaxLength = 3
  MaxSnapshots = 3
  ScrollLimit = 2
INVARIANTS CollectionExists AcknowledgedKept
PROPERTY RestoredAsStored
