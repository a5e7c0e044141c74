SPECIFICATION Spec
CONSTANTS
  Definitions <- MCDefinitions
  Values <- MCValues
  Absent <- MCAbsent
  PipeSize = 1
  MaxInput = 2
  MaxWritten = 2
  MaxOutput = 1
INVARIANT OnePromiseKept
CHECK_DEADLOCK FALSE
