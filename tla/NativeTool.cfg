SPECIFICATION FairSpec
CONSTANTS
  Definitions <- MCDefinitions
  Values <- MCValues
  Absent <- MCAbsent
  PipeSize = 1
  MaxInput = 2
  MaxWritten = 2
  MaxOutput = 1
INVARIANTS ArgumentsChecked ArgumentsDelivered OutputBounded BlockedOnlyByOutput
PROPERTY ProcessesEnd
CHECK_DEADLOCK FALSE
