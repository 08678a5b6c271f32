SPECIFICATION Spec
CONSTANTS
  Pipe <- MCPipe
  MaxAttempts = 3
  MaxRuns = 4
  MaxEdits = 2
INVARIANTS
  FileTruthful
PROPERTIES
  PassedNotRepeated
  RunEnds
CHECK_DEADLOCK FALSE
