SPECIFICATION FairSpec
CONSTANTS
  MaxDuration = 1
  HeartbeatEvery = 1
  MaxCancels = 1
INVARIANTS
  TypeOK
  OneVerdict
  RowsInOrder
  TerminalIsComplete
PROPERTIES
  StreamEnds
