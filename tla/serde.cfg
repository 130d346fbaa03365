\* A log of two entries, written byte by byte.
CONSTANTS
  Diffs <- MCDiffs
  OtherTxData <- MCOtherTxData
  FirstOffsets <- MCFirstOffsets
  NoValue = NoValue
  MaxEntries = 2
SPECIFICATION Spec
CHECK_DEADLOCK FALSE
INVARIANTS
  TypeOK
  IterYieldsWritten
  ReplayIsCommit
