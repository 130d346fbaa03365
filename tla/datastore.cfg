\* Every watermark is the offset of the newest transaction.
CONSTANTS
  Key = {k1, k2}
  Value = {v1, v2}
  NoValue = NoValue
  Client = {c1, c2}
  MaxOffset = 4
  Lag = 0
SPECIFICATION Spec
SYMMETRY Symmetry
INVARIANTS
  TypeOK
  HistoryInWindow
  ReplayOnReplicatedState
  ReplicatedViewIsLogPrefix
  MemoryViewIsLog
PROPERTIES
  TxReadsAreStable
