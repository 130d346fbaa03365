\* A watermark one transaction behind the newest one.
CONSTANTS
  Key = {k1}
  Value = {v1, v2}
  NoValue = NoValue
  Client = {c1}
  MaxOffset = 3
  Lag = 1
SPECIFICATION Spec
INVARIANTS
  ReplicatedViewIsLogPrefix
