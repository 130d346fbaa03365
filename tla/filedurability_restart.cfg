\* A log that is there when the process starts is appended to.
CONSTANTS
  Handle = {h1}
  ChannelSize = 1
  MaxAppends = 2
  MaxRestarts = 1
  AppendsAfterRestart = TRUE
SPECIFICATION Spec
CHECK_DEADLOCK FALSE
PROPERTIES
  FileIsAppendOnly
