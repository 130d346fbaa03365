\* One handle and five transactions: two tasks wait while both channels are
\* full. After a restart the log is only read.
CONSTANTS
  Handle = {h1}
  ChannelSize = 1
  MaxAppends = 5
  MaxRestarts = 1
  AppendsAfterRestart = FALSE
SPECIFICATION FairSpec
CHECK_DEADLOCK FALSE
INVARIANTS
  TypeOK
  EachWrittenOnce
  ReportedSurvives
PROPERTIES
  FileIsAppendOnly
  EveryAppendIsWritten
