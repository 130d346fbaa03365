\* Three servers, three elections, three transactions, one server stopped;
\* all that the tests leave to time is taken for granted.
CONSTANTS
  k1 = k1
  v1 = v1
  v2 = v2
  Key = {k1}
  Value = {v1, v2}
  NoValue = NoValue
  Server = {s1, s2, s3}
  MaxBallot = 3
  DecidedSlack = 1
  Transactions <- SetSetDelete
  MaxStops = 1
  Discipline = {"PromptPolls", "OneInFlight", "BallotsSeen", "QuietSync", "FirstTxEverywhere"}
SPECIFICATION Spec
SYMMETRY Symmetry
CHECK_DEADLOCK FALSE
INVARIANTS
  OffsetIsPosition
  ReplicatedStateIsLogPrefix
  MemoryStateIsLogPrefix
  NoDiffsAtFollower
  NoPanic
  WatermarkIsCommitted
PROPERTIES
  ImplementsReplicatedDatabase
