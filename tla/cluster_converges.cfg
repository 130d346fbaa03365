\* Three servers, two elections, three transactions, and fairness: does every
\* server catch up?
CONSTANTS
  k1 = k1
  v1 = v1
  v2 = v2
  Key = {k1}
  Value = {v1, v2}
  NoValue = NoValue
  Server = {s1, s2, s3}
  MaxBallot = 2
  DecidedSlack = 1
  Transactions <- SetSetDelete
  MaxStops = 0
  Discipline = {"PromptPolls", "OneInFlight", "BallotsSeen", "QuietSync", "FirstTxEverywhere"}
SPECIFICATION FairSpec
CHECK_DEADLOCK FALSE
PROPERTIES
  Converges
  CatchesUp
