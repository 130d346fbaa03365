\* A server may be elected before it has the first transaction.
CONSTANTS
  k1 = k1
  v1 = v1
  v2 = v2
  Key = {k1}
  Value = {v1, v2}
  NoValue = NoValue
  Server = {s1, s2, s3}
  MaxBallot = 2
  DecidedSlack = 1
  Transactions <- SetSetDelete
  MaxStops = 0
  Discipline = {"PromptPolls", "OneInFlight", "BallotsSeen", "QuietSync"}
SPECIFICATION Spec
SYMMETRY Symmetry
CHECK_DEADLOCK FALSE
INVARIANTS
  NoPanic
