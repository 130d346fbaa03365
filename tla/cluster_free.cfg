\* Three servers, two elections, two transactions; nothing is taken for
\* granted about time.
CONSTANTS
  k1 = k1
  v1 = v1
  v2 = v2
  Key = {k1}
  Value = {v1, v2}
  NoValue = NoValue
  Server = {s1, s2, s3}
  MaxBallot = 2
  DecidedSlack = 1
  Transactions <- SetSet
  MaxStops = 0
  Discipline = {}
SPECIFICATION Spec
SYMMETRY Symmetry
CHECK_DEADLOCK FALSE
INVARIANTS
  TypeOK
  DecidedAgreement
  LastAppliedIsReplicated
PROPERTIES
  DecidedIsStable
