\* A node, its runner and three clients.
CONSTANTS
  Client = {c1, c2, c3}
SPECIFICATION FairSpec
CHECK_DEADLOCK FALSE
PROPERTIES
  WaitIsForever
  UncontendedCallsReturn
