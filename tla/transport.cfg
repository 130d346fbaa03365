\* Two nodes whose channels hold one message.
CONSTANTS
  Node = {n1, n2}
  ChannelSize = 1
  MaxMessages = 4
  MaxDeletes = 2
SPECIFICATION FairSpec
CHECK_DEADLOCK FALSE
INVARIANTS
  TypeOK
  LinksKeepOrder
  ConnectionsAreKept
PROPERTIES
  ReconnectConnectsAll
  JamIsForever
  TrafficSettles
