CONSTANTS
  Client = {c1, c2}
  Endpoint = {e1, e2}
  Watched = {c1}
  QueueCap = 1
  NoClient = NoClient
  NoEndpoint = NoEndpoint
SPECIFICATION FairSpec
INVARIANTS Paired RefusedOnlyIf
PROPERTIES HandshakeEnds
CHECK_DEADLOCK FALSE
