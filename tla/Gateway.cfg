SPECIFICATION FairGateway
CONSTANTS
  Session = {s1}
  Player = {p1}
  NoSession = NoSession
  NoPlayer = NoPlayer
  MaxMessages = 2
  MaxPolls = 2
INVARIANTS
  GatewayTypeOK
  SeenIsCounted
  ErrorsAreRequests
  ActiveWereAccepted
PROPERTIES
  StopEnds
CHECK_DEADLOCK FALSE
