SPECIFICATION FairSpec
CONSTANTS
  Poller = {w1, w2}
  Loop = Loop
  NoOne = NoOne
  Room = 2
  Short = 1
  Wide = 3
  Half = 4
  MaxMessageBytes = 2
  JsonLength = {3}
  MaxFrames = 3
INVARIANTS
  TypeOK
  FramesWhole
  PeerFindsFrames
PROPERTIES
  ImplementsOutbox
  IdleEnds
  WritersReturn
CHECK_DEADLOCK FALSE
