SPECIFICATION FairSpec
CONSTANTS
  Poller = {w1}
  Loop = Loop
  NoOne = NoOne
  Room = 2
  Short = 1
  Wide = 3
  Half = 4
  MaxMessageBytes = 2
  JsonLength = {3}
  MaxFrames = 2
PROPERTIES
  IdleAlwaysEnds
CHECK_DEADLOCK FALSE
