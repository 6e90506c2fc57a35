SPECIFICATION Spec
CONSTANTS
  Session = {s1}
  Player = {p1, p2}
  NoPlayer = NoPlayer
  Horizon = 2
  MaxEdits = 2
INVARIANTS
  TypeOK
  BannedStayOut
  OnlyBannedRefused
  MaintenanceIsKept
  MaintenanceIsReal
SYMMETRY Symmetry
CHECK_DEADLOCK FALSE
