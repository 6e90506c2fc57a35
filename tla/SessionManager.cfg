SPECIFICATION Spec
CONSTANTS
  Session = {s1, s2, s3}
  Player = {p1, p2}
  NoSession = NoSession
  NoPlayer = NoPlayer
INVARIANTS
  TypeOK
  NewestBinderKept
  OnlyReauthLingers
  GaugeFollowsRegistry
CHECK_DEADLOCK FALSE
