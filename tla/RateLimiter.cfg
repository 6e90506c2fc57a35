SPECIFICATION Spec
CONSTANTS
  SessionRateLimit = 2
  Window = 3
  Horizon = 7
INVARIANTS
  TypeOK
  BurstBounded
  LongRunRate
PROPERTIES
  RefusalsEarned
