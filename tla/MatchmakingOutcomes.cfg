SPECIFICATION Spec
CONSTANTS
  Session = {s1, s2}
  Ticket = {t1}
  Player = {p1, p2}
  NoPlayer = NoPlayer
  NoSession = NoSession
  NoTicket = NoTicket
  CancelSettled = TRUE
  Faults = {"create", "get", "cancel", "result", "exit"}
  Trouble = {t1}
  Habits = {}
INVARIANTS
  TypeOK
  OutcomesAgree
  OnlyMatchesGoUntold
  FoundReachesOwner
PROPERTIES
  ImplementsVerdicts
SYMMETRY Symmetry
CHECK_DEADLOCK FALSE
