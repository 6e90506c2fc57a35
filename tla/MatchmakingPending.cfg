SPECIFICATION Spec
CONSTANTS
  Session = {s1, s2}
  Ticket = {t1, t2}
  Player = {p1}
  NoPlayer = NoPlayer
  NoSession = NoSession
  NoTicket = NoTicket
  CancelSettled = TRUE
  Faults = {"create", "get", "cancel", "exit"}
  Trouble = {t1, t2}
  Habits = {"one_poller", "current_ticket"}
INVARIANTS
  PendingIsPolled
  NoSilentEnd
SYMMETRY Symmetry
CHECK_DEADLOCK FALSE
