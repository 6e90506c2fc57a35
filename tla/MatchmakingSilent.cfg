SPECIFICATION Spec
CONSTANTS
  Session = {s1}
  Ticket = {t1}
  Player = {p1}
  NoPlayer = NoPlayer
  NoSession = NoSession
  NoTicket = NoTicket
  CancelSettled = FALSE
  Faults = {"result"}
  Trouble = {t1}
  Habits = {}
INVARIANTS
  NoSilentEnd
CHECK_DEADLOCK FALSE
