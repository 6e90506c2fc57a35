SPECIFICATION Spec
CONSTANTS
  Session = {s1}
  Ticket = {t1, t2}
  Player = {p1}
  NoPlayer = NoPlayer
  NoSession = NoSession
  NoTicket = NoTicket
  CancelSettled = FALSE
  Faults = {}
  Trouble = {}
  Habits = {"one_waiting", "current_ticket"}
INVARIANTS
  WaitingTicketPending
CHECK_DEADLOCK FALSE
