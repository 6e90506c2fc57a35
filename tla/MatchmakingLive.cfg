SPECIFICATION FairSpec
CONSTANTS
  Session = {s1}
  Ticket = {t1, t2}
  Player = {p1}
  NoPlayer = NoPlayer
  NoSession = NoSession
  NoTicket = NoTicket
  CancelSettled = TRUE
  Faults = {"result"}
  Trouble = {t2}
  Habits = {"current_ticket"}
INVARIANTS
  NoTicketDropped
PROPERTIES
  PollingIsAnswered
  MatchIsPushed
CHECK_DEADLOCK FALSE
