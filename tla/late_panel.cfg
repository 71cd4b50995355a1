SPECIFICATION Spec
CONSTANTS
  Tickets = {t1}
  Concurrency = 1
  MaxAttempts = 3
  Operations = {"reply"}
  Advisors = TRUE
INVARIANTS
  PanelIsAboutTheQuestion
CHECK_DEADLOCK FALSE
