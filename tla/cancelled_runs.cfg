SPECIFICATION Spec
CONSTANTS
  Tickets = {t1}
  Concurrency = 1
  MaxAttempts = 1
  Operations = {"cancel"}
  Advisors = FALSE
PROPERTIES
  CancelledNeverRuns
CHECK_DEADLOCK FALSE
