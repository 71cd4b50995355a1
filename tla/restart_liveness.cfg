SPECIFICATION RFairSpec
CONSTANTS
  Tickets = {t1, t2}
  Concurrency = 1
  MaxAttempts = 2
  Operations = {}
  Advisors = FALSE
  MaxCrashes = 1
INVARIANTS
  WorkConserving
PROPERTIES
  InFlightProceeds
  QueuedProceeds
CHECK_DEADLOCK FALSE
