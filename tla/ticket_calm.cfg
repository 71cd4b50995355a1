SPECIFICATION FairSpec
CONSTANTS
  Tickets = {t1, t2}
  Concurrency = 1
  MaxAttempts = 3
  Operations = {"retry"}
  Advisors = FALSE

  
  
PROPERTIES
  QueuedProceeds
  PoolSpec
CHECK_DEADLOCK FALSE
