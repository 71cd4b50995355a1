SPECIFICATION Spec
CONSTANTS
  Tickets = {t1}
  Concurrency = 1
  MaxAttempts = 3
  Operations = {"cancel", "retry", "reply", "remove"}
  Advisors = TRUE
INVARIANTS
  TypeOK
  ResumesOnce
  SlotHasKeeper
  WorkIsDriven
  QueuedIsKept
  AnsweredOnce
CHECK_DEADLOCK FALSE
