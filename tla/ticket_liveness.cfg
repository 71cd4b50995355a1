SPECIFICATION FairSpec
CONSTANTS
  Tickets = {t1}
  Concurrency = 1
  MaxAttempts = 2
  Operations = {"cancel", "retry", "reply", "remove", "timeout"}
  Advisors = TRUE
PROPERTIES
  SlotsComeBack
  InFlightProceeds
  ConsultationEnds
CHECK_DEADLOCK FALSE
