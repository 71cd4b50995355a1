SPECIFICATION RSpec
CONSTANTS
  Tickets = {t1, t2}
  Concurrency = 2
  MaxAttempts = 2
  Operations = {"remove"}
  Advisors = TRUE
  MaxCrashes = 1
SYMMETRY Symmetry
INVARIANTS
  FileCatchesUp
  InFlightIsRecovered
  
  DecidingIsAttended
CHECK_DEADLOCK FALSE
