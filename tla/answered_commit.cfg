SPECIFICATION Spec
CONSTANTS
  Tickets = {t1}
  Files = {f1, f2}
  None = None
  Limit = 2
  MaxWrites = 3
  MaxCommits = 1
INVARIANTS
  OneReviewableUnit
CHECK_DEADLOCK FALSE
