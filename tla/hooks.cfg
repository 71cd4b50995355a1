SPECIFICATION MCFairSpec
CONSTANTS
  Null = Null
  Sessions = {s1}
  Agents = {a1}
  Hits <- MCHits
  UsageScores <- MCUsageScores
  JudgeScores <- MCJudgeScores
  Averages <- MCAverages
  Judging = TRUE
  Threshold = 60
  MaxItems = 3
  MaxAttempts = 2
  JudgeLimit = 1
  MaxTurns = 1
  MaxStops = 2
  MaxFaults = 1
  MaxEnds = 2
  MaxInbox = 3
INVARIANTS
  NothingSkipped
  FinalCountsJudge
  NoGhosts
  ViewIsCurrent
  EndedHasTimer
PROPERTIES
  JudgeIsFinal
  QueueDrains
  EndedLeaves
  GhostsVanish
CHECK_DEADLOCK FALSE
