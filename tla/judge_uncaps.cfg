SPECIFICATION Spec
CONSTANTS
  Null = Null
  Sessions = {s1}
  Agents = {}
  Hits <- MCHits
  UsageScores <- MCUsageScores
  JudgeScores <- MCJudgeScores
  Averages <- MCAverages
  Judging = TRUE
  Threshold = 60
  MaxItems = 3
  MaxAttempts = 2
  JudgeLimit = 1
  MaxTurns = 1
  MaxStops = 1
  MaxFaults = 0
INVARIANTS
  CapHolds
CHECK_DEADLOCK FALSE
