SPECIFICATION LoopSpec
CONSTANTS
  NoPlan = NoPlan
  NoState = NoState
  hot = hot
  mild = mild
  Situations <- TwoSituations
  Inputs <- EventfulInputs
  Decisions <- Verdicts
  MaxEpoch = 3  MaxTimeouts = 1
  StepsPerHour = 2  MaxClock = 5
  PlanInterval = 1  MaxIntervals = 2
INVARIANTS DrivingPlanOnRecord CorrectionsFollowComplaints VerdictNotLost
CHECK_DEADLOCK FALSE
