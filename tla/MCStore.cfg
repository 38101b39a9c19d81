SPECIFICATION Spec
CONSTANTS
  p1 = p1
  p2 = p2
  watchdog = watchdog
  Plans <- TwoPlans  WatchdogId = watchdog
  FlushEvery = 2  MaxTimesteps = 5  MaxFaults = 1
INVARIANTS TypeOK WrittenOnceInOrder CrashCostsLessThanABatch PlansJustified VerdictsHavePlans ClosedRunComplete
CHECK_DEADLOCK FALSE
