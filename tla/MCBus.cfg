SPECIFICATION Spec
CONSTANTS
  NoPlan = NoPlan
  cool = cool
  heat = heat
  ghost = ghost
  Schedules <- ThreeSchedules
  Baseline <- BaselineOf
  Binding <- Wiring
  Offered <- TwoOffered
  Plans <- TwoPlans
  Situations <- TwoSituations
  Debounce = 2  StepsPerHour = 3  PeakSamples = 3  PeakWindow = 4
  TariffBand <- TariffOf
  CarbonBand <- CarbonOf
  MaxClock = 5  MaxErrors = 1  MaxFaults = 1
INVARIANTS PlanInForce ControlHistoryKept
PROPERTIES LatchedIsHeard
CHECK_DEADLOCK FALSE
