SPECIFICATION Spec
CONSTANTS
  NonFinite = NonFinite
  NoPlan = NoPlan
  NoSchedule = NoSchedule
  Whitelist <- TemperatureSetpoints
  OccMin = 43  OccMax = 49  UnoccMin = 40  UnoccMax = 60
  PmvTol = 1  MaxStep = 2  MaxHour = 4  Hour = 3
  PlanInterval = 1  MaxIntervals = 2
  NumZones = 1
  ObservedZones <- OneZone
  CoolingSchedule <- OneCooling
  HeatingSchedule <- OneHeating
  Baseline <- OneZoneBaseline
  Handles <- OneHandles
  Plans <- MixedPlans
  Observations <- MixedObservations
  MaxClock = 5  MaxCommits = 3  MaxFaults = 1
INVARIANTS TypeOK ActuatorsBounded NoStalePlanDrives JournalMatchesDecisions TrippedHoldsBaseline WrittenInsideEnvelope
PROPERTIES RateRespected
CHECK_DEADLOCK FALSE
