SPECIFICATION Spec
CONSTANTS
  NonFinite = NonFinite
  NoPlan = NoPlan
  NoSchedule = NoSchedule
  Whitelist <- TemperatureSetpoints
  OccMin = 43  OccMax = 49  UnoccMin = 40  UnoccMax = 60
  PmvTol = 1  MaxStep = 2  MaxHour = 4  Hour = 3
  PlanInterval = 1  MaxIntervals = 2
  NumZones = 1
  ObservedZones <- OneZone
  CoolingSchedule <- OneCooling
  HeatingSchedule <- OneHeating
  Baseline <- OneZoneBaseline
  Handles <- OneHandles
  Plans <- CoolingPlans
  Observations <- AlwaysOccupied
  MaxClock = 5  MaxCommits = 3  MaxFaults = 0
PROPERTIES FreshPlanClearsTrip
CHECK_DEADLOCK FALSE
