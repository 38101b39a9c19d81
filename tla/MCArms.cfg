SPECIFICATION Spec
CONSTANTS
  NoSchedule = NoSchedule
  NoPeople = NoPeople
  NoFile = NoFile
  ZoneVariables <- ZoneVars
  PeopleVariables <- PeopleVars
  SiteMeter = "facility"
  RequiredMeters <- AllMeters
  HoursPerDay = 2
  PeriodMinutes = 720
  Tariff <- HourPrices
  Carbon <- HourCarbon
  HvacMeters <- Hvac
  FacilityMeter = "facility"
  AirTemp = "temp"  Occupancy = "occupancy"  Pmv = "pmv"
  Threshold = 1
  Prototype <- OfficePrototype
  Temperatures <- WeatherHours
  WindowHours = 4  PeriodDays = 2  MonthDays = 3
  NoStart = NoStart
  Requests <- RunRequests
  Profiles <- Buildings
  Occupied <- OccupiedSteps
  Uncomfortable <- DiscomfortSteps
INVARIANTS SavingsAreReal ReportAddsUp ComfortHoursReal
CHECK_DEADLOCK FALSE
