SPECIFICATION PlannerSpec
CONSTANTS
  NoPlan = NoPlan
  NoVerdict = NoVerdict
  cool1 = cool1
  cool2 = cool2
  heat = heat
  plan1 = plan1
  plan2 = plan2
  SetbackId = plan1
  Day = 8  MaxSteps = 6
  Totals = {1, 4}  HorizonDays = 1
  Zones = {1, 2}
  Binding <- Wiring
  Baseline <- BaselineOf
  Shifts = {0, 6}
  Offers <- SomeOffers
  Answers <- SomeAnswers
  Clips <- SomeClips
  Results <- SomeResults
  SetbackStart = 4  SetbackEnd = 6  SetbackDelta = 4
  SeedGap = 6  IdleTemp = 40
  MinSetpointResponse = 10  MinTempResponse = 1
  Bounds <- Envelope
  MinDeadband = 4  ComfortMin = 44  ComfortMax = 54
INVARIANT PlanNotDiscarded
CHECK_DEADLOCK FALSE
