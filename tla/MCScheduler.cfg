SPECIFICATION FairSpec
CONSTANTS
  NoPlan = NoPlan
  NoState = NoState
  hot = hot
  mild = mild
  Situations <- TwoSituations
  Inputs <- MixedInputs
  Decisions <- Verdicts
  MaxEpoch = 2  MaxTimeouts = 1
INVARIANTS TypeOK EveryCycleAccounted NewestInFlight ActuatedIsJournalled
PROPERTIES LateResultDiscarded HourServed EveryCycleEnds
CHECK_DEADLOCK FALSE
