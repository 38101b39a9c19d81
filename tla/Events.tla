------------------------------- MODULE Events -------------------------------
(***************************************************************************)
(* The event detector (agent/events.py): after each observation of the     *)
(* building, is there a reason to plan again before the hour is over?      *)
(*                                                                         *)
(* Its state is one record, of which an evaluation returns the next.  The  *)
(* clock counts timesteps; a zone is reduced to whether it is occupied,    *)
(* its |PMV| in tenths, and its distance in tenths of a degree from the    *)
(* nearer edge of the occupied band.                                       *)
(***************************************************************************)
EXTENDS Integers, Sequences, FiniteSetsExt

CONSTANTS
  Debounce,      \* DEBOUNCE, in timesteps
  StepsPerHour,  \* timesteps per hour
  PeakSamples,   \* readings of demand before one can approach the peak
  PeakWindow,    \* _PEAK_WINDOW, in timesteps
  TariffBand,    \* hour -> tariff band
  CarbonBand     \* hour -> carbon band

ASSUME EventsAssumption ==
  /\ Debounce \in Nat \ {0} /\ StepsPerHour \in Nat \ {0}
  /\ PeakSamples \in Nat \ {0} /\ PeakWindow \in Nat

PmvLimit == 4        \* PMV_LIMIT, in tenths
EdgeMargin == 3      \* EDGE_MARGIN_C, in tenths of a degree
PeakPercent == 85    \* PEAK_FRACTION
DriftSteps == 2      \* DRIFT_STEPS
Never == -1

NewDetector ==
  [driftRun |-> 0, lastFire |-> Never, power |-> << >>, lastKw |-> Never,
   imminent |-> {}, errSeen |-> 0, errMtime |-> 0]

-----------------------------------------------------------------------------
(* The triggers: what each has to say, and the detector after it is asked. *)

\* _severe_error: the .err file has changed and counts more errors.  A read
\* that fails still consumes the change.  (Any timestep is longer than the
\* minute between two looks at the file.)
Changed(d, file) == file.mtime # d.errMtime
SevereError(d, file) == Changed(d, file) /\ file.readable /\ file.count > d.errSeen

AfterFile(d, file) ==
  [d EXCEPT !.errMtime = file.mtime,
            !.errSeen = IF Changed(d, file) /\ file.readable THEN file.count ELSE @]

\* zone_drifting
Drifting(zone) ==
  zone.occupied /\ (zone.pmv > PmvLimit \/ zone.edge < EdgeMargin)

\* _drift
AfterDrift(d, zones) ==
  [d EXCEPT !.driftRun = IF \E z \in zones : Drifting(z) THEN @ + 1 ELSE 0]

\* _peak_approach: demand rises into the top of its trailing peak.
AfterPower(d, t, kw) ==
  [d EXCEPT !.lastKw = kw,
            !.power = SelectSeq(Append(@, [at |-> t, kw |-> kw]),
                                LAMBDA p : p.at >= t - PeakWindow)]

PeakApproach(before, d) ==
  LET peak == Max({d.power[i].kw : i \in DOMAIN d.power})
  IN  /\ Len(d.power) >= PeakSamples
      /\ before.lastKw # Never /\ d.lastKw > before.lastKw
      /\ peak > 0 /\ 100 * d.lastKw >= PeakPercent * peak

\* _band_change: the bands that are different an hour from now.
Soon(t) ==
  LET hour == t \div StepsPerHour
  IN  {b \in {"tariff", "carbon"} :
         IF b = "tariff" THEN TariffBand[hour] # TariffBand[hour + 1]
                         ELSE CarbonBand[hour] # CarbonBand[hour + 1]}

\* Of two changes that become imminent at once the tariff's is the reason.
BandReason(d, t) ==
  IF "tariff" \in Soon(t) \ d.imminent THEN "tariff_band_change"
  ELSE IF "carbon" \in Soon(t) \ d.imminent THEN "carbon_band_change" ELSE "none"

-----------------------------------------------------------------------------
(* The detector.                                                           *)

Answer(d, reason) == [detector |-> d, reason |-> reason]

\* Mutant of Evaluate: the bands are looked at first, and their answer lost.
EvaluateBandsFirst(d, t, s, file) ==
  LET read == AfterFile([d EXCEPT !.imminent = Soon(t)], file)
      drift == AfterDrift(read, s.zones)
      power == AfterPower(drift, t, s.kw)
  IN  IF SevereError(d, file) THEN Answer(read, "severe_error")
      ELSE IF drift.driftRun >= DriftSteps THEN Answer(drift, "comfort_drift")
      ELSE IF PeakApproach(drift, power) THEN Answer(power, "peak_approach")
      ELSE Answer(power, BandReason(read, t))

\* _evaluate: the first trigger that has a reason keeps the others from being
\* asked, and so from taking note of this timestep.
Evaluate(d, t, s, file) ==
  LET read == AfterFile(d, file)
      drift == AfterDrift(read, s.zones)
      power == AfterPower(drift, t, s.kw)
  IN  IF SevereError(d, file) THEN Answer(read, "severe_error")
      ELSE IF drift.driftRun >= DriftSteps THEN Answer(drift, "comfort_drift")
      ELSE IF PeakApproach(drift, power) THEN Answer(power, "peak_approach")
      ELSE Answer([power EXCEPT !.imminent = Soon(t)], BandReason(power, t))

\* should_trigger: a reason counts unless another did just before.
ShouldTrigger(d, t, s, file) ==
  LET answer == Evaluate(d, t, s, file)
      fires == /\ answer.reason # "none"
               /\ d.lastFire = Never \/ t - d.lastFire >= Debounce
  IN  [detector |-> IF fires THEN [answer.detector EXCEPT !.lastFire = t]
                             ELSE answer.detector,
       fires |-> fires]
=============================================================================
