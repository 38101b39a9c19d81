------------------------------ MODULE Guardian ------------------------------
(***************************************************************************)
(* The deterministic safety filter of guardian/core.py, as pure operators: *)
(* whitelist, comfort envelope chosen by observed occupancy, PMV guard,    *)
(* rate limit against an explicit history, and the verdict on one zone.    *)
(*                                                                         *)
(* Temperatures, PMV and occupancy are integers in a unit the instance     *)
(* chooses (half degrees, say).  NonFinite stands for every reading that   *)
(* math.isfinite refuses and for None: the code treats them alike.         *)
(***************************************************************************)
EXTENDS Integers, Sequences, FiniteSets

CONSTANTS
  Whitelist,            \* GuardianConfig.whitelist
  OccMin, OccMax,       \* EnvelopeConfig.band(occupied=True)
  UnoccMin, UnoccMax,   \* EnvelopeConfig.band(occupied=False)
  PmvTol,               \* EnvelopeConfig.pmv_tolerance, around target 0
  MaxStep, MaxHour,     \* RateLimitConfig: per timestep, per hour
  Hour,                 \* RateHistory.hour, in timesteps
  NonFinite             \* None, NaN or an infinity

TemperatureSetpoints == {"cooling", "heating"}
Actuators == TemperatureSetpoints \cup {"other"}

ASSUME GuardianAssumption ==
  /\ Whitelist \subseteq Actuators
  /\ OccMin \in Int /\ OccMax \in Int /\ OccMin < OccMax
  /\ UnoccMin \in Int /\ UnoccMax \in Int /\ UnoccMin < UnoccMax
  /\ PmvTol \in Nat \ {0}
  /\ MaxStep \in Nat \ {0} /\ MaxHour \in Nat \ {0} /\ Hour \in Nat \ {0}
  /\ NonFinite \notin Int

Reading == Int \cup {NonFinite}
ZoneState == [occupancy : Reading, pmv : Reading,
              cooling : Reading, heating : Reading]
Sample == [at : Int, value : Int]

-----------------------------------------------------------------------------
(* RateHistory: one time-ordered window of applied values per zone.        *)

\* Samples are appended in time order, so those newer than the cutoff are a
\* suffix of the window.
Prune(h, cutoff) ==
  LET kept == {i \in DOMAIN h : h[i].at > cutoff}
  IN  SubSeq(h, Len(h) - Cardinality(kept) + 1, Len(h))

Record(h, at, value) == Append(Prune(h, at - Hour), [at |-> at, value |-> value])

LastValue(h) == h[Len(h)].value
OldestValue(h) == h[1].value

-----------------------------------------------------------------------------
(* The protections, in the order the filter applies them.                  *)

\* (occupancy or 0.0) > 0.0: None and NaN count as empty; an infinite occupancy
\* is any positive number here.
Occupied(o) == o.occupancy \in Int /\ o.occupancy > 0

BandMin(o) == IF Occupied(o) THEN OccMin ELSE UnoccMin
BandMax(o) == IF Occupied(o) THEN OccMax ELSE UnoccMax
Band(o) == BandMin(o) .. BandMax(o)

\* max(low, min(high, value)); every use has low < high.
Clamp(v, low, high) == IF v > high THEN high ELSE IF v < low THEN low ELSE v

Envelope(v, o) == Clamp(v, BandMin(o), BandMax(o))

\* In an occupied zone that already reads too warm a setpoint may not rise
\* above the observed one; too cold, it may not fall below it.
Pmv(a, v, o) ==
  LET guarded == Occupied(o) /\ o.pmv \in Int /\ o[a] \in Int
  IN  IF guarded /\ o.pmv > PmvTol /\ v > o[a] THEN o[a]
      ELSE IF guarded /\ o.pmv < -PmvTol /\ v < o[a] THEN o[a]
      ELSE v

\* Mutant of StepLimit: with no history the first application is not limited.
StepLimitOnlyWithHistory(a, v, o, h) ==
  IF h = <<>> THEN v ELSE Clamp(v, LastValue(h) - MaxStep, LastValue(h) + MaxStep)

\* The per-timestep clamp, against the last applied value of the zone or, with
\* no history, against the observed setpoint of the actuator.
StepLimit(a, v, o, h) ==
  LET anchor == IF h = <<>> THEN o[a] ELSE LastValue(h)
  IN  IF anchor \in Int THEN Clamp(v, anchor - MaxStep, anchor + MaxStep) ELSE v

\* The per-hour clamp, applied after it, against the oldest sample of the window.
HourLimit(v, h) ==
  IF h = <<>> THEN v
  ELSE Clamp(v, OldestValue(h) - MaxHour, OldestValue(h) + MaxHour)

RateLimit(a, v, o, h) == HourLimit(StepLimit(a, v, o, h), h)

\* Mutant of SafeValue: the references of the later limits are trusted, so the
\* envelope is not applied a second time.
SafeValueNoReclamp(a, v, o, h) ==
  IF a \in TemperatureSetpoints
  THEN RateLimit(a, Pmv(a, Envelope(v, o), o), o, h) ELSE v

\* Mutant of SafeValue: no envelope at all.
SafeValueNoEnvelope(a, v, o, h) ==
  IF a \in TemperatureSetpoints THEN RateLimit(a, Pmv(a, v, o), o, h) ELSE v

SafeValue(a, v, o, h) ==
  IF a \in TemperatureSetpoints
  THEN Envelope(RateLimit(a, Pmv(a, Envelope(v, o), o), o, h), o)
  ELSE v

-----------------------------------------------------------------------------
(* The verdict on one zone: steps maps the actuators of the plan's steps   *)
(* for that zone to the value each asks for.                               *)

Survives(a, v) == a \in Whitelist /\ v \in Int

SafeSteps(steps, o, h) ==
  [a \in {b \in DOMAIN steps : Survives(b, steps[b])} |->
     SafeValue(a, steps[a], o, h)]

Status(steps, safe) ==
  IF DOMAIN steps # {} /\ DOMAIN safe = {} THEN "rejected"
  ELSE IF safe = steps THEN "accepted"
  ELSE "clipped"

Verdict(steps, o, h) ==
  LET safe == SafeSteps(steps, o, h)
  IN  [status |-> Status(steps, safe), safe |-> safe]

Statuses(verdicts) == {verdicts[z].status : z \in DOMAIN verdicts}

\* Mutant of Decision: the zone status is passed on as the decision.
DecisionKeepsStatus(verdicts) ==
  IF "rejected" \in Statuses(verdicts) THEN "rejected"
  ELSE IF "clipped" \in Statuses(verdicts) THEN "clipped"
  ELSE "accepted"

\* Guardian.approve's decision over the verdicts of all zones.
Decision(verdicts) ==
  IF "rejected" \in Statuses(verdicts) THEN "rejected"
  ELSE IF "clipped" \in Statuses(verdicts) THEN "clamped"
  ELSE "accepted"
=============================================================================
