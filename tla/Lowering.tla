------------------------------ MODULE Lowering ------------------------------
(***************************************************************************)
(* Lowering a plan of the model, whose actions have windows in absolute    *)
(* time, to the relative steps the guardian and the actuation paths take   *)
(* (Plan.to_setpoint_plan of common/models.py).  Time is in slots of a day *)
(* instead of minutes.                                                     *)
(***************************************************************************)
EXTENDS Integers, SequencesExt

CONSTANTS
  Day,       \* slots in a day, the largest offset a step may have
  MaxSteps   \* the most steps a SetpointPlan may have

ASSUME LoweringAssumption == Day \in Nat \ {0} /\ MaxSteps \in Nat

Least(a, b) == IF a <= b THEN a ELSE b
Greatest(a, b) == IF a >= b THEN a ELSE b

\* _offset_minutes: whenever the model says, within a day from now.
Offset(when, now) == Greatest(0, Least(Day, when - now))

\* An action takes effect at its start, and is reverted at its end, unless the
\* two have been clamped to the same offset or there is nothing to revert to.
StepsOf(action, now, baseline) ==
  LET target == <<action.zone, action.actuator>>
      step(when, value) == [offset |-> Offset(when, now), zone |-> action.zone,
                            actuator |-> action.actuator, value |-> value]
  IN  IF target \in DOMAIN baseline /\ Offset(action.end, now) > Offset(action.start, now)
      THEN <<step(action.start, action.value), step(action.end, baseline[target])>>
      ELSE <<step(action.start, action.value)>>

\* to_setpoint_plan
Lowered(actions, now, baseline) ==
  FlattenSeq([i \in DOMAIN actions |-> StepsOf(actions[i], now, baseline)])

\* SetpointPlan refuses more steps than it has room for.
Refused(steps) == Len(steps) > MaxSteps
=============================================================================
