------------------------------ MODULE Supervisor ------------------------------
(***************************************************************************)
(* The older guardian (guardian/supervisor.py), which the smoke test has   *)
(* its plan reviewed by: as pure operators on sequences of steps.          *)
(* observed: zone -> the setpoints observed of it, those that were.        *)
(***************************************************************************)
EXTENDS Integers, SequencesExt

CONSTANTS
  Bounds,       \* actuator -> [minimum, maximum, maxStep]
  MinDeadband,  \* min_deadband_c
  ComfortMin,   \* comfort_min_c
  ComfortMax    \* comfort_max_c

ASSUME SupervisorAssumption ==
  /\ \A a \in DOMAIN Bounds : Bounds[a].minimum <= Bounds[a].maximum /\ Bounds[a].maxStep > 0
  /\ MinDeadband > 0 /\ ComfortMin <= ComfortMax

Setpoints == {"cooling", "heating"}

Within(value, low, high) == IF value < low THEN low ELSE IF value > high THEN high ELSE value

\* _apply_bounds, _apply_rate_limit and _apply_comfort_band
Bounded(step) ==
  IF step.actuator \in DOMAIN Bounds
  THEN Within(step.value, Bounds[step.actuator].minimum, Bounds[step.actuator].maximum)
  ELSE step.value

Limited(step, value, observed) ==
  IF step.actuator \in DOMAIN Bounds \cap Setpoints \cap DOMAIN observed[step.zone]
  THEN LET current == observed[step.zone][step.actuator]
           most == Bounds[step.actuator].maxStep
       IN  Within(value, current - most, current + most)
  ELSE value

Comfortable(step, value) ==
  IF step.actuator \in Setpoints THEN Within(value, ComfortMin, ComfortMax) ELSE value

\* _enforce_deadband: the cooling a slot, a zone at an offset, is left with; its
\* heating yields to that, the last heating step if there are several.
InSlot(steps, step, actuator) ==
  {i \in DOMAIN steps : /\ steps[i].zone = step.zone /\ steps[i].offset = step.offset
                        /\ steps[i].actuator = actuator}

CoolingOf(steps, step, observed) ==
  LET planned == InSlot(steps, step, "cooling")
  IN  IF planned # {} THEN {steps[Max(planned)].value}
      ELSE {observed[step.zone][a] : a \in {"cooling"} \cap DOMAIN observed[step.zone]}

Yielding(steps, observed) ==
  [i \in DOMAIN steps |->
     LET step == steps[i]
         crowding == {c \in CoolingOf(steps, step, observed) : c - step.value < MinDeadband}
     IN  IF /\ step.actuator = "heating" /\ i = Max(InSlot(steps, step, "heating"))
            /\ crowding # {}
         THEN [step EXCEPT !.value = Max(crowding) - MinDeadband] ELSE step]

\* review: steps for unknown zones are dropped, the others cut to size one after
\* the other, each against what was observed.
Review(steps, observed) ==
  LET known == SelectSeq(steps, LAMBDA s : s.zone \in DOMAIN observed)
  IN  Yielding([i \in DOMAIN known |->
                  [known[i] EXCEPT !.value =
                     Comfortable(known[i], Limited(known[i], Bounded(known[i]), observed))]],
               observed)
=============================================================================
