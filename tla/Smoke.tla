-------------------------------- MODULE Smoke --------------------------------
(***************************************************************************)
(* The smoke test of the loop (experiments/smoke_roundtrip.py) in receding *)
(* mode: a run without a plan, a run with a setback the supervisor has     *)
(* reviewed, and a verdict on the telemetry of the two.  Both runs are the *)
(* driver's, module Receding, which is also run by itself: with any plans, *)
(* and with those of the planner, module RecedingArm.                      *)
(***************************************************************************)
EXTENDS RecedingArm, Supervisor

CONSTANTS
  SetbackStart,         \* SETBACK_START_HOUR, as a slot of the day
  SetbackEnd,           \* SETBACK_END_HOUR
  SetbackDelta,         \* SETBACK_DELTA_C
  SeedGap,              \* what the seed state has heating below cooling
  MinSetpointResponse,  \* MIN_SETPOINT_RESPONSE_C, in tenths of a value's unit
  MinTempResponse,      \* MIN_TEMP_RESPONSE_C, in tenths
  IdleTemp,             \* the temperature of a building that needs no cooling
  SetbackId,            \* the plan_id of the setback
  NoVerdict             \* the test is not over

Cooled == {z \in Zones : "cooling" \in DOMAIN Binding[z]}

ASSUME SmokeAssumption ==
  Cooled # {} /\ \A z \in Cooled : Binding[z].cooling \in DOMAIN Baseline

VARIABLES
  arm,        \* "driver" or "planner" for a run by itself, or the arm of the test
  loaded,     \* does the building need cooling
  telemetry,  \* arm -> its readings in the store: [time, zone, cooling, temp]
  verdict     \* RoundTripResult

smoke == <<arm, loaded, telemetry, verdict>>
allVars == <<vars, smoke>>

\* EnergyPlus takes the very year the test starts in, 2017, which begins on the
\* weekday that has 2017 in its table (DEFAULT_START).
SmokeInit ==
  /\ Init
  /\ arm \in {"driver", "planner", "control"} /\ loaded \in BOOLEAN
  /\ arm = "control" => shift = 0
  /\ telemetry = [a \in {"control", "agent"} |-> {}]
  /\ verdict = NoVerdict

-----------------------------------------------------------------------------
(* The plan.                                                               *)

\* _baseline_cooling: the mean, here in whole units, over the zones that have a
\* cooling schedule.
BaselineCooling ==
  MapThenSumSet(LAMBDA z : Baseline[Binding[z].cooling], Cooled) \div Cardinality(Cooled)

\* build_dumb_plan: up at one hour and back at another, in every such zone.
DumbPlan ==
  LET step(z, offset, value) ==
        [offset |-> offset, zone |-> z, actuator |-> "cooling", value |-> value]
      zones == SetToSortSeq(Cooled, <)
  IN  FlattenSeq([i \in DOMAIN zones |->
                    <<step(zones[i], SetbackStart, BaselineCooling + SetbackDelta),
                      step(zones[i], SetbackEnd, BaselineCooling)>>])

\* _seed_state
SeedState ==
  [z \in Zones |-> [cooling |-> BaselineCooling, heating |-> BaselineCooling - SeedGap]]

Approved == Review(DumbPlan, SeedState)

-----------------------------------------------------------------------------
(* _run_arm                                                                *)

\* The provider returns the same plan before every chunk.
KeepPlan == Write(SetbackId, Approved)

\* There is a snapshot writer for the agent's arm only.
NoSnapshot ==
  /\ pc = "snapshot" /\ pc' = "write"
  /\ UNCHANGED <<total, shift, chunk, anchors, active, staged, lastTime, occupied, model,
                 snapshot, rows>>

\* EnergyPlus (external): a sizing day and every slot of the chunk, at its end.
\* The zones are at their cooling setpoint, or below it if nothing cools them.
Reported(k) ==
  {[at |-> -1, runPeriod |-> FALSE, people |-> TRUE]}
  \cup {[at |-> t, runPeriod |-> TRUE, people |-> TRUE] : t \in 1 .. Days(k) * Day}

Reading(z, time) ==
  LET cooling == ValueAt(model[Binding[z].cooling], (time - 1) % Day)
  IN  [time |-> time, zone |-> z, cooling |-> cooling,
       temp |-> IF loaded THEN cooling ELSE IdleTemp]

SimulateArm ==
  /\ ChunkRuns(Reported(chunk))
  /\ telemetry' = [telemetry EXCEPT ![arm] =
       @ \cup {Reading(z, StartOf(chunk) + r.at) : z \in Cooled, r \in Read(Reported(chunk))}]
  /\ UNCHANGED <<arm, loaded, verdict>>

\* A driver of its own for the other arm.
NextArm ==
  /\ arm = "control" /\ pc = "done"
  /\ arm' = "agent"
  /\ pc' = "plan" /\ chunk' = 0
  /\ anchors' = << >> /\ active' = NoPlan /\ staged' = Baseline
  /\ lastTime' = -1 /\ occupied' = FALSE
  /\ model' = << >> /\ snapshot' = << >>
  /\ rows' = << >>
  /\ UNCHANGED <<total, shift, loaded, telemetry, verdict>>

\* An arm that failed ends the test.
ArmRaises ==
  /\ pc = "failed"
  /\ arm' = "raised"
  /\ UNCHANGED <<vars, loaded, telemetry, verdict>>

-----------------------------------------------------------------------------
(* evaluate_roundtrip                                                      *)

\* _window: the readings of those hours, of every day.
Window(frame) ==
  {r \in frame : SetbackStart <= r.time % Day /\ r.time % Day < SetbackEnd}

\* Does the mean over the window differ by so many tenths?
Response(control, agent, field, tenths) ==
  LET sum(frame) == MapThenSumSet(LAMBDA r : r[field], frame)
      n == Cardinality(control)
      m == Cardinality(agent)
  IN  n > 0 /\ m > 0 /\ 10 * (sum(agent) * n - sum(control) * m) >= tenths * n * m

Evaluate(control, agent) ==
  [moved |-> Response(Window(control), Window(agent), "cooling", MinSetpointResponse),
   responded |-> Response(Window(control), Window(agent), "temp", MinTempResponse)]

Judge ==
  /\ arm = "agent" /\ pc = "done"
  /\ arm' = "over"
  /\ verdict' = Evaluate(telemetry.control, telemetry.agent)
  /\ UNCHANGED <<vars, loaded, telemetry>>

SmokeNext ==
  \/ arm = "driver" /\ Next /\ UNCHANGED smoke
  \/ arm = "planner" /\ ArmNext /\ UNCHANGED smoke
  \/ arm = "control" /\ (NoNewPlan \/ NoSnapshot) /\ UNCHANGED smoke
  \/ arm = "agent" /\ (KeepPlan \/ Snapshot) /\ UNCHANGED smoke
  \/ /\ arm \in {"control", "agent"}
     /\ \/ (WriteModel \/ ChunkFails) /\ UNCHANGED smoke
        \/ SimulateArm \/ ArmRaises
  \/ NextArm \/ Judge

SmokeSpec == SmokeInit /\ [][SmokeNext]_allVars

-----------------------------------------------------------------------------
(* Properties.                                                             *)

\* The verdict says that the setpoints moved, and the building with them, just
\* when the setback, cut to the step the supervisor allows and made on the first
\* day only, comes to the threshold in the mean over the window of all the days
\* (review, write_setpoints, _write_schedules, evaluate_roundtrip).
VerdictOfTheSetback ==
  verdict # NoVerdict =>
    LET window == {t \in 1 .. total * Day : SetbackStart <= t % Day /\ t % Day < SetbackEnd}
        raised == {t \in window : SetbackStart <= t - 1 /\ t - 1 < SetbackEnd}
        tenths == 10 * Least(SetbackDelta, Bounds["cooling"].maxStep) * Cardinality(raised)
    IN  /\ verdict.moved <=> tenths >= MinSetpointResponse * Cardinality(window)
        /\ verdict.responded <=> loaded /\ tenths >= MinTempResponse * Cardinality(window)
=============================================================================
