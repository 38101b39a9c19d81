------------------------------ MODULE Executor ------------------------------
(***************************************************************************)
(* The control path of one EnergyPlus timestep: guardian/executor.py with  *)
(* its watchdog, rate history and baseline fallback, the plan slot it      *)
(* reads, and the bus (agent/bus.py) that writes what it decides.          *)
(*                                                                         *)
(* The planner thread commits to the slot between timesteps; decide()      *)
(* takes one snapshot under the slot's lock and then works on its own      *)
(* copy, so the callback of one timestep is one step.  Time counts         *)
(* timesteps.                                                              *)
(***************************************************************************)
EXTENDS Guardian, PlanSlot, Watchdog, FiniteSetsExt

CONSTANTS
  NumZones,          \* the model's zones, in binding order
  ObservedZones,     \* those with an air-temperature handle
  CoolingSchedule,   \* zone -> schedule (ZoneBinding), or NoSchedule
  HeatingSchedule,
  NoSchedule,        \* an unbound actuator
  Baseline,          \* PreparedModel.constant_schedules: schedule -> value
  Handles,           \* the schedules whose actuator handle was found
  Plans,             \* what the planner may commit: [id, steps]
  Observations,      \* zone -> [occupancy, pmv], as EnergyPlus may report
  MaxClock, MaxCommits, MaxFaults    \* bounds of the instance

Zones == 1 .. NumZones
Schedules == DOMAIN Baseline
PlanIds == {p.id : p \in Plans}

Step == [offset : Nat, zone : Zones, actuator : Actuators, value : Reading]
Plan == [id : STRING, steps : Seq(Step)]
Observation == [Zones -> [occupancy : Reading, pmv : Reading]]

ASSUME ExecutorAssumption ==
  /\ NumZones \in Nat \ {0} /\ ObservedZones \subseteq Zones
  /\ Baseline \in [Schedules -> Int] /\ NoSchedule \notin Schedules
  /\ Handles \subseteq Schedules
  /\ CoolingSchedule \in [Zones -> Schedules \cup {NoSchedule}]
  /\ HeatingSchedule \in [Zones -> Schedules \cup {NoSchedule}]
  /\ \A y, z \in Zones : CoolingSchedule[y] = HeatingSchedule[z]
                           => CoolingSchedule[y] = NoSchedule
  /\ Plans \subseteq Plan /\ NoPlan \notin Plan /\ "watchdog" \notin PlanIds
  /\ Observations \subseteq Observation
  /\ MaxClock \in Nat /\ MaxCommits \in Nat /\ MaxFaults \in Nat

VARIABLES
  clock,     \* simulation time of the last timestep
  slot,      \* PlanSlot
  watchdog,  \* Watchdog
  seen,      \* Executor._last_journaled_generation
  anchors,   \* Executor._anchor: plan id -> first time it was in force
  history,   \* Executor.rate_history: zone -> window
  events,    \* Executor.guardian_events, each with the generation it is for
  applied,   \* SimulationBus._applied: the value each schedule holds
  decided,   \* what decide() returned last
  observed,  \* auxiliary: what that timestep observed
  wrote,     \* auxiliary: what the last timestep left at the actuators
  drivingSince,  \* auxiliary: when generation `seen` first drove
  faults     \* auxiliary: callbacks that raised so far

executor == <<watchdog, seen, anchors, history, events, decided, drivingSince>>
vars == <<clock, slot, applied, observed, wrote, faults, executor>>

NotSeen == -1
NoSteps == [a \in {} |-> 0]
NoDecision == [source |-> "none", generation |-> NotSeen,
              decision |-> "accepted", approved |-> [z \in Zones |-> NoSteps]]

Init ==
  /\ clock = 0
  /\ slot = EmptySlot
  /\ watchdog = NewWatchdog
  /\ seen = NotSeen
  /\ anchors = [p \in PlanIds |-> NotSeen]
  /\ history = [z \in Zones |-> << >>]
  /\ events = << >>
  /\ applied = Baseline
  /\ decided = NoDecision
  /\ observed \in Observations
  /\ wrote = "nothing"
  /\ drivingSince = 0
  /\ faults = 0

-----------------------------------------------------------------------------
(* Planner thread: PlanSlot.commit and PlanSlot.clear.                     *)

Commit(p) ==
  /\ slot.generation < MaxCommits
  /\ slot' = SlotCommit(slot, p)
  /\ UNCHANGED <<clock, applied, observed, wrote, faults, executor>>

Clear ==
  /\ slot.generation < MaxCommits
  /\ slot' = SlotClear(slot)
  /\ UNCHANGED <<clock, applied, observed, wrote, faults, executor>>

-----------------------------------------------------------------------------
(* Executor.decide                                                         *)

ScheduleOf(z, a) == IF a = "cooling" THEN CoolingSchedule[z]
                    ELSE IF a = "heating" THEN HeatingSchedule[z]
                    ELSE NoSchedule

\* SimulationBus.read_state: the thermostat of a zone reports the value its
\* schedule holds.
SetpointOf(z, a) == IF ScheduleOf(z, a) = NoSchedule THEN NonFinite
                    ELSE applied[ScheduleOf(z, a)]

ZoneReading(z, o) ==
  [occupancy |-> o[z].occupancy, pmv |-> o[z].pmv,
   cooling |-> SetpointOf(z, "cooling"), heating |-> SetpointOf(z, "heating")]

\* _hold: the steps of a plan that have come due, and of those the latest,
\* the later in the list on a tie.
Due(plan, z, a, elapsed) ==
  {i \in DOMAIN plan.steps : /\ plan.steps[i].offset <= elapsed
                             /\ plan.steps[i].zone = z
                             /\ plan.steps[i].actuator = a}

InForce(plan, z, a, elapsed) ==
  CHOOSE i \in Due(plan, z, a, elapsed) :
    \A j \in Due(plan, z, a, elapsed) :
      \/ plan.steps[j].offset < plan.steps[i].offset
      \/ plan.steps[j].offset = plan.steps[i].offset /\ j <= i

Hold(plan, z, elapsed) ==
  [a \in {b \in Actuators : Due(plan, z, b, elapsed) # {}} |->
     plan.steps[InForce(plan, z, a, elapsed)].value]

\* The held steps of a zone keep the order in which each first came due.
HeatingFirst(plan, z, elapsed) ==
  LET heating == Due(plan, z, "heating", elapsed)
      cooling == Due(plan, z, "cooling", elapsed)
  IN  heating # {} /\ cooling # {} /\ Min(heating) < Min(cooling)

\* _record_applied_rate for one zone: a sample per temperature step, in order.
RecordIf(h, t, steps, a) ==
  IF a \in DOMAIN steps THEN Record(h, t, steps[a]) ELSE h

RecordSteps(h, t, steps, heatingFirst) ==
  IF heatingFirst
  THEN RecordIf(RecordIf(h, t, steps, "heating"), t, steps, "cooling")
  ELSE RecordIf(RecordIf(h, t, steps, "cooling"), t, steps, "heating")

\* Mutant of BaselineSteps: the heating schedule is forgotten.
BaselineStepsCoolingOnly(z) ==
  [a \in {b \in {"cooling"} : ScheduleOf(z, b) # NoSchedule} |->
     Baseline[ScheduleOf(z, a)]]

\* guardian/fallback.py baseline_steps
BaselineSteps(z) ==
  [a \in {b \in TemperatureSetpoints : ScheduleOf(z, b) # NoSchedule} |->
     Baseline[ScheduleOf(z, a)]]

BaselinePlan == [source |-> "fallback", generation |-> NotSeen,
                 decision |-> "accepted",
                 approved |-> [z \in Zones |-> BaselineSteps(z)]]

\* Mutant of RecordBaseline: the fallback does not move the rate anchor.
ForgetBaseline(z, t) == history[z]

\* _record_baseline_rate for one zone
RecordBaseline(z, t) == RecordSteps(history[z], t, BaselineSteps(z), FALSE)

\* No plan, or the watchdog has tripped: the baseline, unfiltered.
DecideFallback(t) ==
  /\ ~SlotHolds(slot) \/ Check(watchdog, t).tripped
  /\ watchdog' = Check(watchdog, t)
  /\ events' = IF Trips(watchdog, t)
               THEN Append(events, [plan |-> "watchdog", decision |-> "rejected",
                                    generation |-> NotSeen])
               ELSE events
  /\ history' = [z \in Zones |-> RecordBaseline(z, t)]
  /\ decided' = BaselinePlan
  /\ UNCHANGED <<seen, anchors, drivingSince>>

\* Mutant of FreshCommit: freshness and journal per timestep.
EveryTimestepFresh == TRUE

\* A commit this executor has not journalled yet.
FreshCommit == slot.generation # seen

\* The plan in the slot, held and filtered zone by zone.  Only a generation
\* not seen before is journalled, and resets the watchdog unless rejected.
DecidePlan(t, o) ==
  /\ SlotHolds(slot) /\ ~Check(watchdog, t).tripped
  /\ LET plan == slot.plan
         anchor == IF anchors[plan.id] = NotSeen THEN t ELSE anchors[plan.id]
         held == [z \in Zones |-> Hold(plan, z, t - anchor)]
         verdicts == [z \in ObservedZones |->
                        Verdict(held[z], ZoneReading(z, o), history[z])]
         approved == [z \in Zones |-> IF z \in ObservedZones
                                      THEN verdicts[z].safe ELSE NoSteps]
     IN  /\ anchors' = [anchors EXCEPT ![plan.id] = anchor]
         /\ history' = [z \in Zones |->
                          RecordSteps(history[z], t, approved[z],
                                      HeatingFirst(plan, z, t - anchor))]
         /\ watchdog' = IF FreshCommit /\ Decision(verdicts) # "rejected"
                        THEN NoteValidPlan(t) ELSE Check(watchdog, t)
         /\ events' = IF FreshCommit
                      THEN Append(events, [plan |-> plan.id,
                                           decision |-> Decision(verdicts),
                                           generation |-> slot.generation])
                      ELSE events
         /\ seen' = slot.generation
         /\ drivingSince' = IF FreshCommit THEN t ELSE drivingSince
         /\ decided' = [source |-> "plan", generation |-> slot.generation,
                         decision |-> Decision(verdicts), approved |-> approved]

Decide(t, o) == DecideFallback(t) \/ DecidePlan(t, o)

-----------------------------------------------------------------------------
(* SimulationBus._on_timestep                                              *)

\* write_setpoints: steps are written in zone order, so the last zone wins a
\* schedule that several zones share.
Writers(s, approved) ==
  {z \in Zones : \E a \in DOMAIN approved[z] : ScheduleOf(z, a) = s}

Written(s, approved) ==
  LET z == Max(Writers(s, approved))
      a == IF CoolingSchedule[z] = s THEN "cooling" ELSE "heating"
  IN  approved[z][a]

Writing(approved) ==
  [s \in Schedules |-> IF s \in Handles /\ Writers(s, approved) # {}
                       THEN Written(s, approved) ELSE applied[s]]

\* What has been written when an actuator raises: the zones before one, and some
\* of the steps of that one.
UpTo(approved, zone, some) ==
  [z \in Zones |-> IF z < zone THEN approved[z]
                   ELSE IF z > zone THEN NoSteps
                   ELSE [a \in DOMAIN approved[z] \cap some |-> approved[z][a]]]

\* _actuate_baseline, from the callback's exception handler: it bypasses the
\* executor and leaves its rate history alone.  An actuator may raise here as
\* well, which ends it with some schedules restored.
ActuateBaseline(values) ==
  \E restored \in SUBSET Handles :
    /\ applied' = [s \in Schedules |-> IF s \in restored THEN Baseline[s] ELSE values[s]]
    /\ wrote' = IF restored = Handles THEN "baseline" ELSE "partly"

Tick(o) ==
  /\ clock < MaxClock
  /\ clock' = clock + 1
  /\ observed' = o
  /\ UNCHANGED slot

\* Executor.provide: decide, then write what was decided.
Timestep(o) ==
  /\ Tick(o)
  /\ Decide(clock + 1, o)
  /\ applied' = Writing(decided'.approved)
  /\ wrote' = "approved"
  /\ UNCHANGED faults

\* An exception before decide (recording the timestep's telemetry) or after it
\* (writing an actuator): the handler actuates the baseline.
FailedTimestep(o) ==
  /\ faults < MaxFaults
  /\ faults' = faults + 1
  /\ Tick(o)
  /\ \/ UNCHANGED executor /\ ActuateBaseline(applied)
     \/ /\ Decide(clock + 1, o)
        /\ \E zone \in Zones, some \in SUBSET Actuators :
             ActuateBaseline(Writing(UpTo(decided'.approved, zone, some)))

Next ==
  \/ \E p \in Plans : Commit(p)
  \/ Clear
  \/ \E o \in Observations : Timestep(o) \/ FailedTimestep(o)

Spec == Init /\ [][Next]_vars

-----------------------------------------------------------------------------
(* Properties.                                                             *)

\* approved steps: a value for some of the actuators
IsSteps(f) == DOMAIN f \subseteq Actuators /\ f \in [DOMAIN f -> Int]

Event == [plan : PlanIds \cup {"watchdog"}, generation : Int,
          decision : {"accepted", "clamped", "rejected"}]

\* Every variable has its type.
TypeOK ==
  /\ clock \in Nat /\ faults \in Nat /\ drivingSince \in Nat
  /\ slot \in [plan : Plans \cup {NoPlan}, generation : Nat]
  /\ watchdog \in [lastValid : Int, tripped : BOOLEAN]
  /\ seen \in Int
  /\ anchors \in [PlanIds -> Int]
  /\ history \in [Zones -> Seq(Sample)]
  /\ events \in Seq(Event)
  /\ applied \in [Schedules -> Int]
  /\ decided.source \in {"none", "plan", "fallback"} /\ decided.generation \in Int
  /\ DOMAIN decided.approved = Zones
  /\ \A z \in Zones : IsSteps(decided.approved[z])
  /\ observed \in Observations
  /\ wrote \in {"nothing", "approved", "baseline", "partly"}

\* What the actuators hold is the baseline or inside the widest envelope band,
\* whatever the planner commits, whichever zones share a schedule and whenever
\* the callback raises (Guardian._apply_envelope, _actuate_baseline).
ActuatorsBounded ==
  \A s \in Schedules :
    \/ applied[s] = Baseline[s]
    \/ applied[s] \in UnoccMin .. UnoccMax
    \/ applied[s] \in OccMin .. OccMax

DrivenByPlan == wrote = "approved" /\ decided.source = "plan"

\* No commit drives the building for longer than the watchdog's deadline after
\* it was first in force: a plan that just sits in the slot is not fresh
\* (Executor.decide, Watchdog.check).
NoStalePlanDrives ==
  DrivenByPlan => /\ decided.generation = seen
                  /\ clock - drivingSince <= DeadlineAfter

\* The journal has one row per generation that was decided on, in commit order,
\* the one that drives last; and once the watchdog has tripped its single row
\* ends the journal (Executor.decide, Watchdog.check).
JournalMatchesDecisions ==
  /\ \A i, j \in DOMAIN events :
       i < j /\ events[j].plan # "watchdog" => events[i].generation < events[j].generation
  /\ decided.source = "plan" =>
       /\ events # << >>
       /\ events[Len(events)].generation = decided.generation
  /\ watchdog.tripped <=> \E i \in DOMAIN events : events[i].plan = "watchdog"

\* Once the watchdog has forced the fallback and a timestep has run, every
\* reachable schedule that serves a zone holds its baseline, however many
\* plans are committed meanwhile; unless the handler of an exception has raised
\* as well, and then from the next timestep on (Executor.decide, fallback.baseline_plan).
TrippedHoldsBaseline ==
  watchdog.tripped /\ wrote # "partly" =>
    \A s \in Handles :
      (\E z \in Zones : s \in {CoolingSchedule[z], HeatingSchedule[z]})
        => applied[s] = Baseline[s]

\* After a plan drove, each schedule it wrote is inside the envelope of the
\* zone that wrote it last (Guardian._apply_envelope, write_setpoints).
WrittenInsideEnvelope ==
  DrivenByPlan =>
    \A s \in Handles :
      LET writers == Writers(s, decided.approved)
      IN  writers # {} => applied[s] \in Band(ZoneReading(Max(writers), observed))

\* The temperatures among some steps, and those a plan may go to from one of them.
Temperatures(steps) == {steps[a] : a \in DOMAIN steps \cap TemperatureSetpoints}

Reachable(v, from, o, h) ==
  LET oldest == {h[i].value : i \in DOMAIN h \cap {1}}
  IN  \/ v - from \in -MaxStep .. MaxStep
      \/ v > from /\ v \in {BandMin(o)} \cup {Envelope(x - MaxHour, o) : x \in oldest}
      \/ v < from /\ v \in {BandMax(o)} \cup {Envelope(x + MaxHour, o) : x \in oldest}

\* What a plan has approved for a zone is within the rate limit of a temperature
\* that was decided for it before, by a plan or by a fallback, and however many
\* timesteps have failed in between; it is further only where the guardian
\* itself takes it, to the near edge of the band the zone is in now, or back to
\* what the hour allows (_apply_rate, _apply_envelope, _record_baseline_rate).
RateRespected ==
  [][decided'.source = "plan" =>
       \A z \in ObservedZones : \A v \in Temperatures(decided'.approved[z]) :
         \/ Temperatures(decided.approved[z]) = {}
         \/ \E from \in Temperatures(decided.approved[z]) :
              Reachable(v, from, observed'[z], history[z])]_vars

\* A fresh plan in the slot of a tripped executor clears the trip.
FreshPlanClearsTrip ==
  [][watchdog.tripped /\ SlotHolds(slot) /\ FreshCommit
       /\ clock' # clock /\ wrote' = "approved" => ~watchdog'.tripped]_vars
=============================================================================
