-------------------------------- MODULE Bus --------------------------------
(***************************************************************************)
(* A run of EnergyPlus under the live bus (agent/bus.py): EnergyPlus calls *)
(* the bus back while it initialises, while it warms up and at every       *)
(* timestep; the callback reads, records, asks for a plan and writes it,   *)
(* and any call into the API, the store or the planner's side may raise.   *)
(* Within the callback the scheduler asks the event detector.              *)
(*                                                                         *)
(* Of an observation the model keeps what the detector looks at; the       *)
(* Executor module has the control path from an observation to a plan.     *)
(***************************************************************************)
EXTENDS Events

CONSTANTS
  Schedules,    \* PreparedModel.constant_schedules
  Baseline,     \* schedule -> the value prepare_idf gave it
  Binding,      \* zone -> actuator -> schedule, for those that are wired
  Offered,      \* schedules EnergyPlus has an actuator for
  Plans,        \* plans the provider may return: [id, steps]
  NoPlan,       \* it returns none
  Situations,   \* observations: [zones, kw]
  MaxClock,     \* bound: timesteps of simulation time
  MaxErrors,    \* bound: severe errors in the .err file
  MaxFaults     \* bound: callbacks that raise

ASSUME BusAssumption ==
  /\ Offered \subseteq Schedules
  /\ \A p \in Plans : Len(p.steps) \in Nat /\ DOMAIN p.steps = 1 .. Len(p.steps)
  /\ MaxClock \in Nat /\ MaxErrors \in Nat /\ MaxFaults \in Nat

VARIABLES
  run,        \* the run: "new", "running", "over" or "closed"
  api,        \* EnergyPlus: is the exchange populated, does its state exist
  file,       \* eplusout.err
  clock,      \* simulation time, in timesteps
  handles,    \* schedule -> its actuator handle, once they are fetched
  ready,      \* _handles_ready
  anchors,    \* _plan_anchor
  applied,    \* _applied, which is what the actuators hold
  control,    \* control_history, the schedule values of each entry
  detector,   \* DriftEventDetector
  lastHour,   \* Scheduler._last_hour, Never before the first plan
  fired,      \* auxiliary: when the detector fired
  faults,     \* auxiliary: callbacks that raised
  last        \* auxiliary: the last callback that drove the building, and how

scheduler == <<detector, lastHour, fired>>
vars == <<run, api, file, clock, handles, ready, anchors, applied, control,
          scheduler, faults, last>>

Nothing == [outcome |-> "nothing", plan |-> NoPlan, at |-> 0]

Init ==
  /\ run = "new" /\ api = [populated |-> FALSE, state |-> FALSE]
  /\ file = [mtime |-> 0, count |-> 0, readable |-> TRUE]
  /\ clock = 0
  /\ handles = [s \in Schedules |-> "none"] /\ ready = FALSE
  /\ anchors = [p \in {q.id : q \in Plans} |-> Never]
  /\ applied = Baseline /\ control = << >>
  /\ detector = NewDetector /\ lastHour = Never /\ fired = {}
  /\ faults = 0 /\ last = Nothing

-----------------------------------------------------------------------------
(* EnergyPlus (external).                                                  *)

\* The exchange becomes populated once, before warmup is over.
Populate ==
  /\ run = "running" /\ ~api.populated
  /\ api' = [api EXCEPT !.populated = TRUE]
  /\ UNCHANGED <<run, file, clock, handles, ready, anchors, applied, control,
                 scheduler, faults, last>>

\* EnergyPlus writes an error to its file, which someone may hold locked.
Complain(readable) ==
  /\ run = "running" /\ file.count < MaxErrors
  /\ file' = [mtime |-> file.mtime + 1, count |-> file.count + 1, readable |-> readable]
  /\ UNCHANGED <<run, api, clock, handles, ready, anchors, applied, control,
                 scheduler, faults, last>>

-----------------------------------------------------------------------------
(* SimulationBus.run                                                       *)

\* The state is created, every variable requested, the callback registered and
\* the run opened in the store; then EnergyPlus runs.
Start ==
  /\ run = "new"
  /\ run' = "running" /\ api' = [api EXCEPT !.state = TRUE]
  /\ UNCHANGED <<file, clock, handles, ready, anchors, applied, control,
                 scheduler, faults, last>>

\* run_energyplus returns, or raises: the last batch is flushed, and the state
\* is deleted even if that raises.
Finish ==
  /\ run = "running"
  /\ run' \in {"over", "closed"}
  /\ api' = [api EXCEPT !.state = FALSE]
  /\ UNCHANGED <<file, clock, handles, ready, anchors, applied, control,
                 scheduler, faults, last>>

-----------------------------------------------------------------------------
(* Handles.                                                                *)

\* get_actuator_handle: -1 for what the model does not have, and for everything
\* while the exchange is not populated.
Fetched ==
  [s \in Schedules |-> IF api.populated /\ s \in Offered THEN "good" ELSE "bad"]

\* Mutant of MayObserve: the callback does not ask whether there is data yet.
MayObserveAlways == TRUE

\* api_data_fully_ready
MayObserve == api.populated

\* The callback finds no calendar yet: it fetches the handles and reads nothing.
\* (Without data and during warmup it does nothing at all.  Nor does it when the
\* fetching raises: no handle counts as fetched, and the fallback needs them.)
Fetch ==
  /\ run = "running" /\ MayObserve /\ ~ready
  /\ handles' = Fetched /\ ready' = TRUE
  /\ UNCHANGED <<run, api, file, clock, anchors, applied, control, scheduler, faults, last>>

-----------------------------------------------------------------------------
(* The provider: Scheduler.on_timestep as far as the detector goes.        *)

Hour(t) == t \div StepsPerHour

\* _due: an hour that has begun comes first, and while the scheduler cannot
\* start a cycle for it the detector is not asked.
Ask(t, s, free) ==
  IF lastHour = Never \/ Hour(t) > lastHour
  THEN /\ lastHour' = IF free THEN Hour(t) ELSE lastHour
       /\ UNCHANGED <<detector, fired>>
  ELSE LET asked == ShouldTrigger(detector, t, s, file)
       IN  /\ detector' = asked.detector
           /\ fired' = IF asked.fires THEN fired \cup {t} ELSE fired
           /\ UNCHANGED lastHour

-----------------------------------------------------------------------------
(* write_setpoints                                                         *)

\* The simulation time at which the bus first saw the plan.
Anchor(plan, t) == IF anchors[plan.id] = Never THEN t ELSE anchors[plan.id]

\* Of the steps that have come due, the latest for each zone and actuator; on
\* a tie the later in the list.
DueSteps(plan, elapsed) ==
  {i \in DOMAIN plan.steps : plan.steps[i].offset <= elapsed}

Same(p, q) == p.zone = q.zone /\ p.actuator = q.actuator

Effective(plan, elapsed) ==
  {i \in DueSteps(plan, elapsed) :
     \A j \in DueSteps(plan, elapsed) \ {i} :
       Same(plan.steps[i], plan.steps[j]) =>
         \/ plan.steps[j].offset < plan.steps[i].offset
         \/ plan.steps[j].offset = plan.steps[i].offset /\ j < i}

\* _schedule_for: the schedule that drives a zone's actuator, if any does.
Wired(step) ==
  step.zone \in DOMAIN Binding /\ step.actuator \in DOMAIN Binding[step.zone]
ScheduleFor(step) == Binding[step.zone][step.actuator]

\* The place of a step in the order of writing: where its zone and actuator
\* first came due.
Place(plan, i, elapsed) ==
  Min({j \in DueSteps(plan, elapsed) : Same(plan.steps[i], plan.steps[j])})

\* The steps that write schedule s, the last of which prevails.
Writers(plan, s, elapsed) ==
  {i \in Effective(plan, elapsed) :
     Wired(plan.steps[i]) /\ ScheduleFor(plan.steps[i]) = s}

Prevailing(plan, s, elapsed) ==
  LET w == Writers(plan, s, elapsed)
      i == CHOOSE i \in w : \A j \in w : Place(plan, j, elapsed) <= Place(plan, i, elapsed)
  IN  plan.steps[i].value

\* What the schedules hold when those in some set have been written.
Driven(values, plan, elapsed, some) ==
  [s \in Schedules |->
     IF s \in some /\ handles'[s] = "good" /\ Writers(plan, s, elapsed) # {}
     THEN Prevailing(plan, s, elapsed) ELSE values[s]]

\* Mutant of Noted: only the first control state is.
NotedOnce(series, values) == IF series = << >> THEN <<values>> ELSE series

\* _note_control_state: only a change is.
Noted(series, values) ==
  IF series # << >> /\ series[Len(series)] = values THEN series
  ELSE Append(series, values)

-----------------------------------------------------------------------------
(* _on_timestep with something to observe.                                 *)

Observe ==
  /\ run = "running" /\ MayObserve /\ clock < MaxClock
  /\ handles' = IF ready THEN handles ELSE Fetched
  /\ ready' = TRUE
  /\ clock' = clock + 1
  /\ UNCHANGED <<run, api, file>>

\* The observation is recorded, the scheduler asked, and the plan written.
Timestep(s, free, plan) ==
  /\ Observe
  /\ Ask(clock + 1, s, free)
  /\ IF plan = NoPlan THEN UNCHANGED <<anchors, applied, control, last>>
     ELSE LET anchor == Anchor(plan, clock + 1)
          IN  /\ anchors' = [anchors EXCEPT ![plan.id] = anchor]
              /\ applied' = Driven(applied, plan, clock + 1 - anchor, Schedules)
              /\ control' = Noted(control, applied')
              /\ last' = [outcome |-> "driven", plan |-> plan, at |-> clock + 1]
  /\ UNCHANGED faults

Restored(values, some) ==
  [s \in Schedules |->
     IF s \in some /\ handles'[s] = "good" THEN Baseline[s] ELSE values[s]]

\* _actuate_baseline: each schedule back to its baseline.
Fallback(values) ==
  /\ applied' = Restored(values, Schedules)
  /\ control' = Noted(control, applied')
  /\ last' = [outcome |-> "fallback", plan |-> NoPlan, at |-> clock + 1]

\* It raises as well, with some schedules restored and nothing noted.
FallbackRaises(values) ==
  /\ \E some \in SUBSET Schedules : applied' = Restored(values, some)
  /\ UNCHANGED control
  /\ last' = [outcome |-> "uncontrolled", plan |-> NoPlan, at |-> clock + 1]

\* Raised before anything is written: while observing or recording, or once the
\* scheduler has been asked.
RaiseBefore(s, free) ==
  /\ UNCHANGED scheduler \/ Ask(clock + 1, s, free)
  /\ UNCHANGED anchors
  /\ Fallback(applied) \/ FallbackRaises(applied)

\* Raised with some of a plan's schedules written.
RaiseWriting(s, free, plan) ==
  LET anchor == Anchor(plan, clock + 1)
  IN  /\ Ask(clock + 1, s, free)
      /\ anchors' = [anchors EXCEPT ![plan.id] = anchor]
      /\ \E some \in SUBSET Schedules :
           LET values == Driven(applied, plan, clock + 1 - anchor, some)
           IN  Fallback(values) \/ FallbackRaises(values)

\* Nothing escapes the callback: whatever was raised, the baseline is restored.
FailedTimestep(s, free, plan) ==
  /\ faults < MaxFaults /\ faults' = faults + 1
  /\ Observe
  /\ \/ RaiseBefore(s, free)
     \/ plan # NoPlan /\ RaiseWriting(s, free, plan)

Next ==
  \/ Start \/ Finish \/ Populate \/ Fetch
  \/ \E readable \in BOOLEAN : Complain(readable)
  \/ \E s \in Situations, free \in BOOLEAN, plan \in Plans \cup {NoPlan} :
       Timestep(s, free, plan) \/ FailedTimestep(s, free, plan)

Spec == Init /\ [][Next]_vars

-----------------------------------------------------------------------------
(* Properties.                                                             *)

\* Every schedule EnergyPlus offers and a step that has come due addresses
\* holds the value of one such step after the plan was driven, from the first
\* timestep of the run on (_on_timestep, _fetch_handles, write_setpoints).
PlanInForce ==
  last.outcome = "driven" =>
    \A s \in Offered :
      LET w == Writers(last.plan, s, last.at - anchors[last.plan.id])
      IN  w # {} => \E i \in w : applied[s] = last.plan.steps[i].value

\* The control history is the series of the building's control states: no
\* entry repeats the one before, and the last is what the actuators hold,
\* unless the fallback itself failed (_note_control_state, _actuate_baseline).
ControlHistoryKept ==
  /\ \A i \in 2 .. Len(control) : control[i] # control[i - 1]
  /\ last.outcome \in {"driven", "fallback"} => control # << >> /\ control[Len(control)] = applied

\* What the detector takes note of it has reported: whenever a drift reaches its
\* second step, a band change becomes imminent or an error is counted, a trigger
\* fires or one fired less than the debounce before (should_trigger, _evaluate).
LatchedIsHeard ==
  [][(\/ detector' # detector /\ detector'.driftRun >= DriftSteps
      \/ detector'.imminent \ detector.imminent # {}
      \/ detector'.errSeen > detector.errSeen)
     => \E t \in fired' : clock' - t < Debounce]_vars
=============================================================================
