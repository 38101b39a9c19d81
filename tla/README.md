# A verification project for HIVE

HIVE drives the thermostats of a building simulated by EnergyPlus with plans a language model
writes. The plans are untrusted: a deterministic guardian filters every value that reaches an
actuator, a watchdog takes over when planning dies, and a store records what happened. This
directory models that program in TLA+. The source paths below are relative to the repository.

## 1. The system

### Components, their state, what they promise

| Component | State | Operations | What makes it correct |
|---|---|---|---|
| `guardian/core.py`, `limits.py` | rate history: one window of applied values per zone | `filter`, `approve`, `record` | a value let through is in the envelope of the observed occupancy, whatever plan and readings say; consecutive values respect the rate limits; filtering is idempotent |
| `common/planslot.py` | the latest plan, a generation | `commit`, `snapshot`, `clear` (one lock) | a reader sees one commit, whole |
| `guardian/watchdog.py` | last valid plan, tripped | `check`, `note_valid_plan` | no plan drives for longer than the deadline without renewal |
| `guardian/fallback.py` | none | `baseline_plan` | every bound actuator goes to its baseline |
| `guardian/executor.py` | anchors, rate history, last generation, events | `decide`, `provide`, `events_snapshot`, `drain_events` | one journal row per commit decided on; baseline when there is no plan or the watchdog tripped; the rate anchor is what was decided last |
| `agent/bus.py` | handles, applied values, counters | `run`, `_on_timestep`, `read_state`, `write_setpoints`, `_actuate_baseline` | nothing escapes to EnergyPlus; what the actuators hold is the executor's decision or the baseline |
| `agent/scheduler.py` | epoch, flight in progress, statistics | `on_timestep`, `_run_cycle`, `_resolve_plan` | one cycle per due trigger; late results are discarded; each cycle has one outcome; planning never stops |
| `agent/cache.py` | entries, counters | `should_hold`, `lookup`, `store`, `reuse` | a hold keeps the plan; counters count |
| `agent/feedback.py` | events seen, pending complaint | `observe`, `resolve` | a complaint stays pending until a plan corrects it |
| `agent/events.py` | drift run, power window, imminent band changes, error count, last fire | `should_trigger` | what the detector takes note of is reported, or was debounced |
| `agent/planner.py`, `repair.py` | none | one chat with one repair retry | a valid object or nothing; each call is logged |
| `common/store.py` | row buffer, connection | `record_timestep`, `flush`, `write_*`, `close` | rows are written once and in order; a plan is never ahead of its telemetry |
| `common/models.py` | none | `to_setpoint_plan`, contracts, `SnapshotManifest` | lowering closes every window that opens |
| `simulation/snapshots.py`, `patching.py` | manifest and version files | `commit`, `apply_patch`, `rollback` | one append-only series whose listed models never change |
| `simulation/receding.py` | active plan, staged values, last state | `run`, `write_setpoints`, `breakpoints_for_chunk`, `compact_fields` | the schedules of a chunk are the plan's; what is recorded is the run period's |
| `experiments/ab.py` | one comparison: arm directories, manifest | `run_ab`, `run_agent_arm`, `prepare_arm_idf` | every arm runs under the same conditions |
| `simulation/prepare_idf.py`, `run_baseline.py` | none | `prepare`, `patch_idf`, `hottest_week` | the prepared model reports what the readers read |
| `experiments/kpis.py`, `report.py` | none | `compute_kpis`, `build_report` | each reading counts where it should |
| `experiments/smoke_roundtrip.py` | two runs' telemetry | `run_smoke`, `evaluate_roundtrip` | the verdict says what the setback did |
| `experiments/self_heal_demo.py` | a repair session | `run_self_heal` | it resumes on a model that runs |
| `experiments/endurance.py` | checkpoint file | `run_endurance`, resume | the days of one run are covered in order, each once |
| `guardian/supervisor.py` | none | `review` | used by the smoke test only |

The dashboard only reads, and so does the MCP server but for `patch_model`.

### How they interact

EnergyPlus calls `SimulationBus._on_timestep` on its own thread at each timestep. The callback
reads the state, records telemetry, calls the harness's provider, which asks
`Scheduler.on_timestep` (it may start a daemon thread) and then `Executor.provide`; the bus writes
what comes back. An exception anywhere actuates the baseline. Each worker thread resolves one
planning cycle (hold, cache, or digest and model), checks its epoch, writes its plan to the store
and commits it to the plan slot. The slot, the executor's event list, the cache, the feedback
tracker and the store are shared by the callback thread and the workers. At the end the harness
waits a while for the current worker, drains the events to the store and closes it.

Around a live run there are other drivers. `run_ab` prepares the model once per arm, runs the arms
one after the other and writes a manifest; the report reads the databases EnergyPlus left in the
arms' directories. `run_endurance` runs agent arms in chunks with a checkpoint between them.
`RecedingHorizonDriver` calls no API during a simulation: it renders the plan into the schedules of
a chunk's model, simulates, and reads the results back before the planner is asked again. The
snapshot writer, the patch tool and the self-heal demo write versions of the model into one
directory with one manifest.

### Where it is hard

* A worker that outran its budget is preempted by its epoch only. Its thread runs on, beside its
  successor, over shared state of which some is locked and some is not.
* The epoch check, the store's row and the slot's commit are separate steps.
* Time runs on three clocks: simulation time (watchdog, debounce, anchors), wall-clock time
  (budget, model timeout), and commits (generations).
* The callback may raise at any point, and its handler acts without the executor.
* Zones share schedules, and cooling and heating share a rate history.
* A store transaction may fail, the process may be killed, and threads may outlive the store.
* Two modes render one plan: the bus writes steps as they come due, the receding driver compacts
  them into daily profiles, and a plan outlives the chunk it was made for.
* Processes that share a manifest each load it at a time of their own and write the whole file.
* One meter is reported at several frequencies, and readers select by name.

`PROJECT.json` lists each hazard with its line and the properties that catch it.

## 2. The modules

| Module | Models | Notes |
|---|---|---|
| `Guardian` | `guardian/core.py`, `limits.py` | operators only; integers for temperatures, PMV and occupancy |
| `PlanSlot` | `common/planslot.py` | operators on the slot |
| `Watchdog` | `guardian/watchdog.py` | operators on its two fields |
| `Executor` | `executor.py`, `fallback.py`, the bus's control path | extends the three above; one action per callback |
| `Scheduler` | `scheduler.py`, `cache.py`, `feedback.py` | extends `PlanSlot`; one program counter per worker |
| `ControlLoop` | `experiments/ab.py` | composes `Scheduler`, `Watchdog` and the executor's view of them |
| `Store` | `common/store.py` and its users over a run | one step per transaction |
| `Events` | `agent/events.py` | operators: the next detector and its answer |
| `Bus` | `agent/bus.py` from start to end of a run | extends `Events`; one action per callback |
| `Lowering` | `Plan.to_setpoint_plan` of `common/models.py` | operators on sequences |
| `Receding` | `simulation/receding.py` | extends `Lowering`; one action per stage of a chunk |
| `RecedingArm` | `experiments/receding_ab.py` | extends `Receding`; what the provider of the agent's arm returns |
| `Supervisor` | `guardian/supervisor.py` | operators on sequences of steps |
| `Smoke` | `experiments/smoke_roundtrip.py`, receding mode | extends `RecedingArm` and `Supervisor` |
| `Versions` | `snapshots.py`, `patching.py`, `repair.py`, `self_heal_demo.py`, `patch_model` | three processes over files and manifest |
| `VersionSeries` | what the version series promises | abstract; `Versions` implements it |
| `Endurance` | `experiments/endurance.py` | one process, its checkpoint, kills |
| `Progress` | what a checkpointed run promises | abstract; `Endurance` implements it |
| `Preparation` | `prepare_idf.py`, `run_baseline.py`, `prepare_arm_idf` | operators on a record of an input file |
| `Metering` | `kpis.py`, `report.py` | operators on sets of readings |
| `Arms` | `run_ab` and the report on it | extends the two above |
| `ExecutorProofs` | | theorems about the filter and the executor |
| `ControlLoopProofs` | | theorems about the scheduler and the live loop |
| `RecedingProofs` | | theorems about lowering and the receding driver |
| `StoreProofs`, `BusProofs` | | theorems about the store and the bus |
| `VersionsProofs`, `EnduranceProofs` | | theorems about versions and the endurance runner |
| `ArmsProofs` | | theorems about the comparison and its report |
| `MC*` | | instances for TLC |

Two independent families share no state: the live loop (`Guardian` to `Store`, and `Bus` around
it) and the batch drivers. `Bus` and `Executor` both model a callback, at different grains: in `Bus` a
plan is whatever the provider returns and the handles, anchors, write order and failures are
explicit; in `Executor` the handles are there and the decision is explicit.

### Guardian

`SafeValue` is `_filter_step`'s chain for a temperature setpoint: envelope, PMV guard, per-step
clamp, per-hour clamp, and the envelope again. `NonFinite` is a reading that is `None`, NaN or
infinite, all of which the code skips alike; an infinite occupancy counts as occupied in the code
and as any positive number here. The rate history is a sequence of time-stamped samples, pruned
by `Prune` as `record` does. Reasons and wording are left out. `Verdict` reports whether a zone
was accepted, clipped or rejected, and `Decision` reduces the zones to what `approve` reports.

### Executor

`Timestep(o)` is one callback with observation `o`: `Check` of the watchdog, one snapshot of the
slot, then either the baseline (`DecideFallback`) or the plan (`DecidePlan`), then the write. It
is one step because nothing it reads after the snapshot is shared; the planner's commits and
clears are steps between callbacks. `Hold` picks, for each actuator, the latest step due, as
`_hold` does; `RecordSteps` records the approved values in the order the steps come in, which
matters because cooling and heating share a window. `Writing` writes zone by zone, the last
writer of a schedule winning. `FailedTimestep` is an exception and its handler: the executor has not
decided, or it has and some of what it decided has been written (`UpTo`); then the handler restores
the baseline, and since an actuator may raise in it as well (`bus.py:546`, which swallows that), any
part of the schedules may be left out (`ActuateBaseline`, `wrote` = "partly"). An exception in the
middle of `decide` itself, which would need a malformed plan to pass the contracts, is not modelled.
Setpoints a zone reports are
the values its schedules hold, so that the loop from written to observed values is closed; a
zone's occupancy and PMV are free at every timestep. Time is counted in timesteps.

Auxiliary variables: `observed`, `wrote`, `drivingSince`, `faults`.

### Scheduler

A trigger starts cycle `epoch + 1` as a thread at `resolve`, which then goes to `check` with a
cached plan, to `finally` on a hold, or through `digest`, `observe`, `capture` and `infer`; a plan that
passes `check` goes through `journal`, `feedback` and `commit` to `count`, and every path ends in
`finally`. A step is what the thread does between two accesses to shared state. `hourDue` stands
for the comparison of the current hour with `_last_hour`: `NewHour` sets it at any time.
`OutrunBudget` stands for wall-clock time: the flight's budget is spent at any time, at most
`MaxTimeouts` times. `Judge` is the part of the executor the feedback depends on. A building state
is reduced to the cache key it falls on, whether comfort pressure is below the hold threshold, and
whether the event detector would fire. The digest provider copies the executor's events under their lock
(`TakeSnapshot`) and then shows the copy to the tracker, which has no lock (`Observe`): between the
two another worker may show it a longer copy, whereupon `seen` goes back and a complaint already
resolved is latched again (`feedback.py:47`). That takes two workers, so what is said of complaints
under the premise of no preemption holds all the same.

### ControlLoop

The callback is two steps, `Schedule` and then one of the `Decide` actions, between which workers
move. Hours come from the clock (`StepsPerHour`), and the watchdog counts the same clock. The
executor's guardian decision is chosen freely from `Decisions`.

### Store

`Transaction` gives the outcomes of one `_transaction`: done; refused, because the connection is
closed or a transaction is open; rolled back; or left open, when the COMMIT itself fails. `Flush`
empties the buffer and then tries. `FlushFirst` and `InsertPlan` are the two halves of
`write_plan`, between which the lock is free. A kill (`Crash`) may come anywhere; what was
committed stays (WAL, and the process dies, not the machine). The executor's events are the verdicts
on committed plans (`Judge`) and, once, the watchdog's (`Trip`, `executor.py:151`), which has the
plan id `watchdog` and no row in `plans`; after it `decide` returns before it would judge
(`executor.py:159`). `drain_events` writes both kinds (`DrainEvent`).

### Events and Bus

`Evaluate` asks the four triggers in the code's order, and the first that answers keeps the others
from taking note of the timestep (`AfterFile`, `AfterDrift`, `AfterPower`, `Soon`). `ShouldTrigger`
adds the debounce. PMV and edge distances are in tenths; the one-minute throttle on reading the
error file is shorter than any timestep and left out. `Ask` is `_due`: an hour that has begun goes
first and the detector is not asked.

In `Bus`, `Populate` and `Complain` are EnergyPlus. `Fetch` is a callback that finds the exchange
ready and no calendar yet; `Timestep` is a whole callback, with `Ask` before the write, and
`FailedTimestep` one that raises: before anything is written, or with any subset of the schedules
written, and the fallback that follows may itself raise with any subset restored. `Effective`,
`Place` and `Prevailing` are the effective step of each zone and actuator and the order in which
they are written. A handle is "good" or "bad", `applied` is both the
field and what the actuators hold, and the final flush may raise, so that the run is over but its row
is not closed (`Finish`). Auxiliary: `fired`, `faults`, `last`.

### Lowering, Receding, RecedingArm

Time is in slots of a day. `StepsOf` lowers one action, with the offset clamp and the revert that
is dropped when both ends fall together. A chunk goes through `plan`, `snapshot`, `write`,
`simulate`. In `Receding` the provider returns any plan of `Offers` (`Write`), or none
(`NoNewPlan`), or raises (`ProviderRaises`); a plan is anchored when its id is first written and not
again (`Anchored`, the code's `setdefault`). `Points`, `Collapsed` and `Compact` follow the functions
that render a plan. The lists of
breakpoints in the code are sets of points here, ordered by time and, at one time, by place in the
plan (`Earlier`); where the code sorts the pairs of minute and value, and the last of one minute
wins, `Compact` takes the greatest value. `ValueAt` is EnergyPlus's reading of a compact schedule.
The day of the week of a chunk decides whether there are people, which is an input (`Results`);
what EnergyPlus reports on the run period is of the chunk's days (`OfChunk`).

There are two calendars. Chunks are dated by the driver, from the year of its start date: 2001 in
`receding_ab.py:34`, 2017 in the smoke test. A run period is given a weekday and no year
(`receding.py:470`), so EnergyPlus takes a year in which the date falls on that weekday, and that year
is in its results (the committed `reports/results.json`, of an A/B run, has 2015), from which
`read_chunk_results` builds the times of its rows (`receding.py:571`). `shift` is how many days the
results are ahead: `Ahead` is added to the time of every row, and so to the time of the planner's
question (`Now`) and to the anchor of a plan made after the first chunk. The instances have a shift
of nothing, as in the smoke test, whose 2017 is the year EnergyPlus takes for its weekday, and one of
more than the run, as years are.

`RecedingArm` is the provider of the agent's arm: `Lowered` on the planner's actions, the guardian
zone by zone in the order of the observation, and `approve`, which lets every step act at once
(`core.py:347`). The guardian's limits are clamps, and all of them together one, to a range that is an
input (`Clips`; module `Guardian` has them one by one).

### Supervisor, Smoke

The supervisor's review is a chain on each step and then the deadband. The smoke test uses the
driver twice, without a plan and with the reviewed one, which its provider returns before every
chunk; both arms are the actions of `Receding` with `KeepPlan` and `NoSnapshot` in the places that
differ, `driver` and `planner` are the driver by itself, with any plans and with those of
`RecedingArm`, and `Judge` is the verdict. EnergyPlus is reduced to
zones at their cooling setpoint, or below it when nothing cools them. The plan has cooling steps
only, so the review's deadband is modelled but not exercised.

### Versions

A model is what one schedule object holds. Processes are the run with its snapshot writer, the
patch tool, and self-heal; each step is what happens between two accesses to the directory, so that
a kill falls between a file and its entry, or tears the manifest, which is written in place.
`CommitState` appends to the manifest the writer loaded, `Patch` and `Rollback` to the one on disk.
`MayBegin` with `Overlap` FALSE makes processes take turns, which the run checks and the theorems
assume; `Updated` is the change of some fields of a record or of some places of a directory.

### Endurance

`Step` is the process; `Kill` ends it anywhere; `StartRun` and `Resume` start it. The order is the
code's: run the chunk, add it up, save. Of the counters one is kept, and the databases of the
chunks are there so that the checkpoint can be held to what is on disk.

### Preparation, Metering, Arms

An input file is a record of the objects the code touches; a run's database is a set of readings.
`Prepared` and `PrepareArm` are compositions in the code's order. `Simulated` (external) gives
readings of every requested series, a design day, warmup and the facility meter's monthly reading
(`MonthRead`), which the prototype's `Output:EnvironmentalImpactFactors` brings in
(`baseline.idf:4874`): one in each calendar month the run is in, stamped with the end of the month,
its interval the month's, so that its midpoint is mid-month, in the run or outside it. In the
committed `results.json` that is the 1177th interval of a week with 1008 timesteps and 168 hours, at
noon of 16 May. `Counted` is the filter both readers use. They differ on rows the readings here do
not have: the report skips a row without a day and takes one without an interval for an hour
(`report.py:111`, `113`), where the indicators raise or use the inferred timestep (`kpis.py:309`).
`Arms` runs the arms in order, any of which may fail (`fatal`) or log severe errors, and reports on
whatever directories are left. Prices, power and percentages are kept as integers and pairs of their
terms.

## 3. What the runs show

Passing runs:

| Run | Instance | Shows |
|---|---|---|
| `MCExecutor` | one zone with two schedules, three plans two of which share an id, 5 timesteps, 3 commits or clears, 1 fault | `TypeOK`; `ActuatorsBounded`; `NoStalePlanDrives`; `JournalMatchesDecisions`; `TrippedHoldsBaseline`; `WrittenInsideEnvelope`; `RateRespected` |
| `MCScheduler` | 2 cycles, 1 preemption | `EveryCycleAccounted`, `NewestInFlight`, `ActuatedIsJournalled`, `LateResultDiscarded`, `TypeOK`; `HourServed`, though the model may never answer; `EveryCycleEnds` if it does |
| `MCControlLoop` | 3 cycles, 1 preemption, 5 timesteps, a deadline of 2 | `DrivingPlanOnRecord`, `CorrectionsFollowComplaints`, `VerdictNotLost` |
| `MCStore` | 2 planner threads, a watchdog that may trip, 5 timesteps in batches of 2, 1 failed transaction, a kill anywhere | `WrittenOnceInOrder`, `CrashCostsLessThanABatch`, `PlansJustified`, `VerdictsHavePlans`, `ClosedRunComplete`, `TypeOK` |
| `MCBus` | one zone wired to two schedules, one wired to a schedule without actuator; 2 plans, 5 timesteps, 1 severe error, 1 exception | `PlanInForce` from the first timestep; `ControlHistoryKept`; `LatchedIsHeard` |
| `MCVersions` | 3 processes in turn, 2 values, up to 6 versions, 1 kill, patches that repair, miss, fail and do not parse | `SeriesKept` (refinement of `VersionSeries`), `ResumesOnCleanModel`, `UnpatchedIsItsState` |
| `MCEndurance` | runs of 5 days by 2 and 4 days by 1, 3 kills, 2 exceptions | `ProgressKept` (refinement of `Progress`), `CountedChunksOnRecord`, `OneChunkPerStop`, `Completes` |
| `MCReceding` | 2 zones that share heating, days of 8 slots, 1 or 4 days, results of the same year or of a later one; five plans offered, three answers of the planner clipped or not; both smoke arms, in a building that needs cooling and one that does not | `ProfileFollowsPlan`, `RecordedInOrder`, `VerdictOfTheSetback` |
| `MCArms` | 2 zones on shared schedules, days of 2 hours, months of 3 days, 1 to 3 days in one month or two, 3 buildings, arms that fail, 4 requests | `SavingsAreReal`, `ReportAddsUp`, `ComfortHoursReal` |

Runs that find the code at odds with what the repository says of it; the findings in
`PROJECT.json` quote the lines:

| Run | What happens |
|---|---|
| `ExecutorTripLatched` | After one trip the executor never looks at a plan again: `decide` returns before the call that would clear it. |
| `PlanDiscarded` | In the agent's arm over the receding driver, the plan made before a chunk is anchored in the year of the results and rendered in the driver's: all of its steps fall past the end of the chunk and are dropped, and the baseline is simulated. |
| `MeteredThrice` | Preparation adds a timestep request for the facility meter beside the prototype's hourly one; the KPIs add up its timestep, hourly and monthly readings. The committed `reports/results.json` shows it: 1177 intervals for a week of 1008. |

`SavingsAreReal` holds all the same: the factor is the same for every arm, because
`prepare_arm_idf` gives all of them the same requests, so percentages come out right and absolute
energy, cost and carbon do not.

Other disagreements met on the way, which no run keeps:

* A plan rejected as a whole writes nothing, not the baseline (`executor.py:174`), so the actuators
  keep the previous values.
* Zones that share a schedule are filtered each for itself, and the last one written decides
  (`bus.py:463`).
* A trigger that fires between the epoch check and the commit does not stop the commit
  (`scheduler.py:191`).
* A cycle that holds commits nothing, so the watchdog takes the plan it holds for stale
  (`scheduler.py:236`).
* A batch whose transaction fails is dropped, and the next plan is journalled without its telemetry
  (`store.py:286`).
* Points of a plan that fall on one minute are sorted by value in receding mode
  (`receding.py:167`), where the live bus takes the later step (`bus.py:452`): for two windows that
  meet, the modes may differ, and not at that minute only: a point that repeats the value of the one
  before it in the plan is dropped (`receding.py:145`), so the warmer value holds until the plan asks
  for another one. `ProfileFollowsPlan` allows that much and no more; `MCReceding` has two windows
  that meet and a third that repeats the value.
* The snapshot of a chunk in receding mode is of the values staged when the plan was made
  (`receding.py:344`), not of the profiles its model has, though the comment says "that is the model
  being run"; when a plan is discarded as in `PlanDiscarded`, the two have nothing in common.
* `approve` gives every step the offset 0 (`core.py:343-347`), because the executor has already
  picked the step in force. The agent's arm over the receding driver lowers a plan, approves it whole
  and hands it over (`receding_ab.py:118-123`), so of each zone and actuator only the last step of the
  list is left, usually the baseline it reverts to, for the whole chunk, where `receding.py:28-31`
  says that "the profile survives".
* A worker that shows the tracker an older copy of the events than another did makes it latch a
  complaint again that has been resolved (`feedback.py:47`).
* Two processes that write versions at the same time lose each other's entries
  (`snapshots.py:145`); `SeriesKept` is checked for processes that take turns.
* In a smoke run of several days the setback is made on the first day only, and over four days the
  mean falls below its threshold: `VerdictOfTheSetback` states the exact condition.

Some properties are stated with the conditions under which they hold, and the conditions say as much
as the properties. `RateRespected` is about what is decided for a zone: a plan's temperature is
within the limit of a temperature the timestep before decided for that zone, by a plan or as a
fallback, however many timesteps have failed in between; else it is the edge of the band that is
nearer, or as far as the hour allows. It is not about actuators, where the code keeps no rate limit:
the zone's single rate history (`core.py:84`) may measure cooling from heating; a schedule that zones
share jumps when another of them writes it; when the occupancy changes, the envelope, applied last
(`core.py:205`), moves the setpoint past the limit; and the baseline that the exception handler writes
(`bus.py:525`) is not what the next value is measured from. `TrippedHoldsBaseline` excepts the
timestep in which the handler raised as well. `VerdictsHavePlans` excepts the watchdog's event, which
is about no plan. `ProfileFollowsPlan` has the baseline where the results are of a later year than the
chunks and the plan was made after the first of them, for that is what the code then renders; that a
plan should not be discarded is the property `PlanDiscarded` refutes.
`VerdictNotLost` needs that no cycle is preempted: `resolve` (`feedback.py:57`) clears
whatever is pending, and a preempted worker may clear a complaint it never saw.
The events that `CorrectionsFollowComplaints` speaks of include the watchdog's own, which `observe`
latches like a verdict (`feedback.py:43`), so that a plan may be recorded as correcting the plan
`watchdog`. `ProfileFollowsPlan` speaks of the first day of a chunk: a profile is one day repeated,
and a chunk has one day in the harnesses. `ComfortHoursReal` needs `ComfortMetered` when the timestep
is to be inferred for any prototype: one that asked for most meters hourly would have its comfort
hours multiplied by 60 minutes (`kpis.py:226`).

### Bounds

Temperatures are half degrees with the repository's bands (21.5 to 24.5 occupied, 20 to 30
unoccupied) and limits (1 per timestep, 2 per hour); the hour is shortened to three timesteps so
that samples leave the window. Five timesteps with a deadline of two allow a commit, a stale plan, a
trip and what follows it; three commits allow a replaced plan, a clear, and a reused id. Three
cycles and one preemption are the least in which a preempted worker overlaps a successor that is
itself superseded; liveness is checked with two. In `Store`, five timesteps make two full batches
and a rest, and one fault is enough to lose one of them; a transaction left open makes all that
follow fail without further faults. Five timesteps of a bus, with hours of three and a debounce of
two, have an hour's change, a band change and a debounced trigger in one run. Six versions are a
run's snapshots and one whole self-heal with its rollback. The chunks of `MCEndurance` include a
shorter last one, and as many kills as that run has chunks. The chunks of `MCReceding` reach three
days past the one its plan was made for, and its later year is six days ahead, past the end of the
run. The days of `MCArms` have two hours, the least on which a tariff changes, and its months three
days, so that one request is within a month and one across two. Every bound is a constant named
`Max...` and is used only in guards that stop time, triggers, commits, kills or faults. Deadlock is
not checked: each instance stops at its bounds or its end.

### Fairness

`FairSpec` of `Scheduler` assumes that timesteps keep coming while an hour is due (EnergyPlus
calls back until the run ends), that the wall clock runs, and that every thread is scheduled, but
nothing of the model: a worker may stay at `infer` for ever. `EveryCycleEnds` has the premise
`ModelReturns`, that a worker leaves `infer`: the ollama client has a timeout
(`agent/planner.py`). Fairness is weak throughout, since a worker's next step stays enabled until
it is taken. `HourServed` allows for the bounds: it may end with all epochs or all preemptions of
the instance spent.

`FairSpec` of `Endurance` assumes that the process runs while it is not killed, that a run is
started, and that an unfinished run is resumed in the end with its own parameters, which is what
the runner's message asks of whoever started it. Kills and exceptions are bounded: a run killed in every
chunk never ends.

## 4. What is proved

All theorems hold for every value of the constants that meets the named assumptions: any number of
zones, plans, cycles, preemptions, rows, faults and kills, where the runs have a few. Of each
component, the invariant that is inductive is given with what it adds to the properties and why
they need it. The bounds of the instances (`Max...`) are constants like any other.

The filter, in `ExecutorProofs`:

* `EnvelopeContainment`: whatever value a plan asks for, whatever is observed and whatever the
  history holds, a temperature value let through is in the zone's band. No assumption on readings.
* `FilterIdempotent`: filtering twice is filtering once. The lemma behind it says that for given
  readings the whole chain is one clamp to an interval.
* `FilterRateBound`: if the last applied value is in the band and within `MaxStep + MaxHour` of
  the oldest sample, the result is within `MaxStep` of it. The second condition is needed: the
  hour's clamp comes after the step's, and may pull further.

The executor, in `ExecutorProofs`:

* `TypeCorrect`, `ActuatorsStayBounded`, `StalePlanNeverDrives`, `TripHoldsBaseline`,
  `WritesInsideEnvelope`, `JournalIsFaithful`: the invariants `MCExecutor` checks, all of them.
* `IInv` adds `FreshnessHeld` (once a generation has driven, the watchdog's last valid plan is no
  later than the timestep it first drove in) and that the watchdog's time is not ahead of the
  clock. `NoStalePlanDrives` is not inductive alone: it speaks of the timestep just written, and
  the next one needs to know what the watchdog remembers of it. A clear or a rejected plan does not
  disturb it, because neither moves the watchdog.
* `JournalInv` adds that a generation once seen is the newest decided on (`SeenIsNewest`,
  `LastIsSeen`): the executor compares with the last generation only, and it is because commits
  number upwards that this finds every repetition.
* Lemmas: `Prune` is a suffix of a sequence, the step in force exists whenever one is due
  (`InForce` is a `CHOOSE` over candidates that are finite and not empty), what is written is what
  some zone was approved, and the last zone wins.
* `RateLimitHolds`: `RateRespected`, an action property, without any assumption on zones,
  occupancy, schedules or exceptions. What it adds to `IInv` is `AnchorIsDecided`: the last sample in
  a zone's history is a temperature of what was decided last for it. The fallback keeps that only
  because it records the baseline it returns (`_record_baseline_rate`), and an exception keeps it
  because its handler changes neither history nor decision.

The scheduler, in `ControlLoopProofs`, whose module extends it:

* `TypeCorrect`, `EveryCycleCounted`, `FlightIsNewest`, `ActuatedOnRecord`, `ComplaintsKept`: the
  invariants of the runs; and `LateIsNeverWritten`, which is about behaviours: from any state in
  which an unchecked cycle is superseded, its plan is never journalled.
* `IInv` adds which threads were started (`StartedToEpoch`), that a worker holds the plan of its own
  cycle (`PlanOfCycle`), and that it commits a plan only after journalling it, once
  (`JournalledBeforeCommit`, `JournalledOnce`). `EveryCycleAccounted` rests on lemmas that count
  threads. For complaints it adds what a worker captured: while no cycle is preempted, one worker at
  a time stands between `capture` and `feedback`, and what it answers is what is pending
  (`AnswersPending`, `NothingYetCorrected`), and the copy of the events it holds is no older than what
  the tracker has seen (`SnapshotBound`), which is what a second worker would break.

The live loop, in `ControlLoopProofs`:

* `LoopStepsAreSchedulers`: a step of the composition is a step of `Scheduler`, a step that leaves
  all its variables alone, or the watchdog's trip, which only adds an event. So the scheduler's
  invariant is kept in the loop by proof, not by repetition (`LoopTypeCorrect`,
  `LoopComplaintsKept`).
* `DriverOnRecord` and `CorrectionsAnswerOnce` relate both journals. `LoopInv` adds that every
  verdict is about a commit, made after its plan was journalled, one per plan (`JudgedOnce`), and
  that what is pending has not been corrected (`PendingUncorrected`). `TripLatched` is needed for
  "at most once": a trip is never cleared, so the watchdog complains once; an executor that cleared
  its trip, as the documentation has it, would need another argument here.

The store, in `StoreProofs`:

* `TypeCorrect`, `RowsWrittenOnceInOrder`, `CrashCost`, `RecordedPlansJustified`,
  `RecordedVerdictsHavePlans`, `ClosedRunKeptAll`: all the properties of `MCStore`.
* `IInv` adds that the counter is the buffer's length (`BufferCounted`), that rows committed and
  buffered together are all the rows there are short of a fault (`RowsComplete`), what
  `write_plan`'s flush leaves for its second half (`FlushedThrough`), that an event in the executor or
  in the database is of a plan on record or the watchdog's (`SlotOnRecord`) and not lost between the
  two (`VerdictKept`), and that a connection is stuck in a transaction only after a fault
  (`StuckByFault`). `PlansJustified` is about the database alone
  and cannot be kept without the rows still in memory.

The bus, in `BusProofs`:

* `PlanIsInForce`, `HistoryIsKept`, and the action property `NothingLatchedUnheard`.
* `IInv` adds `HandlesFetched` (a bus that is ready has a good handle of every schedule offered)
  and `FireIsKnown` (the time of the last trigger is that of one that fired). `Prevailing` is a
  `CHOOSE` of the last writer: that it is one of the writers is the lemma `PrevailingIsDue`.

Versions, in `VersionsProofs`, for processes that take turns (`~Overlap`, as in the run):

* `SeriesIsKept`: `Versions` implements `VersionSeries`, step by step: each step appends an entry,
  tears the manifest, or leaves the series alone, and no step changes a listed model.
* `HealedModelRuns` and `UnpatchedStaysItsState`.
* `IInv` adds that the entry about to be saved is above all listed, with its file in place
  (`EntryIsNew`), so that placing a file touches none that is listed; that a writer's own manifest
  equals the one on disk whenever it may commit (`LoadedIsDisk`); and that the version self-heal
  takes for the last clean one stays at its place (`CleanKept`). `LoadedIsDisk` is what fails when
  processes overlap, and with it `SeriesKept`. Nothing in the code makes them take turns: the
  harnesses run one at a time, and the patch tool could be called meanwhile. The theorems say
  nothing of that case.

The endurance runner, in `EnduranceProofs`:

* `EnduranceTypeCorrect`, `CountedChunksStayOnRecord`, `StopsCostOneChunk`: `TypeOK`,
  `CountedChunksOnRecord` and `OneChunkPerStop` are invariants.
* `EnduranceProgresses`: `Spec` implements `Progress`. Every step leaves what the checkpoint says
  alone but `Save`, which starts the run or advances it by one chunk.
* The inductive invariant `Inv` adds how far the process is ahead of its checkpoint (`Ahead`: by
  nothing in a chunk, by one chunk or one exception while it saves), that the days counted are those
  of the chunks counted (`Counted`, with the last chunk clipped), and how many chunks were begun
  (`Begun`). `OneChunkPerStop` needs all three: it speaks of the disk, and a chunk is begun in
  memory.

The receding driver, in `RecedingProofs`:

* `LoweredWithinADay`: whatever times the model gives its actions, the lowered steps are steps and
  within a day from now.
* `ModelFollowsPlan`: `ProfileFollowsPlan` is an invariant, for any zones, plans, chunks, horizon
  and years. The plans are any lists of steps a provider may return (`Offers`), those of
  `RecedingArm` and of the smoke test among them. The lemma behind it, `PlanRendered`, is about the
  operators alone: it takes a plan through `Points`, `Collapsed`, `Compact` and `ValueAt` and
  compares the outcome with the latest step due. `CollapsedValue` (dropping repeated values changes
  the value at no time but that of a tie), `CompactValue` (the block EnergyPlus picks holds the
  greatest of the latest values) and `InForceIsLatest` (the value carried into a chunk is that of
  the latest step before it) are its three parts.
* `RowsInOrder`: `RecordedInOrder` is an invariant. It needs that the chunks partition the run
  (`ChunkDays`), and that a set of times listed in order is strictly increasing (`InOrderListed`,
  from `RankExists`: for each number up to the size of a finite set there is a member with so many
  at or below it).
* `IInv` adds to `RecordedInOrder` the types (`TypeOK`), that every anchor is the start of the run
  or a time of the results' year (`AnchorsAreMoments`, which is why the baseline is rendered where
  that year is a later one), that the baseline is what is staged until a plan is made
  (`BaselineUntilPlanned`, which is why a run without a plan has the baseline in its models: they
  are rendered from what is staged), and that the model simulated is that of the active plan
  (`ModelRendered`). `ProfileFollowsPlan` compares the model with the plan and cannot be kept
  without it.

The comparison and its report, in `ArmsProofs`:

* `ReportsAddUp`: `ReportAddsUp` is an invariant, for any building, period, frequencies, prices and
  carbon intensities, whichever arms failed. What it rests on is `TablesAddUp`, about the operators
  alone: the tables made of any readings add up, a day's peak included.
* `TablesAddUp` needs sums over finite sets, which the library defines by recursion and says nothing
  of. Induction is replaced by a smallest counterexample (`SmallestExists`: of some subsets of a
  finite set one has no other of them inside it, since sizes are natural numbers). With it
  `SumsExist` shows that the function the recursion describes exists, `SumsCommute` that any element
  may be the last one added, and `SumByParts` that a sum is the sum of the sums of its parts by any
  key, the day of a reading being one.
* `IInv` adds that a run is of what was asked for, on the model that was prepared (`RunAsAsked`,
  `PreparedOnce`), and that every directory holds readings (`DirsHoldReadings`): finitely many rows,
  each with an interval and an integer value. A report is of whatever the directories hold, so
  `ReportAddsUp` cannot be kept without it. That an arm leaves readings (`ArmReadings`) goes through
  everything that prepares its file (`ArmFile`: finitely many outputs are requested, for finitely
  many zones) and that no interval asks for a timestep outside the period (`StepsWithin`).
  `RunsLeaveReadings` states it.
* `SavingsReal`: `SavingsAreReal` is an invariant, for any prototype, buildings, period and
  timestep. A meter's readings at one frequency add up to what was used in the period
  (`MeterReadEnergy`, `MonthReadEnergy`): a month's reading is of the timesteps in it, and every
  other frequency divides the period into intervals of whole timesteps (`Grid`, `EveryGrid`), each
  timestep is in one of them (`StepsOnGrid`), and `SumByParts` adds them up by it. So the report
  counts a meter as often as it is read (`MeterEnergy`), which is the finding of `MeteredThrice`;
  but every arm's file asks for the same meters (`ArmRequests`, `PreparedRequests`: to have been
  prepared once before adds nothing), the factor is the same and the percentages come out right
  (`SameSaving`). The peak is that of the timesteps (`PeakReal`): the facility meter is read at
  each, and no longer interval has more power than its greatest timestep (`PowerAtMost`).
* `RunsInv` is what `SavingsReal` adds to `IInv`: what an arm left that ran to its end is the run of
  what was asked for (`ArmsAreRuns`), an arm that failed ends the comparison (`FailureRaised`), the
  manifest comes last (`ManifestLast`), and the report is of the directories as they still are
  (`ReportOfDirs`: nothing is simulated after it). `FinishedArmsAreRuns` states the first three.
* `ComfortHoursRight`: under `ComfortMetered`, `ComfortHoursReal` is an invariant, for any zones,
  occupancy, discomfort, buildings and requests. The report counts occupied intervals and multiplies
  by a timestep it infers, the most common interval of the meters. `TimestepInferred` shows that
  this is the one asked for, by counting: a meter asked for at every timestep has a reading in each
  (`StepTimes`), one asked for otherwise no more than one an hour (`OtherTimes`; one a day at most by
  the month, `MonthReadTimes`), and `CountByParts`
  adds them up over meters and frequencies (`StepIntervals`, `OtherIntervals`). What is counted is
  right too (`BusyIs`): every zone of the prepared model has an air temperature in every timestep
  (`AiredZones`), and its occupancy and PMV as they were then and at no other time (`ReadsAre`),
  because every arm's file asks for them under the keys of the prepared model, whichever of the two
  models it was made from (`ArmVariables`, from `PreparedSame`: preparation leaves the zones and the
  People objects as they are).

Assumptions used: those the modules name, each evaluated by TLC. `GuardianAssumption`,
`WatchdogAssumption` and `ExecutorAssumption` say that bands are non-empty, limits positive,
bindings well formed (no schedule serves as cooling here and as heating there) and that no plan is
called `watchdog`. `ComfortMetered`, which only `ComfortHoursRight` assumes and `MCArms`
evaluates, is about the prototype: most readings of the report's meters are of a timestep, occupancy
and PMV are not asked for at another frequency, and nothing is called `*`. It holds of the
repository's: of the report's meters, the facility's and the pumps' are read in each timestep, the
facility's, the cooling's and the fans' hourly, so that three timesteps an hour are enough, and the
default is six. It is enough and not exact: with one timestep an hour, say, there is only one
length to infer. `SchedulerAssumption` and `LoopAssumption` give inputs their
sets and hours a length; `StoreAssumption` and `EnduranceAssumption` say that a batch, a run and a
chunk are not empty; `EventsAssumption` and `BusAssumption` that the debounce and the hour are
positive, that offered schedules are schedules and that a plan's steps are a list;
`VersionsAssumption` that a manifest that does not parse is no manifest; `LoweringAssumption` and
`RecedingAssumption` that a day, a run and a horizon are not empty, that the binding leads to
schedules with a value, and that the plans offered are lists of steps; `RecedingArmAssumption` that
the planner's answers are lists of actions; `CurveAssumption` that
prices and intensities are given for every hour (`_require_full_day`); `OutputAssumption` and
`PrototypeAssumption` that the lists of the prototype and of what is requested are finite, that
the prototype asks for variables under `*` only, that no variable is named like a meter, that the
People objects of a file are listed in order, and that air temperature, occupancy and PMV are among
the variables preparation asks for, as `ZONE_VARIABLES` and `PEOPLE_VARIABLES` have it;
`RequestAssumption` that a period has days from some day of the year on, that timesteps divide the
hour, as EnergyPlus requires,
and that a building has used energy, possibly none, in every timestep of the period.

Only model-checked:

* liveness (`HourServed`, `EveryCycleEnds`, `Completes`): fairness is out of the prover's reach;
* the smoke verdict (`VerdictOfTheSetback`): its condition is exact for a setback that no band cuts
  and a baseline whose mean is whole, as in the run; for every value of the constants it would need
  both as assumptions, and what `FlattenSeq` makes of the plan, which the library defines by
  recursion;
* the agent's arm over the receding driver (`RecedingArm`), of which a finding is checked;
* the three findings, which are violations.

## 5. What is not modelled

`PROJECT.json` lists every part with its reason. Wording, logging, prompts, digests, charts and HTML
are text; IDF syntax, enum rendering, downloads and subprocesses are I/O; the dashboard and the
other MCP tools are queries; the cache's discretisation and the comfort pressure are arithmetic over
readings whose outcome is an input. `write_approved_plan` has the shape of `write_plan`. Plan ids
are fresh in `Scheduler`, `ControlLoop` and `Store`; `Executor` and `Bus` let plans share or repeat
one, since a model may emit an id of its own. Names in an input file are taken to be spelled one
way: the code compares some of them in upper case and some as they are (`ab.py:382`).

## 6. Plan

Done: the control path (`Guardian`, `Watchdog`, `PlanSlot`, `Executor`), the planning side
(`Scheduler`), their composition (`ControlLoop`), the store (`Store`), the bus with the event
detector (`Bus`, `Events`), versions (`Versions`), the batch drivers (`Receding`, `RecedingArm`,
`Smoke`, `Endurance`), preparation and reports (`Preparation`, `Metering`, `Arms`).

Proved: every safety property of the runs on `Executor`, `Scheduler`,
`ControlLoop`, `Store`, `Bus`, `Versions` and `Endurance`, the two refinements included; those of
the receding driver by itself; and those of the comparison and its report.

What could come next: a law of `Lowering` (a window opened is closed); the versions of processes
that overlap; the smoke verdict.
