----------------------------- MODULE ControlLoop -----------------------------
(***************************************************************************)
(* The live loop of experiments/ab.py: in each timestep the callback asks  *)
(* the scheduler, then the executor decides, while worker threads plan.    *)
(* The executor is reduced to what the loop sees of it: its watchdog, the  *)
(* events it journals, and whether a plan or the baseline drives; the      *)
(* Executor module has the rest.                                           *)
(***************************************************************************)
EXTENDS Scheduler, Watchdog

CONSTANTS
  StepsPerHour,   \* timesteps per hour
  MaxClock        \* bound: timesteps

ASSUME LoopAssumption == StepsPerHour \in Nat \ {0} /\ MaxClock \in Nat

VARIABLES
  clock,      \* the timestep being handled
  phase,      \* where the callback is in it
  watchdog,   \* Executor.watchdog
  driver      \* the cycle whose plan drove the last timestep, or NoCycle

loop == <<clock, phase, watchdog, driver>>
allVars == <<vars, loop>>

LoopInit ==
  /\ Init
  /\ clock = 0 /\ phase = "idle" /\ watchdog = NewWatchdog /\ driver = NoCycle

\* The next timestep begins, and with it perhaps an hour.
BeginTimestep ==
  /\ phase = "idle" /\ clock < MaxClock
  /\ clock' = clock + 1 /\ phase' = "schedule"
  /\ IF clock' % StepsPerHour = 0 /\ ~hourDue THEN NewHour ELSE UNCHANGED vars
  /\ UNCHANGED <<watchdog, driver>>

\* scheduler.on_timestep: starts a cycle if one is due and can start.
Schedule(input) ==
  /\ phase = "schedule" /\ phase' = "decide"
  /\ \/ OnTimestep(input)
     \/ (Due(input) = {} \/ ~CanStart) /\ UNCHANGED vars
  /\ UNCHANGED <<clock, watchdog, driver>>

\* Executor.decide with no plan, or with the watchdog tripped.
DecideBaseline ==
  /\ phase = "decide" /\ phase' = "idle"
  /\ ~SlotHolds(slot) \/ Check(watchdog, clock).tripped
  /\ watchdog' = Check(watchdog, clock)
  /\ driver' = NoCycle
  /\ events' = IF Trips(watchdog, clock)
               THEN Append(events, [plan |-> WatchdogPlan, decision |-> "rejected",
                                    generation |-> 0])
               ELSE events
  /\ UNCHANGED <<callback, inflight, stats, workers, slot, cache, feedback, journal,
                 clock>>

\* Mutant of DecidePlan: a new plan drives without being journalled.
DecideSilently(decision) ==
  /\ phase = "decide" /\ phase' = "idle"
  /\ SlotHolds(slot) /\ ~Check(watchdog, clock).tripped
  /\ watchdog' = IF ~Journalled /\ decision # "rejected" THEN NoteValidPlan(clock)
                 ELSE Check(watchdog, clock)
  /\ UNCHANGED vars
  /\ driver' = slot.plan.cycle
  /\ UNCHANGED clock

\* Executor.decide with a plan: a commit not seen before is journalled and, if
\* the guardian does not reject it, resets the watchdog.
DecidePlan(decision) ==
  /\ phase = "decide" /\ phase' = "idle"
  /\ SlotHolds(slot) /\ ~Check(watchdog, clock).tripped
  /\ IF Journalled
     THEN watchdog' = Check(watchdog, clock) /\ UNCHANGED vars
     ELSE /\ Judge(decision)
          /\ watchdog' = IF decision # "rejected" THEN NoteValidPlan(clock)
                         ELSE Check(watchdog, clock)
  /\ driver' = slot.plan.cycle
  /\ UNCHANGED clock

LoopNext ==
  \/ BeginTimestep
  \/ \E input \in Inputs : Schedule(input)
  \/ DecideBaseline
  \/ \E decision \in Decisions : DecidePlan(decision)
  \/ OutrunBudget /\ UNCHANGED loop
  \/ \E e \in Cycles : RunCycle(e) /\ UNCHANGED loop

LoopSpec == LoopInit /\ [][LoopNext]_allVars

-----------------------------------------------------------------------------
(* Properties.                                                             *)

\* The plan that drove a timestep is on record on both sides: its plan row, and
\* the guardian's verdict on it (write_plan before commit, _journal).
DrivingPlanOnRecord ==
  driver # NoCycle => /\ \E i \in DOMAIN events : events[i].plan = driver
                      /\ \E j \in DOMAIN journal : journal[j].plan = driver

\* Each plan the guardian complained about is corrected at most once, and only
\* after the complaint was journalled (FeedbackTracker, Scheduler).
CorrectionsFollowComplaints ==
  \A j \in DOMAIN journal :
    journal[j].corrects # NoCycle =>
      /\ \E i \in DOMAIN events : /\ events[i].plan = journal[j].corrects
                                  /\ events[i].decision # "accepted"
      /\ stats.timeouts = 0 =>
           \A k \in DOMAIN journal : journal[k].corrects = journal[j].corrects => k = j
=============================================================================
