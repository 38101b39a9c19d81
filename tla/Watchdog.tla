------------------------------ MODULE Watchdog ------------------------------
(***************************************************************************)
(* guardian/watchdog.py: plan freshness in simulation time.  The state is  *)
(* [lastValid, tripped]; lastValid is NotStarted until the first check.    *)
(***************************************************************************)
EXTENDS Integers

CONSTANTS
  PlanInterval,   \* Watchdog.plan_interval, in timesteps
  MaxIntervals    \* Watchdog.max_intervals

ASSUME WatchdogAssumption ==
  PlanInterval \in Nat \ {0} /\ MaxIntervals \in Nat \ {0}

NotStarted == -1

NewWatchdog == [lastValid |-> NotStarted, tripped |-> FALSE]

DeadlineAfter == PlanInterval * MaxIntervals

NoteValidPlan(now) == [lastValid |-> now, tripped |-> FALSE]

\* Mutant of Stale: one timestep late.
StaleLate(w, now) ==
  w.lastValid # NotStarted /\ now - w.lastValid > DeadlineAfter + 1

Stale(w, now) == w.lastValid # NotStarted /\ now - w.lastValid > DeadlineAfter

Check(w, now) ==
  IF w.lastValid = NotStarted THEN [w EXCEPT !.lastValid = now]
  ELSE IF Stale(w, now) THEN [w EXCEPT !.tripped = TRUE]
  ELSE w

\* check() returns an event only on the transition into staleness.
Trips(w, now) == Check(w, now).tripped /\ ~w.tripped
=============================================================================
