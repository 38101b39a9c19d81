------------------------------ MODULE Scheduler ------------------------------
(***************************************************************************)
(* The planning side: agent/scheduler.py with the plan cache it consults   *)
(* and the feedback it feeds back.  The callback thread only starts        *)
(* workers; each worker resolves one planning cycle and commits its plan   *)
(* to the slot, while the callback thread goes on and other workers, once  *)
(* this one has outrun its budget, run beside it.                          *)
(*                                                                         *)
(* A cycle is named by its epoch, and a plan by the cycle it is for,       *)
(* reused plans included: plan ids are taken to be fresh.  (A model may    *)
(* emit an id twice; the Executor's plans may share one.)  A step of a     *)
(* worker is what it does between two accesses to state it shares.         *)
(***************************************************************************)
EXTENDS PlanSlot, Sequences, FiniteSets

CONSTANTS
  Situations,    \* cache keys a building state may fall on
  NoState,       \* no state was passed, or there is no cache
  Inputs,        \* what the timesteps of the instance pass in
  Decisions,     \* what the guardian may decide
  MaxEpoch,      \* bound: triggers
  MaxTimeouts    \* bound: preemptions

Cycles == 1 .. MaxEpoch
NoCycle == 0
WatchdogPlan == MaxEpoch + 1    \* the plan id of the watchdog's event
EventIds == Cycles \cup {WatchdogPlan}

Verdict == {"accepted", "clamped", "rejected"}
Triggers == {"startup", "hourly", "event"}

\* What a timestep passes in: where the state falls, whether the comfort
\* pressure is below the hold threshold, whether the event detector fires.
Input == [situation : Situations \cup {NoState}, calm : BOOLEAN, event : BOOLEAN]

ASSUME SchedulerAssumption ==
  /\ MaxEpoch \in Nat \ {0} /\ MaxTimeouts \in Nat
  /\ NoState \notin Situations /\ Inputs \subseteq Input
  /\ Decisions \subseteq Verdict

\* A plan is for one cycle; its actions come from the cycle that asked the model.
PlanRecord == [cycle : Cycles, from : Cycles]

VARIABLES
  started,    \* _started
  hourDue,    \* this hour is later than _last_hour
  epoch,      \* _epoch
  inflight,   \* _inflight_epoch, or NoCycle
  overBudget, \* time.monotonic() - _inflight_started > timeout_s
  stats,      \* SchedulerStats
  workers,    \* cycle -> the local variables of its thread
  slot,       \* PlanSlot
  cache,      \* PlanCache: [entries, made, avoided]
  feedback,   \* FeedbackTracker: [seen, pending]
  events,     \* Executor.guardian_events, as events_snapshot shows them
  journal     \* plans written to the store, with corrects_plan_id

callback == <<started, hourDue, epoch, overBudget>>
vars == <<started, hourDue, epoch, inflight, overBudget, stats, workers, slot,
          cache, feedback, events, journal>>

NoStats == [triggers |-> 0, made |-> 0, accepted |-> 0, failed |-> 0, timeouts |-> 0,
            discarded |-> 0, hits |-> 0, holds |-> 0, events |-> 0]

NoThread == [pc |-> "none", input |-> [situation |-> NoState, calm |-> FALSE, event |-> FALSE],
             trigger |-> "startup", plan |-> NoPlan, cached |-> FALSE, snapshot |-> 0,
             corrects |-> NoCycle]

Init ==
  /\ started = FALSE /\ hourDue = TRUE
  /\ epoch = 0 /\ inflight = NoCycle /\ overBudget = FALSE
  /\ stats = NoStats
  /\ workers = [e \in Cycles |-> NoThread]
  /\ slot = EmptySlot
  /\ cache = [entries |-> [s \in Situations |-> NoPlan], made |-> 0, avoided |-> 0]
  /\ feedback = [seen |-> 0, pending |-> NoCycle]
  /\ events = << >>
  /\ journal = << >>

Count(field) == stats' = [stats EXCEPT ![field] = @ + 1]

-----------------------------------------------------------------------------
(* The callback thread: Scheduler.on_timestep.                             *)

\* _due; the event detector is asked last.
Due(input) == IF ~started THEN {"startup"}
              ELSE IF hourDue THEN {"hourly"}
              ELSE IF input.event THEN {"event"} ELSE {}

\* _can_start: nothing in flight, or what is has outrun its budget.
Preempts == inflight # NoCycle /\ overBudget

\* Mutants of CanStart: a hung cycle is waited for; a running one is ignored.
CanStartIdle == inflight = NoCycle
CanStartAlways == TRUE

CanStart == inflight = NoCycle \/ Preempts

Start(trigger, input) ==
  /\ CanStart
  /\ epoch < MaxEpoch
  /\ epoch' = epoch + 1
  /\ inflight' = epoch + 1
  /\ overBudget' = FALSE
  /\ stats' = [stats EXCEPT !.triggers = @ + 1,
                            !.timeouts = @ + (IF Preempts THEN 1 ELSE 0),
                            !.events = @ + (IF trigger = "event" THEN 1 ELSE 0)]
  /\ hourDue' = FALSE
  /\ started' = TRUE
  /\ workers' = [workers EXCEPT ![epoch + 1] =
                   [NoThread EXCEPT !.pc = "resolve", !.input = input, !.trigger = trigger]]
  /\ UNCHANGED <<slot, cache, feedback, events, journal>>

OnTimestep(input) == \E trigger \in Due(input) : Start(trigger, input)

\* A new simulation hour begins, triggered or not.
NewHour == /\ ~hourDue
           /\ hourDue' = TRUE
           /\ UNCHANGED <<started, epoch, inflight, overBudget, stats, workers, slot,
                          cache, feedback, events, journal>>

\* Wall-clock time passes while a cycle is in flight.
OutrunBudget ==
  /\ inflight # NoCycle /\ ~overBudget
  /\ stats.timeouts < MaxTimeouts
  /\ overBudget' = TRUE
  /\ UNCHANGED <<started, hourDue, epoch, inflight, stats, workers, slot, cache,
                 feedback, events, journal>>

\* The executor, in the same callback, journals a commit it has not seen with
\* the guardian's decision.
Journalled == \E i \in DOMAIN events : events[i].generation = slot.generation

Judge(decision) ==
  /\ SlotHolds(slot) /\ ~Journalled
  /\ events' = Append(events, [plan |-> slot.plan.cycle, decision |-> decision,
                               generation |-> slot.generation])
  /\ UNCHANGED <<callback, inflight, stats, workers, slot, cache, feedback, journal>>

-----------------------------------------------------------------------------
(* A worker thread: Scheduler._run_cycle and _resolve_plan for cycle e.    *)

At(e, pc) == workers[e].pc = pc
Goto(e, pc) == workers' = [workers EXCEPT ![e].pc = pc]

HasState(e) == workers[e].input.situation # NoState
KeyOf(e) == workers[e].input.situation

\* PlanCache.should_hold
ShouldHold(e) == HasState(e) /\ workers[e].trigger = "hourly" /\ workers[e].input.calm

\* PlanCache.lookup
Hit(e) == HasState(e) /\ cache.entries[KeyOf(e)] # NoPlan

\* Mutant of HoldCycle: the early return bypasses the finally clause.
HoldReturns(e) ==
  /\ At(e, "resolve") /\ ShouldHold(e)
  /\ Count("holds")
  /\ Goto(e, "none")
  /\ UNCHANGED <<callback, inflight, slot, cache, feedback, events, journal>>

HoldCycle(e) ==
  /\ At(e, "resolve") /\ ShouldHold(e)
  /\ Count("holds")
  /\ Goto(e, "finally")
  /\ UNCHANGED <<callback, inflight, slot, cache, feedback, events, journal>>

\* PlanCache.reuse: the same actions, as a plan of this cycle.
ReuseCached(e) ==
  /\ At(e, "resolve") /\ ~ShouldHold(e) /\ Hit(e)
  /\ Count("hits")
  /\ cache' = [cache EXCEPT !.avoided = @ + 1]
  /\ workers' = [workers EXCEPT ![e].pc = "check", ![e].cached = TRUE,
                   ![e].plan = [cycle |-> e, from |-> cache.entries[KeyOf(e)].from]]
  /\ UNCHANGED <<callback, inflight, slot, feedback, events, journal>>

MissCache(e) ==
  /\ At(e, "resolve") /\ ~ShouldHold(e) /\ ~Hit(e)
  /\ Goto(e, "digest")
  /\ UNCHANGED <<callback, inflight, stats, slot, cache, feedback, events, journal>>

\* The complaints among the first n verdicts that a tracker has not seen.
Fresh(f, n) == {i \in DOMAIN events : f.seen < i /\ i <= n /\ events[i].decision # "accepted"}

\* Mutant of Latched: the first complaint is kept.
LatchedFirst(f, n) ==
  IF Fresh(f, n) = {} \/ f.pending # NoCycle THEN f.pending
  ELSE events[CHOOSE i \in Fresh(f, n) : \A j \in Fresh(f, n) : i <= j].plan

\* FeedbackTracker.observe on n verdicts: the newest complaint among them.
Latched(f, n) ==
  IF Fresh(f, n) = {} THEN f.pending
  ELSE events[CHOOSE i \in Fresh(f, n) : \A j \in Fresh(f, n) : j <= i].plan

\* The digest provider of the harness copies the verdicts under their lock ...
TakeSnapshot(e) ==
  /\ At(e, "digest")
  /\ workers' = [workers EXCEPT ![e].pc = "observe", ![e].snapshot = Len(events)]
  /\ UNCHANGED <<callback, inflight, stats, slot, cache, feedback, events, journal>>

\* ... and shows the copy to the tracker, which no lock guards: what it has seen
\* goes back if another worker has shown it more in between.  Then it builds the
\* digest.
Observe(e) ==
  /\ At(e, "observe")
  /\ LET n == workers[e].snapshot
     IN  feedback' = [seen |-> n, pending |-> Latched(feedback, n)]
  /\ Goto(e, "capture")
  /\ UNCHANGED <<callback, inflight, stats, slot, cache, events, journal>>

CapturePending(e) ==
  /\ At(e, "capture")
  /\ workers' = [workers EXCEPT ![e].pc = "infer", ![e].corrects = feedback.pending]
  /\ UNCHANGED <<callback, inflight, stats, slot, cache, feedback, events, journal>>

\* Planner.plan returns a plan, which is cached before anything else ...
ModelAnswers(e) ==
  /\ At(e, "infer")
  /\ LET plan == [cycle |-> e, from |-> e]
     IN  /\ cache' = IF HasState(e)
                     THEN [cache EXCEPT !.entries[KeyOf(e)] = plan, !.made = @ + 1]
                     ELSE cache
         /\ workers' = [workers EXCEPT ![e].pc = "check", ![e].plan = plan]
  /\ UNCHANGED <<callback, inflight, stats, slot, feedback, events, journal>>

\* ... or None: unreachable, or not valid after one repair.
ModelFails(e) ==
  /\ At(e, "infer")
  /\ Count("failed")
  /\ Goto(e, "finally")
  /\ UNCHANGED <<callback, inflight, slot, cache, feedback, events, journal>>

Superseded(e) == e # epoch

\* Mutant of CheckEpoch: a late result is committed all the same.
CheckNothing(e) ==
  /\ At(e, "check")
  /\ stats' = [stats EXCEPT !.made = @ + (IF workers[e].cached THEN 0 ELSE 1)]
  /\ Goto(e, "journal")
  /\ UNCHANGED <<callback, inflight, slot, cache, feedback, events, journal>>

\* Mutant of CheckEpoch: a late result is dropped without being counted.
CheckUncounted(e) ==
  /\ At(e, "check")
  /\ stats' = [stats EXCEPT !.made = @ + (IF workers[e].cached THEN 0 ELSE 1)]
  /\ Goto(e, IF Superseded(e) THEN "finally" ELSE "journal")
  /\ UNCHANGED <<callback, inflight, slot, cache, feedback, events, journal>>

\* Mutant of CheckEpoch: a reused plan is not written to the store.
CheckSkipsJournal(e) ==
  /\ At(e, "check")
  /\ stats' = [stats EXCEPT !.made = @ + (IF workers[e].cached THEN 0 ELSE 1),
                            !.discarded = @ + (IF Superseded(e) THEN 1 ELSE 0)]
  /\ Goto(e, IF Superseded(e) THEN "finally"
             ELSE IF workers[e].cached THEN "commit" ELSE "journal")
  /\ UNCHANGED <<callback, inflight, slot, cache, feedback, events, journal>>

\* Under the lock: count the plan, and discard it if a newer trigger has fired.
CheckEpoch(e) ==
  /\ At(e, "check")
  /\ stats' = [stats EXCEPT !.made = @ + (IF workers[e].cached THEN 0 ELSE 1),
                            !.discarded = @ + (IF Superseded(e) THEN 1 ELSE 0)]
  /\ Goto(e, IF Superseded(e) THEN "finally" ELSE "journal")
  /\ UNCHANGED <<callback, inflight, slot, cache, feedback, events, journal>>

\* Lower the plan and write it to the store; then resolve what it corrects.
WritePlan(e) ==
  /\ At(e, "journal")
  /\ journal' = Append(journal, [plan |-> e, corrects |-> workers[e].corrects])
  /\ Goto(e, IF workers[e].corrects # NoCycle THEN "feedback" ELSE "commit")
  /\ UNCHANGED <<callback, inflight, stats, slot, cache, feedback, events>>

\* Mutant of ResolveFeedback: the latch is not cleared.
ResolveNothing(e) ==
  /\ At(e, "feedback")
  /\ Goto(e, "commit")
  /\ UNCHANGED <<callback, inflight, stats, slot, cache, feedback, events, journal>>

ResolveFeedback(e) ==
  /\ At(e, "feedback")
  /\ feedback' = [feedback EXCEPT !.pending = NoCycle]
  /\ Goto(e, "commit")
  /\ UNCHANGED <<callback, inflight, stats, slot, cache, events, journal>>

\* Mutant of CommitPlan: lowering loses the plan's id.
CommitAnonymous(e) ==
  /\ At(e, "commit")
  /\ slot' = SlotCommit(slot, [workers[e].plan EXCEPT !.cycle = NoCycle])
  /\ Goto(e, "count")
  /\ UNCHANGED <<callback, inflight, stats, cache, feedback, events, journal>>

CommitPlan(e) ==
  /\ At(e, "commit")
  /\ slot' = SlotCommit(slot, workers[e].plan)
  /\ Goto(e, "count")
  /\ UNCHANGED <<callback, inflight, stats, cache, feedback, events, journal>>

CountAccepted(e) ==
  /\ At(e, "count")
  /\ Count("accepted")
  /\ Goto(e, "finally")
  /\ UNCHANGED <<callback, inflight, slot, cache, feedback, events, journal>>

\* An exception while building the digest, asking the planner (its llm_calls
\* row), lowering the plan or writing it.
Raise(e) ==
  /\ \E pc \in {"capture", "infer", "journal"} : At(e, pc)
  /\ Count("failed")
  /\ Goto(e, "finally")
  /\ UNCHANGED <<callback, inflight, slot, cache, feedback, events, journal>>

\* Mutant of Finish: a preempted worker clears the flight of its successor.
FinishAnyFlight(e) ==
  /\ At(e, "finally")
  /\ inflight' = NoCycle
  /\ Goto(e, "done")
  /\ UNCHANGED <<callback, stats, slot, cache, feedback, events, journal>>

\* The finally clause.
Finish(e) ==
  /\ At(e, "finally")
  /\ inflight' = IF inflight = e THEN NoCycle ELSE inflight
  /\ Goto(e, "done")
  /\ UNCHANGED <<callback, stats, slot, cache, feedback, events, journal>>

Resolve(e) == HoldCycle(e) \/ ReuseCached(e) \/ MissCache(e)
Ask(e) == TakeSnapshot(e) \/ Observe(e) \/ CapturePending(e)
Answer(e) == ModelAnswers(e) \/ ModelFails(e)
Deliver(e) == WritePlan(e) \/ ResolveFeedback(e) \/ CommitPlan(e) \/ CountAccepted(e)
RunCycle(e) ==
  Resolve(e) \/ Ask(e) \/ Answer(e) \/ CheckEpoch(e) \/ Deliver(e) \/ Raise(e) \/ Finish(e)

Next ==
  \/ \E input \in Inputs : OnTimestep(input)
  \/ NewHour
  \/ OutrunBudget
  \/ \E decision \in Decisions : Judge(decision)
  \/ \E e \in Cycles : RunCycle(e)

Spec == Init /\ [][Next]_vars

\* Every thread gets to run and the simulation goes on; nothing is said of how
\* long the model thinks, but the wall clock runs meanwhile.
FairSpec ==
  /\ Spec
  /\ WF_vars(OutrunBudget)
  /\ WF_vars(hourDue /\ \E input \in Inputs : OnTimestep(input))
  /\ \A e \in Cycles : WF_vars(RunCycle(e) /\ ~At(e, "infer"))

-----------------------------------------------------------------------------
(* Properties.                                                             *)

Undecided == {"resolve", "digest", "observe", "capture", "infer", "check"}
Delivering == {"journal", "feedback", "commit", "count"}
PCs == Undecided \cup Delivering \cup {"none", "finally", "done"}

Thread == [pc : PCs, input : Input, trigger : Triggers, plan : PlanRecord \cup {NoPlan},
           cached : BOOLEAN, snapshot : Nat, corrects : EventIds \cup {NoCycle}]

Statistics == [triggers : Nat, made : Nat, accepted : Nat, failed : Nat, timeouts : Nat,
               discarded : Nat, hits : Nat, holds : Nat, events : Nat]

Cached == [entries : [Situations -> PlanRecord \cup {NoPlan}], made : Nat, avoided : Nat]

\* Every variable has its type.
TypeOK ==
  /\ started \in BOOLEAN /\ hourDue \in BOOLEAN /\ overBudget \in BOOLEAN
  /\ epoch \in 0 .. MaxEpoch /\ inflight \in 0 .. MaxEpoch
  /\ stats \in Statistics
  /\ workers \in [Cycles -> Thread]
  /\ slot \in [plan : PlanRecord \cup {NoPlan}, generation : Nat]
  /\ cache \in Cached
  /\ feedback \in [seen : Nat, pending : EventIds \cup {NoCycle}]
  /\ events \in Seq([plan : EventIds, decision : Verdict, generation : Nat])
  /\ journal \in Seq([plan : Cycles, corrects : EventIds \cup {NoCycle}])

Running == {e \in Cycles : workers[e].pc \notin {"none", "done"}}
Uncounted == {e \in Cycles : workers[e].pc \in Undecided \cup Delivering}

\* Every cycle that was triggered ends in exactly one of the outcomes the
\* statistics report, or is still running (_run_cycle, _resolve_plan).
EveryCycleAccounted ==
  stats.triggers = stats.accepted + stats.failed + stats.discarded + stats.holds
                   + Cardinality(Uncounted)

\* The newest cycle is in flight exactly as long as its thread runs, and any
\* other thread still running was preempted (_can_start, the finally clause).
NewestInFlight ==
  /\ inflight = IF epoch \in Running THEN epoch ELSE NoCycle
  /\ Cardinality(Running \ {epoch}) <= stats.timeouts

\* A cycle that a newer trigger supersedes before its result is checked never
\* reaches the store or the slot (_run_cycle's epoch check).
LateResultDiscarded ==
  \A e \in Cycles :
    []((workers[e].pc \in Undecided /\ Superseded(e))
         => [](\A i \in DOMAIN journal : journal[i].plan # e))

\* The plan the executor may pick up is on record in the store, with what it
\* corrects, before it can drive the building (write_plan, then commit).
ActuatedIsJournalled ==
  SlotHolds(slot) => \E i \in DOMAIN journal : journal[i].plan = slot.plan.cycle

\* While no cycle is preempted, what a planning cycle has seen of the guardian's
\* complaints stays pending until a plan that corrects it is journalled: the
\* newest complaint seen is the pending one, or has been corrected, though the
\* callback goes on journalling verdicts (FeedbackTracker, _run_cycle).
VerdictNotLost ==
  LET bad == {i \in DOMAIN events : i <= feedback.seen /\ events[i].decision # "accepted"}
      newest == events[CHOOSE i \in bad : \A j \in bad : j <= i].plan
  IN  stats.timeouts = 0 /\ bad # {} =>
        \/ feedback.pending = newest
        \/ \E i \in DOMAIN journal : journal[i].corrects = newest

\* The ollama client has a timeout, so the planner returns in the end.
ModelReturns == \A e \in Cycles : At(e, "infer") ~> ~At(e, "infer")

\* If the model returns, every cycle ends and lets go of the flight, whatever
\* fails in it (the finally clause).
EveryCycleEnds == ModelReturns => \A e \in Cycles : At(e, "resolve") ~> At(e, "done")

\* An hour that is due is served even if the model never answers: the cycle in
\* flight is preempted (_due retries every timestep, _can_start).
HourServed == hourDue ~> (~hourDue \/ epoch = MaxEpoch \/ stats.timeouts = MaxTimeouts)
=============================================================================
