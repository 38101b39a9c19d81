------------------------------- MODULE Store -------------------------------
(***************************************************************************)
(* The telemetry store over one run (common/store.py), with its users: the *)
(* callback that records every timestep and judges the plans it sees, the  *)
(* planner threads that write their plans before they commit them, and the *)
(* harness that ends the run, drains the guardian's events and closes.     *)
(*                                                                         *)
(* Every method holds the store's lock, except that write_plan and its     *)
(* like let go of it between their flush and their transaction.            *)
(***************************************************************************)
EXTENDS Naturals, Sequences, FiniteSets

CONSTANTS
  Plans,          \* the plans of the run, by id
  WatchdogId,     \* the plan_id the watchdog's event carries
  FlushEvery,     \* TelemetryStore.flush_every_timesteps
  MaxTimesteps,   \* bound: timesteps recorded
  MaxFaults       \* bound: statements and commits that fail

ASSUME StoreAssumption ==
  FlushEvery \in Nat \ {0} /\ MaxTimesteps \in Nat /\ MaxFaults \in Nat

VARIABLES
  phase,      \* where the main thread is in the run
  recorded,   \* auxiliary: timesteps recorded so far, numbered from 1
  buffer,     \* _buffer: the timesteps whose rows it holds
  counter,    \* _timesteps_buffered
  db,         \* what is committed to the database file
  stuck,      \* a COMMIT failed and left its transaction open
  faults,     \* auxiliary: failures so far
  planner,    \* plan -> where the thread that plans it is
  since,      \* auxiliary: plan -> timesteps recorded when its cycle began
  slot,       \* the plans the PlanSlot holds: one at most
  verdicts,   \* Executor.guardian_events, by their plan_id
  tripped     \* Watchdog._tripped

vars == <<phase, recorded, buffer, counter, db, stuck, faults, planner, since, slot,
          verdicts, tripped>>

Init ==
  /\ phase = "starting"
  /\ recorded = 0 /\ buffer = << >> /\ counter = 0
  /\ db = [run |-> "none", telemetry |-> << >>, calls |-> {}, plans |-> {}, verdicts |-> {}]
  /\ stuck = FALSE /\ faults = 0
  /\ planner = [p \in Plans |-> "idle"]
  /\ since = [p \in Plans |-> 0]
  /\ slot = {}
  /\ verdicts = << >>
  /\ tripped = FALSE

-----------------------------------------------------------------------------
(* Transactions.                                                           *)

Connected == phase \notin {"closed", "crashed"}

Result(ok, new, left, n) == [ok |-> ok, db |-> new, stuck |-> left, faults |-> n]

\* _transaction: BEGIN raises on a closed connection or inside an open
\* transaction; a failing statement is rolled back, a failing COMMIT is not.
Transaction(new) ==
  IF ~Connected \/ stuck THEN {Result(FALSE, db, stuck, faults)}
  ELSE {Result(TRUE, new, FALSE, faults)}
       \cup {Result(FALSE, db, left, faults + 1) :
               left \in {s \in BOOLEAN : faults < MaxFaults}}

\* flush(): the rows leave the buffer first, whatever becomes of them.
Flush(rows) ==
  IF rows = << >> THEN {Result(TRUE, db, stuck, faults)}
  ELSE Transaction([db EXCEPT !.telemetry = @ \o rows])

Apply(result) == db' = result.db /\ stuck' = result.stuck /\ faults' = result.faults

\* Mutant of EmptyBuffer: the rows written stay in the buffer.
KeepBuffer == buffer' = buffer /\ counter' = 0

EmptyBuffer == buffer' = << >> /\ counter' = 0

-----------------------------------------------------------------------------
(* The run, from start_run to the first callback.                          *)

StartRun ==
  /\ phase = "starting"
  /\ \E result \in Transaction([db EXCEPT !.run = "started"]) :
       /\ Apply(result)
       /\ phase' = IF result.ok THEN "running" ELSE "closing"
  /\ UNCHANGED <<recorded, buffer, counter, planner, since, slot, verdicts, tripped>>

\* Mutant of BatchIsFull: one timestep late.
BatchIsOverfull == counter + 1 > FlushEvery

BatchIsFull == counter + 1 >= FlushEvery

\* record_timestep, from the callback; its failure is the callback's.
RecordTimestep ==
  /\ phase = "running" /\ recorded < MaxTimesteps
  /\ recorded' = recorded + 1
  /\ LET rows == Append(buffer, recorded + 1)
     IN  IF BatchIsFull
         THEN EmptyBuffer /\ \E result \in Flush(rows) : Apply(result)
         ELSE buffer' = rows /\ counter' = counter + 1 /\ UNCHANGED <<db, stuck, faults>>
  /\ UNCHANGED <<phase, planner, since, slot, verdicts, tripped>>

-----------------------------------------------------------------------------
(* A planner thread.                                                       *)

Move(p, from, to) ==
  planner[p] = from /\ planner' = [planner EXCEPT ![p] = to]

\* Mutant of StartCycle: the scheduler runs before the timestep is recorded.
StartEarly(p) ==
  /\ phase = "running"
  /\ Move(p, "idle", "asking")
  /\ since' = [since EXCEPT ![p] = recorded + 1]
  /\ UNCHANGED <<phase, recorded, buffer, counter, db, stuck, faults, slot, verdicts, tripped>>

\* The scheduler starts a cycle in the callback, after the timestep is recorded.
StartCycle(p) ==
  /\ phase = "running" /\ recorded > 0
  /\ Move(p, "idle", "asking")
  /\ since' = [since EXCEPT ![p] = recorded]
  /\ UNCHANGED <<phase, recorded, buffer, counter, db, stuck, faults, slot, verdicts, tripped>>

\* write_llm_call, which does not flush.
WriteCall(p) ==
  /\ \E result \in Transaction([db EXCEPT !.calls = @ \cup {p}]) :
       Apply(result) /\ Move(p, "asking", IF result.ok THEN "writing" ELSE "failed")
  /\ UNCHANGED <<phase, recorded, buffer, counter, since, slot, verdicts, tripped>>

\* Mutant of FlushFirst: the plan is written without a flush.
FlushLater(p) ==
  /\ Move(p, "writing", "flushed")
  /\ UNCHANGED <<phase, recorded, buffer, counter, db, stuck, faults, since, slot, verdicts, tripped>>

\* write_plan: the flush,
FlushFirst(p) ==
  /\ EmptyBuffer
  /\ \E result \in Flush(buffer) :
       Apply(result) /\ Move(p, "writing", IF result.ok THEN "flushed" ELSE "failed")
  /\ UNCHANGED <<phase, recorded, since, slot, verdicts, tripped>>

\* Mutant of InsertPlan: a failure to write the row goes unnoticed.
InsertUnchecked(p) ==
  /\ Move(p, "flushed", "written")
  /\ \E result \in Transaction([db EXCEPT !.plans = @ \cup {p}]) : Apply(result)
  /\ UNCHANGED <<phase, recorded, buffer, counter, since, slot, verdicts, tripped>>

\* and the row.
InsertPlan(p) ==
  /\ \E result \in Transaction([db EXCEPT !.plans = @ \cup {p}]) :
       Apply(result) /\ Move(p, "flushed", IF result.ok THEN "written" ELSE "failed")
  /\ UNCHANGED <<phase, recorded, buffer, counter, since, slot, verdicts, tripped>>

\* Then the scheduler commits the plan to the slot.
CommitPlan(p) ==
  /\ Move(p, "written", "committed")
  /\ slot' = {p}
  /\ UNCHANGED <<phase, recorded, buffer, counter, db, stuck, faults, since, verdicts, tripped>>

\* The executor, in the callback, journals the plan it finds in the slot. From
\* the watchdog's trip on it returns before it comes to that.
Judge(p) ==
  /\ phase = "running" /\ p \in slot /\ ~tripped
  /\ Move(p, "committed", "judged")
  /\ verdicts' = Append(verdicts, p)
  /\ UNCHANGED <<phase, recorded, buffer, counter, db, stuck, faults, since, slot, tripped>>

\* Watchdog.check, in the callback: too long without a valid plan, it trips for
\* good and the executor journals its event, which is of no plan. The first
\* timestep only starts its clock.
Trip ==
  /\ phase = "running" /\ recorded > 1 /\ ~tripped
  /\ tripped' = TRUE
  /\ verdicts' = Append(verdicts, WatchdogId)
  /\ UNCHANGED <<phase, recorded, buffer, counter, db, stuck, faults, planner, since, slot>>

-----------------------------------------------------------------------------
(* The end of the run.                                                     *)

\* EnergyPlus returns, and SimulationBus.run flushes.
FinalFlush ==
  /\ phase = "running"
  /\ EmptyBuffer
  /\ \E result \in Flush(buffer) :
       Apply(result) /\ phase' = IF result.ok THEN "ending" ELSE "closing"
  /\ UNCHANGED <<recorded, planner, since, slot, verdicts, tripped>>

\* end_run; its own flush finds nothing, the callback being over.
EndRun ==
  /\ phase = "ending"
  /\ \E result \in Transaction([db EXCEPT !.run = "ended"]) :
       Apply(result) /\ phase' = IF result.ok THEN "draining" ELSE "closing"
  /\ UNCHANGED <<recorded, buffer, counter, planner, since, slot, verdicts, tripped>>

\* Mutant of DrainEvent: one event, and the rest is forgotten.
DrainOne ==
  /\ phase = "draining" /\ verdicts # << >>
  /\ \E result \in Transaction([db EXCEPT !.verdicts = @ \cup {Head(verdicts)}]) :
       Apply(result) /\ verdicts' = << >> /\ phase' = "closing"
  /\ UNCHANGED <<recorded, buffer, counter, planner, since, slot, tripped>>

\* drain_events takes the whole list and writes it one by one: a failure loses
\* the rest.
DrainEvent ==
  /\ phase = "draining" /\ verdicts # << >>
  /\ \E result \in Transaction([db EXCEPT !.verdicts = @ \cup {Head(verdicts)}]) :
       /\ Apply(result)
       /\ verdicts' = IF result.ok THEN Tail(verdicts) ELSE << >>
       /\ phase' = IF result.ok THEN phase ELSE "closing"
  /\ UNCHANGED <<recorded, buffer, counter, planner, since, slot, tripped>>

Drained ==
  /\ phase = "draining" /\ verdicts = << >>
  /\ phase' = "closing"
  /\ UNCHANGED <<recorded, buffer, counter, db, stuck, faults, planner, since, slot, verdicts, tripped>>

\* close(): a last flush, and the connection is gone whether or not it works.
Close ==
  /\ phase = "closing"
  /\ EmptyBuffer
  /\ \E result \in Flush(buffer) : Apply(result)
  /\ phase' = "closed"
  /\ UNCHANGED <<recorded, planner, since, slot, verdicts, tripped>>

\* The process is killed.
Crash ==
  /\ Connected
  /\ phase' = "crashed"
  /\ UNCHANGED <<recorded, buffer, counter, db, stuck, faults, planner, since, slot, verdicts, tripped>>

Plan(p) ==
  /\ phase # "crashed"
  /\ \/ StartCycle(p) \/ WriteCall(p) \/ FlushFirst(p)
     \/ InsertPlan(p) \/ CommitPlan(p) \/ Judge(p)

Next ==
  \/ StartRun \/ RecordTimestep \/ Trip
  \/ \E p \in Plans : Plan(p)
  \/ FinalFlush \/ EndRun \/ DrainEvent \/ Drained \/ Close
  \/ Crash

Spec == Init /\ [][Next]_vars

-----------------------------------------------------------------------------
(* Properties.                                                             *)

Row == 1 .. recorded
Judged == Plans \cup {WatchdogId}
Durable == {db.telemetry[i] : i \in DOMAIN db.telemetry}

\* Every variable has its type.
TypeOK ==
  /\ phase \in {"starting", "running", "ending", "draining", "closing", "closed", "crashed"}
  /\ recorded \in Nat /\ counter \in Nat /\ faults \in Nat /\ stuck \in BOOLEAN
  /\ buffer \in Seq(Row)
  /\ db \in [run: {"none", "started", "ended"}, telemetry: Seq(Row),
             calls: SUBSET Plans, plans: SUBSET Plans, verdicts: SUBSET Judged]
  /\ planner \in [Plans -> {"idle", "asking", "writing", "flushed", "written",
                            "committed", "judged", "failed"}]
  /\ since \in [Plans -> Row \cup {0}]
  /\ slot \subseteq Plans
  /\ verdicts \in Seq(Judged)
  /\ tripped \in BOOLEAN

\* Whatever fails and whichever threads flush, no timestep is written twice and
\* the rows reach the database in the order they were recorded (flush).
WrittenOnceInOrder ==
  LET rows == db.telemetry \o buffer
  IN  \A i, j \in DOMAIN rows : i < j => rows[i] < rows[j]

\* A crash costs less than a batch: short of a failed transaction, the database
\* holds every timestep up to one of the last FlushEvery (record_timestep).
CrashCostsLessThanABatch ==
  faults = 0 => /\ recorded - Len(db.telemetry) < FlushEvery
                /\ Durable = 1 .. Len(db.telemetry)

Justified(p) == 1 .. since[p] \subseteq Durable

\* Short of a failed transaction, a plan on record has all the telemetry it was
\* made from on record, wherever the process dies (write_plan's flush).
PlansJustified == faults = 0 => \A p \in db.plans : Justified(p)

\* A verdict on record is of a plan on record, but for the watchdog's event,
\* which is of no plan (write_plan before commit; drain_events).
VerdictsHavePlans == db.verdicts \ {WatchdogId} \subseteq db.plans

\* A run that closed without a failure kept everything: its end, its telemetry,
\* a verdict for every plan that was judged, and the watchdog's trip (run,
\* drain_events, close).
ClosedRunComplete ==
  phase = "closed" /\ faults = 0 =>
    /\ db.run = "ended"
    /\ Durable = Row
    /\ \A p \in Plans : planner[p] = "judged" => p \in db.verdicts
    /\ tripped => WatchdogId \in db.verdicts
=============================================================================
