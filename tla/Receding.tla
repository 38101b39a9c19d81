------------------------------ MODULE Receding ------------------------------
(***************************************************************************)
(* The receding-horizon driver (simulation/receding.py): a run is          *)
(* simulated in chunks of days; before each a provider may give a plan,    *)
(* which is rendered into the schedules of the chunk's model.  Days and    *)
(* slots of a day are counted from 0.                                      *)
(*                                                                         *)
(* There are two calendars.  The driver's has the year of its start date;  *)
(* a run period has none, only a weekday, so EnergyPlus takes a year in    *)
(* which the first day falls on that weekday, and it is that year which    *)
(* the results have (read_chunk_results).                                  *)
(***************************************************************************)
EXTENDS Lowering, FiniteSets

CONSTANTS
  Totals,       \* how many days a run may be asked for
  HorizonDays,  \* days of a chunk
  Zones,        \* the zones, numbered in the order of their names
  Binding,      \* zone -> actuator -> schedule
  Baseline,     \* schedule -> its value in the prepared model
  Shifts,       \* how many days the year of EnergyPlus may be ahead
  Offers,       \* what the provider may return: an ApprovedPlan, by its plan_id
  Results,      \* what a chunk may report: slots from its start, which are in
                \* the run period, and which have people in them
  NoPlan        \* there is no plan

Actuators == {"cooling", "heating"}
SetpointStep == [offset : Nat, zone : Zones, actuator : Actuators, value : Int]
ApprovedPlan == [anchor : Int, steps : Seq(SetpointStep)]

ASSUME RecedingAssumption ==
  /\ Totals \subseteq Nat \ {0} /\ HorizonDays \in Nat \ {0} /\ Shifts \subseteq Nat
  /\ Zones \subseteq Nat
  /\ \A s \in DOMAIN Baseline : Baseline[s] \in Int
  /\ \A z \in Zones : \A a \in DOMAIN Binding[z] : Binding[z][a] \in DOMAIN Baseline
  /\ \A offer \in Offers : offer.steps \in Seq(SetpointStep)
  /\ NoPlan \notin ApprovedPlan

VARIABLES
  total,     \* total_days
  shift,     \* the days the year of EnergyPlus is ahead of the driver's
  pc,        \* where the driver is
  chunk,     \* the chunk, from 0
  anchors,   \* _plan_anchor: id -> when a plan of that id was first written
  active,    \* _active_plan: [anchor, steps], the anchor is that of its id
  staged,    \* _staged
  lastTime,  \* the time of _last_state, or -1
  occupied,  \* did the chunk before observe people
  model,     \* schedule -> its profile in the model of the chunk
  snapshot,  \* the control state recorded for the chunk
  rows       \* the times of the timesteps recorded in the store

vars == <<total, shift, pc, chunk, anchors, active, staged, lastTime, occupied, model, snapshot, rows>>

Schedules == DOMAIN Baseline

\* The numbers of a set, from the least to the greatest.
InOrder(numbers) ==
  [i \in 1 .. Cardinality(numbers) |->
     CHOOSE n \in numbers : Cardinality({m \in numbers : m <= n}) = i]

-----------------------------------------------------------------------------
(* plan_chunks                                                             *)

Chunks == 0 .. (total - 1) \div HorizonDays
Days(k) == Least(HorizonDays, total - k * HorizonDays)
StartOf(k) == k * HorizonDays * Day
EndOf(k) == StartOf(k) + Days(k) * Day

\* What the results of EnergyPlus are ahead of the driver's calendar.
Ahead == shift * Day

-----------------------------------------------------------------------------
(* breakpoints_for_chunk.  The points of a list are a set: their order is  *)
(* by time, and for one time by their places in the plan.                  *)

Point(at, place, value) == [at |-> at, place |-> place, value |-> value]

Earlier(p, q) == p.at < q.at \/ (p.at = q.at /\ p.place < q.place)
Latest(points) == CHOOSE p \in points : \A q \in points : q = p \/ Earlier(q, p)

\* The steps for one zone and actuator, at their times in the chunk.
Relevant(plan, k, zone, actuator) ==
  {Point(plan.steps[i].offset - (StartOf(k) - plan.anchor), i, plan.steps[i].value)
   : i \in {j \in DOMAIN plan.steps : /\ plan.steps[j].zone = zone
                                      /\ plan.steps[j].actuator = actuator}}

InChunk(points, k) == {p \in points : p.at > 0 /\ p.at < Days(k) * Day}

\* Mutant of Points: the steps before the chunk are not looked at.
PointsInside(plan, k, zone, actuator, baseline) ==
  {Point(0, 0, baseline)} \cup InChunk(Relevant(plan, k, zone, actuator), k)

\* The value in force at the start of the chunk, which a step of days ago may
\* have set, and the steps within it.
Points(plan, k, zone, actuator, baseline) ==
  LET relevant == Relevant(plan, k, zone, actuator)
      before == {p \in relevant : p.at <= 0}
  IN  {Point(0, 0, IF before = {} THEN baseline ELSE Latest(before).value)}
      \cup InChunk(relevant, k)

\* Of consecutive points with the same value the first remains.
Collapsed(points) ==
  {p \in points : LET before == {q \in points : Earlier(q, p)}
                  IN  before = {} \/ Latest(before).value # p.value}

-----------------------------------------------------------------------------
(* compact_fields                                                          *)

\* Each point holds until the next, or the end of the day; of points at one
\* time the one with the greatest value is last.
Compact(points) ==
  LET times == {p.at : p \in points}
      lastAt(t) == Max({p.value : p \in {q \in points : q.at = t}})
      blocks == {[from |-> t, until |-> Min({Day} \cup {u \in times : u > t}),
                  value |-> lastAt(t)] : t \in {u \in times : u < Day}}
  IN  IF blocks # {} THEN blocks
      ELSE {[from |-> 0, until |-> Day, value |-> lastAt(Max(times))]}

\* EnergyPlus (external): the value a profile has at a time of any day.
ValueAt(profile, slot) ==
  (CHOOSE b \in profile : /\ slot < b.until
                          /\ \A c \in profile : slot < c.until => b.until <= c.until).value

-----------------------------------------------------------------------------
(* _write_schedules                                                        *)

Serves(z, a, s) == a \in DOMAIN Binding[z] /\ Binding[z][a] = s

\* The zone that stands for a schedule some zones share.
FirstZone(s) ==
  CHOOSE z \in Zones :
    /\ \E a \in DOMAIN Binding[z] : Binding[z][a] = s
    /\ \A y \in Zones : (\E a \in DOMAIN Binding[y] : Binding[y][a] = s) => z <= y

ActuatorOf(s) == CHOOSE a \in DOMAIN Binding[FirstZone(s)] : Serves(FirstZone(s), a, s)

Profile(s) ==
  Compact(IF active = NoPlan THEN {Point(0, 0, staged[s])}
          ELSE Collapsed(Points(active, chunk, FirstZone(s), ActuatorOf(s), Baseline[s])))

-----------------------------------------------------------------------------
(* run                                                                     *)

Init ==
  /\ total \in Totals /\ shift \in Shifts /\ pc = "plan" /\ chunk = 0
  /\ anchors = << >> /\ active = NoPlan /\ staged = Baseline
  /\ lastTime = -1 /\ occupied = FALSE
  /\ model = << >> /\ snapshot = << >>
  /\ rows = << >>

\* The time of the last result, which is of EnergyPlus's year; before there is
\* one, the start of the run.
Now == IF lastTime = -1 THEN StartOf(chunk) ELSE lastTime

\* The plan provider returns None.  The plan there is stays active.
NoNewPlan ==
  /\ pc = "plan" /\ pc' = "snapshot"
  /\ UNCHANGED <<total, shift, chunk, anchors, active, staged, lastTime, occupied, model,
                 snapshot, rows>>

\* Mutant of Anchored: a plan that is given again is anchored anew.
AnchoredAfresh(id) ==
  [i \in DOMAIN anchors \cup {id} |-> IF i = id THEN Now ELSE anchors[i]]

\* The first plan of an id sets its anchor (setdefault).
Anchored(id) ==
  [i \in DOMAIN anchors \cup {id} |-> IF i \in DOMAIN anchors THEN anchors[i] ELSE Now]

\* The values that have come due, in the order of the list.
Staged(steps, elapsed) ==
  FoldLeft(LAMBDA values, step :
             IF step.offset <= elapsed /\ step.actuator \in DOMAIN Binding[step.zone]
             THEN [values EXCEPT ![Binding[step.zone][step.actuator]] = step.value]
             ELSE values,
           staged, steps)

\* write_setpoints
Write(id, steps) ==
  /\ pc = "plan" /\ pc' = "snapshot"
  /\ anchors' = Anchored(id)
  /\ active' = [anchor |-> Anchored(id)[id], steps |-> steps]
  /\ staged' = Staged(steps, Now - Anchored(id)[id])
  /\ UNCHANGED <<total, shift, chunk, lastTime, occupied, model, snapshot, rows>>

\* The plan provider raises: the exception ends the run.
ProviderRaises ==
  /\ pc = "plan" /\ pc' = "raised"
  /\ UNCHANGED <<total, shift, chunk, anchors, active, staged, lastTime, occupied, model,
                 snapshot, rows>>

Snapshot ==
  /\ pc = "snapshot" /\ pc' = "write"
  /\ snapshot' = staged
  /\ UNCHANGED <<total, shift, chunk, anchors, active, staged, lastTime, occupied, model, rows>>

\* _write_chunk_idf
WriteModel ==
  /\ pc = "write" /\ pc' = "simulate"
  /\ model' = [s \in Schedules |-> Profile(s)]
  /\ UNCHANGED <<total, shift, chunk, anchors, active, staged, lastTime, occupied, snapshot,
                 rows>>

\* EnergyPlus fails, or leaves nothing to read: the run stops.
ChunkFails ==
  /\ pc = "simulate" /\ pc' = "failed"
  /\ UNCHANGED <<total, shift, chunk, anchors, active, staged, lastTime, occupied, model,
                 snapshot, rows>>

\* Mutant of Read: the sizing days are read as well.
ReadAll(result) == result

\* read_chunk_results: what was reported of the run period.
Read(result) == {r \in result : r.runPeriod}

\* EnergyPlus (external) reports on the run period what is of the chunk's days.
OfChunk(result, k) == \A r \in result : r.runPeriod => r.at \in 1 .. Days(k) * Day

ChunkRuns(result) ==
  /\ pc = "simulate" /\ OfChunk(result, chunk) /\ Read(result) # {}
  /\ LET times == {StartOf(chunk) + Ahead + r.at : r \in Read(result)}
     IN  /\ rows' = rows \o InOrder(times)
         /\ lastTime' = Last(InOrder(times))
         /\ occupied' = \E r \in Read(result) : r.people
  /\ IF chunk + 1 \in Chunks THEN pc' = "plan" /\ chunk' = chunk + 1
                             ELSE pc' = "done" /\ UNCHANGED chunk
  /\ UNCHANGED <<total, shift, anchors, active, staged, model, snapshot>>

Next ==
  \/ NoNewPlan \/ ProviderRaises
  \/ \E offer \in Offers : Write(offer.id, offer.steps)
  \/ Snapshot \/ WriteModel \/ ChunkFails
  \/ \E result \in Results : ChunkRuns(result)

Spec == Init /\ [][Next]_vars

-----------------------------------------------------------------------------
(* Properties.                                                             *)

\* What the bus would have a schedule hold at some time: the value of the latest
\* step that has come due, the later in the plan of two for one time.
StepsFor(plan, s) ==
  {i \in DOMAIN plan.steps : /\ plan.steps[i].zone = FirstZone(s)
                             /\ plan.steps[i].actuator = ActuatorOf(s)}

InForce(plan, s, time) ==
  LET due == {i \in StepsFor(plan, s) : plan.anchor + plan.steps[i].offset <= time}
      latest == CHOOSE i \in due : \A j \in due \ {i} :
                  \/ plan.steps[j].offset < plan.steps[i].offset
                  \/ plan.steps[j].offset = plan.steps[i].offset /\ j < i
  IN  IF due = {} THEN Baseline[s] ELSE plan.steps[latest].value

\* Throughout the first day of a chunk each schedule has the value the plan asks
\* for, from the baseline before its first step to its last, days after the plan
\* was made; or, where steps of the chunk are for one time, that of the warmest
\* of them, until the plan asks for another value than it did then.  Not so when
\* EnergyPlus is in a later year and the plan has its anchor there: nothing of
\* such a plan has a place in the chunk, and the baseline is held
\* (_write_schedules, breakpoints_for_chunk, compact_fields).
ProfileFollowsPlan ==
  pc = "simulate" =>
    \A s \in Schedules, slot \in 0 .. Day - 1 :
      LET held == ValueAt(model[s], slot)
          asked(t) == InForce(active, s, StartOf(chunk) + t)
      IN  IF active = NoPlan \/ (shift >= total /\ active.anchor > 0)
          THEN held = Baseline[s]
          ELSE \/ held = asked(slot)
               \/ /\ held > asked(slot)
                  /\ \E i \in StepsFor(active, s), t \in 1 .. slot :
                       /\ active.anchor + active.steps[i].offset = StartOf(chunk) + t
                       /\ active.steps[i].value = held
                       /\ \A u \in t .. slot : asked(u) = asked(slot)

\* The store has the timesteps of the run period, each once and in order, and
\* those of no chunk but the ones that ran (_run_chunk, read_chunk_results).
RecordedInOrder ==
  /\ \A i \in 1 .. Len(rows) - 1 : rows[i] < rows[i + 1]
  /\ \A i \in DOMAIN rows :
       rows[i] <= Ahead + (IF pc = "done" THEN EndOf(chunk) ELSE StartOf(chunk))
  /\ pc = "done" => chunk = (total - 1) \div HorizonDays
=============================================================================
