--------------------------------- MODULE Arms ---------------------------------
(***************************************************************************)
(* The comparison of experiments/ab.py and its report: prepare the model,  *)
(* run the arms one after the other under the same conditions, write the   *)
(* manifest, and report on the directories the arms left.  EnergyPlus is   *)
(* external: a run reports the energy its arm used at each frequency the   *)
(* file asks for, and may fail on the way.                                 *)
(***************************************************************************)
EXTENDS Preparation, Metering

CONSTANTS
  Prototype,     \* baseline.idf
  Temperatures,  \* the hours of the weather file
  WindowHours,   \* _HOURS_PER_WEEK
  PeriodDays,    \* days of the hottest week
  MonthDays,     \* days of a month: the 28 from which run_ab takes a month
  Requests,      \* [start, days, steps, secondary]: the arguments of run_ab
  NoStart,       \* no --start
  Profiles,      \* meter -> timestep -> energy: what a building may use
  Occupied,      \* the timesteps the zones are occupied
  Uncomfortable, \* those of them in which the PMV is out
  NoFile         \* not written

Labels == {"baseline", "constant", "agent"}
Meters == {FacilityMeter} \cup HvacMeters

\* The prototype has one name per thing, and asks for variables under "*" only;
\* no variable has the name of a meter, and those of the comfort table are read.
ASSUME PrototypeAssumption ==
  /\ Wanted(ThermostatSchedules(Prototype), "cooling")
     \cap Wanted(ThermostatSchedules(Prototype), "heating") = {}
  /\ \A v \in Prototype.variables : v.key = "*"
  /\ FacilityMeter = SiteMeter /\ HvacMeters \subseteq RequiredMeters
  /\ InputFile(Prototype)
  /\ {v.variable : v \in Prototype.variables} \cap Meters = {}
  /\ (ZoneVariables \cup PeopleVariables) \cap Meters = {}
  /\ {AirTemp, Occupancy} \subseteq ZoneVariables /\ Pmv \in PeopleVariables

VARIABLES
  prepared,  \* agentic.idf and agentic_model.json
  stage,     \* where run_ab is
  request,   \* its arguments, with the period they resolve to
  dirs,      \* label -> the arm's output directory
  manifest,  \* manifest.json: the labels it lists
  report     \* results.json

vars == <<prepared, stage, request, dirs, manifest, report>>

Init ==
  /\ prepared = NoFile /\ stage = "idle" /\ request = NoFile
  /\ dirs = [l \in Labels |-> NoFile]
  /\ manifest = {} /\ report = NoFile

-----------------------------------------------------------------------------
(* EnergyPlus (external).                                                  *)

\* The ends of the intervals of that many minutes.
Ends(interval, days) == {i * interval : i \in 1 .. (days * 60 * HoursPerDay) \div interval}

\* The readings of one series, one per interval, by the minute it ends in.
Series(name, key, every, interval, reading) ==
  LET perDay == 60 * HoursPerDay
      day(e) == (e - 1) \div perDay
      hour(e) == (e - day(e) * perDay) \div 60
  IN  {[name |-> name, key |-> key, every |-> every, env |-> 2, warmup |-> FALSE,
        interval |-> interval, day |-> day(e), hour |-> hour(e),
        minute |-> (e - day(e) * perDay) % 60, value |-> reading[e]]
       : e \in DOMAIN reading}

\* A requested frequency, as the length of its interval.
Length(every, steps) == IF every = "step" THEN 60 \div steps ELSE 60

\* The timesteps that end after minute a and no later than minute b.
Steps(a, b, steps) == {i \in 1 .. (b * steps) \div 60 : i * 60 > a * steps}

\* What a meter reads at that frequency: the energy used in each interval.
MeterRead(meter, every, days, steps, profile) ==
  LET interval == Length(every, steps)
  IN  Series(meter, "", every, interval,
             [e \in Ends(interval, days) |->
                SumFunction([i \in Steps(e - interval, e, steps) |-> profile[meter][i]])])

\* The minute in which the month of a day of the run ends, after the run or in it.
MonthEnd(period, day) ==
  LET month == (period.first + day) \div MonthDays
  IN  ((month + 1) * MonthDays - period.first) * 60 * HoursPerDay

\* What it reads by the month: the energy used in each month the run is in.  The
\* interval is the month's, however little of it is simulated.
MonthRead(meter, every, period, steps, profile) ==
  LET all == 1 .. period.days * HoursPerDay * steps
      end == [i \in all |-> MonthEnd(period, (i - 1) \div (HoursPerDay * steps))]
  IN  Series(meter, "", every, MonthDays * 60 * HoursPerDay,
             [e \in {end[i] : i \in all} |->
                SumFunction([i \in {j \in all : end[j] = e} |-> profile[meter][i]])])

Metered(meter, every, period, steps, profile) ==
  IF every = "month" THEN MonthRead(meter, every, period, steps, profile)
  ELSE MeterRead(meter, every, period.days, steps, profile)

\* The facility's energy is read by the month too: the prototype's environmental
\* impact factors ask for it (baseline.idf's Output:EnvironmentalImpactFactors).
MeterRows(idf, profile) ==
  LET read(meter, every) == Metered(meter, every, idf.period, idf.steps, profile)
  IN  (UNION {read(q.name, q.every) : q \in {m \in idf.meters : m.name \in Meters}})
      \cup read(FacilityMeter, "month")

\* The zone variables, under their own key or under "*".
VariableRows(idf, zones) ==
  LET days == idf.period.days
      read(variable, interval, e) ==
        LET now == Steps(e - interval, e, idf.steps)
        IN  IF variable = Occupancy THEN Cardinality(now \cap Occupied)
            ELSE IF variable = Pmv THEN Threshold + Cardinality(now \cap Uncomfortable)
            ELSE 0
      keys(v) == IF v.key # "*" THEN {v.key}
                 ELSE IF v.variable \in ZoneVariables THEN DOMAIN zones
                      ELSE {zones[z].people : z \in DOMAIN zones}
      series(v, k, interval) ==
        Series(v.variable, k, v.every, interval,
               [e \in Ends(interval, days) |-> read(v.variable, interval, e)])
  IN  UNION {UNION {series(v, k, Length(v.every, idf.steps)) : k \in keys(v)}
             : v \in idf.variables}

\* A design day and the warmup of the period leave readings too.
Extra(idf) ==
  {[name |-> m, key |-> "", every |-> "hour", env |-> e, warmup |-> e = 2, interval |-> 60,
    day |-> 0, hour |-> 1, minute |-> 0, value |-> 9]
   : m \in {r.name : r \in idf.meters} \cap Meters, e \in {1, 2}}

\* What a run leaves in eplusout.sql.
Simulated(idf, zones, profile) ==
  IF idf.weather
  THEN [environments |-> <<"design", "weather">>,
        rows |-> MeterRows(idf, profile) \cup VariableRows(idf, zones) \cup Extra(idf)]
  ELSE [environments |-> <<"design">>, rows |-> {r \in Extra(idf) : r.env = 1}]

\* A run that fails on the first day leaves what it had written.
Interrupted(sql) == [sql EXCEPT !.rows = {r \in @ : r.day = 0 /\ r.interval <= 60}]

-----------------------------------------------------------------------------
(* simulation.prepare_idf and experiments.ab.                              *)

Prepare ==
  /\ stage \in {"idle", "done", "raised"}
  /\ Preparable(Prototype)
  /\ prepared' = Prepared(Prototype)
  /\ UNCHANGED <<stage, request, dirs, manifest, report>>

\* _resolve_spec: from the start asked for; or, when a month's days or more are
\* asked for, the month the hottest week begins in; or that week, whatever fewer
\* days are asked for.  No days is 0.
Resolve(r) ==
  LET hottest == HottestDay(Temperatures, HoursPerDay, WindowHours)
  IN  IF r.start # NoStart
      THEN [first |-> r.start, days |-> IF r.days = 0 THEN PeriodDays ELSE r.days]
      ELSE IF r.days >= MonthDays
           THEN [first |-> (hottest \div MonthDays) * MonthDays, days |-> MonthDays]
           ELSE [first |-> hottest, days |-> PeriodDays]

\* What was asked for can be simulated: timesteps divide the hour, and a building
\* has used something or nothing in each of the period.
ASSUME RequestAssumption ==
  /\ PeriodDays \in Nat \ {0} /\ MonthDays \in Nat \ {0} /\ Threshold \in Nat
  /\ \A r \in Requests :
       /\ r.days \in Nat /\ r.steps \in 1 .. 60 /\ 60 % r.steps = 0
       /\ Resolve(r).first \in Nat
       /\ \A i \in 1 .. Resolve(r).days * HoursPerDay * r.steps :
            \A profile \in Profiles, m \in Meters : profile[m][i] \in Nat

\* run_ab begins, in a directory of its own, once the model is prepared.
BeginRun(r) ==
  /\ stage = "idle" /\ prepared # NoFile
  /\ request' = [steps |-> r.steps, secondary |-> r.secondary, period |-> Resolve(r)]
  /\ stage' = "baseline"
  /\ UNCHANGED <<prepared, dirs, manifest, report>>

Source(label) == IF label = "baseline" THEN Prototype ELSE prepared.idf

AfterArm(label) ==
  IF label = "baseline" /\ request.secondary # "none" THEN "constant"
  ELSE IF label = "agent" THEN "manifest" ELSE "agent"

\* run_bare_arm and run_agent_arm: prepare a copy, simulate it, and raise unless
\* EnergyPlus ended well.  Severe errors are only logged.
RunArm(label, profile, outcome) ==
  /\ stage = label /\ request.secondary \in {"none", "constant"}
  /\ LET idf == PrepareArm(Source(label), request.period, request.steps)
         sql == Simulated(idf, prepared.zones, profile)
     IN  dirs' = [dirs EXCEPT ![label] =
                    [sql |-> IF outcome = "fatal" THEN Interrupted(sql) ELSE sql,
                     outcome |-> outcome, profile |-> profile]]
  /\ stage' = IF outcome = "fatal" THEN "raised" ELSE AfterArm(label)
  /\ UNCHANGED <<prepared, request, manifest, report>>

\* An unknown secondary baseline is found out after the baseline has run.
RunBaselineThenRaise(profile) ==
  /\ stage = "baseline" /\ request.secondary \notin {"none", "constant"}
  /\ LET idf == PrepareArm(Prototype, request.period, request.steps)
     IN  dirs' = [dirs EXCEPT !.baseline =
                    [sql |-> Simulated(idf, prepared.zones, profile),
                     outcome |-> "clean", profile |-> profile]]
  /\ stage' = "raised"
  /\ UNCHANGED <<prepared, request, manifest, report>>

WriteManifest ==
  /\ stage = "manifest"
  /\ manifest' = {l \in Labels : dirs[l] # NoFile}
  /\ stage' = "done"
  /\ UNCHANGED <<prepared, request, dirs, report>>

-----------------------------------------------------------------------------
(* experiments.report, run by hand on the newest directory: it reads the   *)
(* arms that are there, with or without a manifest.                        *)

Comparisons(labels) ==
  {<<"baseline", "agent">>, <<"baseline", "constant">>, <<"constant", "agent">>}
  \cap (labels \X labels)

BuildReport ==
  /\ stage \in {"done", "raised"} /\ report = NoFile
  /\ LET labels == {l \in Labels : dirs[l] # NoFile}
         arms == [l \in labels |-> ArmReport(dirs[l].sql, prepared.zones)]
     IN  /\ labels # {}
         /\ report' = [arms |-> arms,
                       deltas |-> [c \in Comparisons(labels) |->
                                     Delta(arms[c[1]], arms[c[2]])]]
  /\ UNCHANGED <<prepared, stage, request, dirs, manifest>>

Next ==
  \/ Prepare
  \/ \E r \in Requests : BeginRun(r)
  \/ \E label \in Labels, profile \in Profiles, outcome \in {"clean", "severe", "fatal"} :
       RunArm(label, profile, outcome)
  \/ \E profile \in Profiles : RunBaselineThenRaise(profile)
  \/ WriteManifest
  \/ BuildReport

Spec == Init /\ [][Next]_vars

-----------------------------------------------------------------------------
(* Properties.                                                             *)

Reported == IF report = NoFile THEN {} ELSE DOMAIN report.arms

\* What the arm used in the period, timestep by timestep.
PeriodSteps == 1 .. request.period.days * HoursPerDay * request.steps
TrueEnergy(label, meter) ==
  SumFunction([i \in PeriodSteps |-> dirs[label].profile[meter][i]])
TruePeak(label) ==
  Max({dirs[label].profile[FacilityMeter][i] : i \in PeriodSteps})
  * (PeriodMinutes \div (60 \div request.steps))

\* The saving computed is the saving made, as a percentage.
SameRatio(percent, before, after) ==
  IF percent = << >> THEN before = 0
  ELSE before > 0 /\ percent[1] * before = percent[2] * (before - after)

\* The savings the report of a finished comparison states, per meter in percent
\* and at peak demand, are those the buildings made, although the facility meter
\* is read at several frequencies: the conditions are the same for every arm
\* (ab.py's prepare_arm_idf).
SavingsAreReal ==
  report # NoFile /\ manifest # {} =>
    \A c \in DOMAIN report.deltas :
      LET d == report.deltas[c]
      IN  /\ SameRatio(d.site, TrueEnergy(c[1], FacilityMeter), TrueEnergy(c[2], FacilityMeter))
          /\ \A m \in HvacMeters :
               SameRatio(d.hvac[m], TrueEnergy(c[1], m), TrueEnergy(c[2], m))
          /\ d.peak = TruePeak(c[1]) - TruePeak(c[2])

\* Do the daily rows, and the running total, add up to the headline?
AddsUp(arm) ==
  LET days == DOMAIN arm.daily
  IN  /\ SumFunction([d \in days |-> arm.daily[d].kwh]) = arm.kpis.site.kwh
      /\ SumFunction([d \in days |-> arm.daily[d].cost]) = arm.kpis.site.cost
      /\ SumFunction([d \in days |-> arm.daily[d].carbon]) = arm.kpis.site.carbon
      /\ Max({0} \cup {arm.daily[d].peak : d \in days}) = arm.kpis.site.peak
      /\ \A t \in DOMAIN arm.cumulative :
           (\A u \in DOMAIN arm.cumulative : u <= t) => arm.cumulative[t] = arm.kpis.site.kwh

\* The daily rows of a report and its running total add up to its headline,
\* whichever arms failed: the two readers of the database count the same rows
\* (report.py's docstring; kpis.py).
ReportAddsUp == \A l \in Reported : AddsUp(report.arms[l])

\* What the comfort table takes for granted of the prototype: that most readings
\* of the meters are of a timestep, the monthly reading included, that occupancy and
\* PMV are not asked for at another frequency too, and that "*" names nothing.
ComfortMetered ==
  LET asked == {q \in EnsureOutputs(EnsureMeters(Prototype), {}, {}).meters : q.name \in Meters}
      often == {q.name : q \in {p \in asked : p.every = "step"}}
      seldom == {<<q.name, q.every>> : q \in {p \in asked : p.every # "step"}}
  IN  /\ \A r \in Requests : Cardinality(seldom) + 1 < r.steps * Cardinality(often)
      /\ \A v \in Prototype.variables : v.variable \in {Occupancy, Pmv} => v.every = "step"
      /\ "*" \notin DOMAIN ThermostatSchedules(Prototype)
      /\ \A z \in DOMAIN ZonePeople(Prototype) : ZonePeople(Prototype)[z] # "*"

\* The hours occupied, and in discomfort, that a report states of an arm that
\* ran to its end are the hours that were, whatever frequencies the meters and
\* variables are read at (kpis.py's inferred timestep, comfort_table).
ComfortHoursReal ==
  \A l \in Reported :
    dirs[l].outcome # "fatal" =>
      LET row(z) == report.arms[l].comfort[z]
          minutes(S) == (60 \div request.steps) * Cardinality(S \cap PeriodSteps)
      IN  /\ DOMAIN report.arms[l].comfort = DOMAIN prepared.zones
          /\ \A z \in DOMAIN prepared.zones :
               /\ row(z).occupied = minutes(Occupied)
               /\ prepared.zones[z].people # NoPeople =>
                    row(z).violation = minutes(Occupied \cap Uncomfortable)

\* The site energy of an arm of a finished comparison is what its facility meter
\* measured over the period: asking for the meter at a second frequency leaves
\* the indicators as they are.
EnergyCountedOnce ==
  manifest # {} =>
    \A l \in Reported :
      report.arms[l].kpis.site.kwh = TrueEnergy(l, FacilityMeter)
=============================================================================
