----------------------------- MODULE Preparation -----------------------------
(***************************************************************************)
(* What simulation/prepare_idf.py and run_baseline.py do to an EnergyPlus  *)
(* input file.  A file is a record of the objects they read or write:      *)
(*   zoneLists, controls, thermostats  who controls which zone             *)
(*   schedules    name -> "compact" with its numbers, or "constant"        *)
(*   people       the People objects, and whether they have a Fanger model *)
(*   variables, meters, sqlite         the outputs it requests             *)
(*   period, steps, weather            what is simulated                   *)
(* Names are taken to be spelled in one way throughout a file.             *)
(***************************************************************************)
EXTENDS Integers, Sequences, FiniteSets, FiniteSetsExt

CONSTANTS
  NoSchedule,       \* a thermostat without that setpoint
  NoPeople,         \* a zone without a People object
  ZoneVariables,    \* ZONE_VARIABLES, keyed by zone
  PeopleVariables,  \* PEOPLE_VARIABLES, keyed by People object
  SiteMeter,        \* FACILITY_METER
  RequiredMeters    \* REQUIRED_METERS

ASSUME OutputAssumption ==
  /\ SiteMeter \in RequiredMeters /\ ZoneVariables \cap PeopleVariables = {}
  /\ IsFiniteSet(ZoneVariables) /\ IsFiniteSet(PeopleVariables) /\ IsFiniteSet(RequiredMeters)

\* The lists of a file are finite.
InputFile(idf) ==
  /\ {"zoneLists", "controls", "thermostats", "schedules", "people", "variables",
      "meters", "sqlite", "period", "steps", "weather"} \subseteq DOMAIN idf
  /\ \A l \in DOMAIN idf.zoneLists : IsFiniteSet(idf.zoneLists[l])
  /\ IsFiniteSet(DOMAIN idf.controls)
  /\ IsFiniteSet(DOMAIN idf.people) /\ DOMAIN idf.people \subseteq Nat
  /\ IsFiniteSet(idf.variables) /\ IsFiniteSet(idf.meters)

-----------------------------------------------------------------------------
(* simulation/prepare_idf.py                                               *)

\* numeric_fields: directives aside, the numbers of a plausible setpoint.
Setpoints(values) == {v \in values : 5 <= v /\ v <= 40}

\* occupied_setpoint: setback relaxes, so the tightest value is the occupied
\* one; without any, the default.
OccupiedSetpoint(values, kind) ==
  IF kind = "cooling"
  THEN IF Setpoints(values) = {} THEN 24 ELSE Min(Setpoints(values))
  ELSE IF Setpoints(values) = {} THEN 21 ELSE Max(Setpoints(values))

\* _expand_zone_reference: the zones of a list, or the zone named.
Expand(idf, reference) ==
  IF reference \in DOMAIN idf.zoneLists THEN idf.zoneLists[reference] ELSE {reference}

\* _thermostat_schedules: zone -> [heat, cool]; a control whose thermostat is
\* unknown is skipped, and the last control of a zone counts.
ThermostatSchedules(idf) ==
  LET known == {i \in DOMAIN idf.controls :
                  idf.controls[i].thermostat \in DOMAIN idf.thermostats}
      of(z) == {i \in known : z \in Expand(idf, idf.controls[i].reference)}
  IN  [z \in UNION {Expand(idf, idf.controls[i].reference) : i \in known} |->
         idf.thermostats[idf.controls[Max(of(z))].thermostat]]

\* convert_setpoint_schedules: what the thermostats refer to, and the file with
\* those schedules constant.
Wanted(zoneMap, kind) ==
  {IF kind = "cooling" THEN zoneMap[z].cool ELSE zoneMap[z].heat : z \in DOMAIN zoneMap}
  \ {NoSchedule}

Constant(value) == [form |-> "constant", values |-> {value}]

ConvertSchedules(idf, zoneMap) ==
  LET converted(s) ==
        IF idf.schedules[s].form = "constant" THEN idf.schedules[s]
        ELSE IF s \in Wanted(zoneMap, "cooling")
             THEN Constant(OccupiedSetpoint(idf.schedules[s].values, "cooling"))
             ELSE Constant(OccupiedSetpoint(idf.schedules[s].values, "heating"))
      wanted == Wanted(zoneMap, "cooling") \cup Wanted(zoneMap, "heating")
  IN  [idf EXCEPT !.schedules =
         [s \in DOMAIN @ |-> IF s \in wanted THEN converted(s) ELSE @[s]]]

\* ensure_fanger_comfort: the file, and the first People object of each zone.
FangerComfort(idf) ==
  [idf EXCEPT !.people = [i \in DOMAIN @ |-> [@[i] EXCEPT !.fanger = TRUE]]]

ZonePeople(idf) ==
  LET of(z) == {i \in DOMAIN idf.people : z \in Expand(idf, idf.people[i].reference)}
  IN  [z \in UNION {Expand(idf, idf.people[i].reference) : i \in DOMAIN idf.people} |->
         idf.people[Min(of(z))].name]

\* ensure_outputs: each variable not requested under that key yet, the facility
\* meter at every timestep, beside any coarser request, and the database.
EnsureOutputs(idf, zones, people) ==
  LET asked == {<<v.key, v.variable>> : v \in idf.variables}
      wanted == (zones \X ZoneVariables) \cup (people \X PeopleVariables)
  IN  [idf EXCEPT
         !.variables = @ \cup {[key |-> w[1], variable |-> w[2], every |-> "step"]
                               : w \in wanted \ asked},
         !.meters = @ \cup {[name |-> SiteMeter, every |-> "step"]},
         !.sqlite = TRUE]

\* prepare: the actuatable file and the index of it (PreparedModel).  It raises
\* on a file without a thermostat it can follow.
Preparable(idf) == DOMAIN ThermostatSchedules(idf) # {}

Prepared(idf) ==
  LET zoneMap == ThermostatSchedules(idf)
      zones == DOMAIN zoneMap
      people == ZonePeople(idf)
      constant == ConvertSchedules(idf, zoneMap)
      wanted == Wanted(zoneMap, "cooling") \cup Wanted(zoneMap, "heating")
  IN  [idf |-> EnsureOutputs(FangerComfort(constant), zones, {people[z] : z \in DOMAIN people}),
       zones |-> [z \in zones |->
                    [heat |-> zoneMap[z].heat, cool |-> zoneMap[z].cool,
                     people |-> IF z \in DOMAIN people THEN people[z] ELSE NoPeople]],
       constants |-> [s \in wanted \cap DOMAIN idf.schedules |->
                        CHOOSE v \in constant.schedules[s].values : TRUE]]

-----------------------------------------------------------------------------
(* simulation/run_baseline.py                                              *)

\* _ensure_meters: a meter requested at any frequency is left as it is.
EnsureMeters(idf) ==
  LET present == {m.name : m \in idf.meters}
  IN  [idf EXCEPT !.meters = @ \cup {[name |-> m, every |-> "step"]
                                     : m \in RequiredMeters \ present}]

\* patch_idf: simulate the weather file over that period.
PatchIdf(idf, spec, steps) ==
  EnsureMeters([idf EXCEPT !.weather = TRUE, !.period = spec, !.steps = steps,
                           !.sqlite = TRUE])

\* hottest_week: the day on which the hottest window of the weather file begins,
\* the first such window.
HottestDay(temps, hoursPerDay, window) ==
  LET sum(i) == MapThenSumSet(LAMBDA h : temps[h], i .. i + window - 1)
      starts == 1 .. Len(temps) - window + 1
      best == {i \in starts : \A j \in starts : sum(j) <= sum(i)}
  IN  (Min(best) - 1) \div hoursPerDay

-----------------------------------------------------------------------------
(* experiments/ab.py                                                       *)

\* Mutant of PrepareArm: the outputs are left to prepare, which has added them
\* to agentic.idf.
PrepareArmPatched(source, spec, steps) == FangerComfort(PatchIdf(source, spec, steps))

\* prepare_arm_idf: the same treatment for every arm.
PrepareArm(source, spec, steps) ==
  LET patched == PatchIdf(source, spec, steps)
      people == ZonePeople(patched)
  IN  EnsureOutputs(FangerComfort(patched), DOMAIN ThermostatSchedules(patched),
                    {people[z] : z \in DOMAIN people})
=============================================================================
