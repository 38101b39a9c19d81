------------------------------- MODULE Metering -------------------------------
(***************************************************************************)
(* experiments/kpis.py and report.py: from the rows of eplusout.sql to the *)
(* indicators of a run and of its report.  A row is one reading:           *)
(*   name, key      the meter, or the variable and what it is keyed by     *)
(*   every          the frequency it was asked for at                      *)
(*   day, hour, minute, interval      the end of its interval, the hour    *)
(*                                    counted from 1 to HoursPerDay, and   *)
(*                                    its length in minutes                *)
(*   env, warmup    the environment it was simulated in                    *)
(*   value          energy, or the variable's mean                         *)
(***************************************************************************)
EXTENDS Integers, FiniteSets, FiniteSetsExt, Functions

CONSTANTS
  HoursPerDay,   \* hours in a day of the instance
  PeriodMinutes, \* a multiple of every interval: the unit of power is energy
                 \* per that many minutes
  Tariff,        \* load_tariff: hour -> price
  Carbon,        \* load_carbon: hour -> intensity
  HvacMeters,    \* HVAC_METERS
  FacilityMeter, \* SITE_METER
  AirTemp, Occupancy, Pmv,   \* the variables of the comfort table
  Threshold      \* COMFORT_PMV_THRESHOLD

Hours == 0 .. HoursPerDay - 1

\* _require_full_day
ASSUME CurveAssumption ==
  /\ HoursPerDay \in Nat \ {0} /\ PeriodMinutes \in Nat
  /\ Hours \subseteq DOMAIN Tariff /\ Hours \subseteq DOMAIN Carbon
  /\ \A h \in Hours : Tariff[h] \in Int /\ Carbon[h] \in Int

-----------------------------------------------------------------------------
(* experiments/kpis.py                                                     *)

\* _run_period_env_indices: the weather run periods, or no filter when the
\* database lists none.
RunPeriods(environments) ==
  LET weather == {e \in DOMAIN environments : environments[e] = "weather"}
  IN  IF weather = {} THEN DOMAIN environments ELSE weather

\* The rows that count, for the indicators and for the report alike.
Counted(sql) == {r \in sql.rows : ~r.warmup /\ r.env \in RunPeriods(sql.environments)}

\* _midpoint_hour, _interval_midpoint: the middle of the interval, in half
\* minutes since the first midnight.
Midpoint(r) == 2 * (60 * (HoursPerDay * r.day + r.hour) + r.minute) - r.interval
HourOf(r) == (Midpoint(r) \div 120) % HoursPerDay
DayOf(r) == Midpoint(r) \div (120 * HoursPerDay)

\* _read_intervals
Intervals(sql, meters) == {r \in Counted(sql) : r.name \in meters}

\* Mutant of InferTimestep: the longest interval.
InferLongest(intervals) == Max({r.interval : r \in intervals})

\* _infer_timestep_minutes: the most common interval.
InferTimestep(intervals) ==
  LET times(n) == Cardinality({r \in intervals : r.interval = n})
      known == {r.interval : r \in intervals}
  IN  IF known = {} THEN 60 ELSE CHOOSE n \in known : \A m \in known : times(m) <= times(n)

Energy(intervals) == SumFunction([r \in intervals |-> r.value])
Power(r) == r.value * (PeriodMinutes \div r.interval)
Peak(intervals) == Max({0} \cup {Power(r) : r \in intervals})
Weighted(intervals, curve) == SumFunction([r \in intervals |-> r.value * curve[HourOf(r)]])

\* aggregate_site
Aggregate(intervals) ==
  [kwh |-> Energy(intervals), peak |-> Peak(intervals),
   cost |-> Weighted(intervals, Tariff), carbon |-> Weighted(intervals, Carbon)]

\* compute_kpis
Kpis(sql) ==
  [site |-> Aggregate(Intervals(sql, {FacilityMeter})),
   hvac |-> [m \in HvacMeters |-> Energy(Intervals(sql, {m}))],
   timestep |-> InferTimestep(Intervals(sql, {FacilityMeter} \cup HvacMeters))]

-----------------------------------------------------------------------------
(* experiments/report.py                                                   *)

\* Mutant of MeterSeries: warmup aside, every row of the meter.
MeterSeriesUnfiltered(sql) == {r \in sql.rows : r.name = FacilityMeter /\ ~r.warmup}

\* read_meter_series, of readings that have a day and an interval: one without a
\* day is skipped, where compute_kpis raises, and one without an interval is taken
\* for an hour, where compute_kpis takes it for a timestep.
MeterSeries(sql) == {r \in Counted(sql) : r.name = FacilityMeter}

\* daily_breakdown: the readings of each day the run covered.
Daily(sql) ==
  LET series == MeterSeries(sql)
  IN  [d \in {DayOf(r) : r \in series} |-> Aggregate({r \in series : DayOf(r) = d})]

\* cumulative_series: the running total at each reading's time.
Cumulative(sql) ==
  LET series == MeterSeries(sql)
  IN  [t \in {Midpoint(r) : r \in series} |-> Energy({r \in series : Midpoint(r) <= t})]

\* read_zone_series: at each time, the zones that have an air temperature, with
\* what else was read of them then.
ZoneSeries(sql, zones) ==
  LET rows == Counted(sql)
      read(t, name, key) == {r.value : r \in {q \in rows : /\ Midpoint(q) = t
                                                           /\ q.name = name /\ q.key = key}}
      aired == {r \in rows : r.name = AirTemp /\ r.key \in DOMAIN zones}
  IN  {[time |-> Midpoint(r), zone |-> r.key,
        occupancy |-> read(Midpoint(r), Occupancy, r.key),
        pmv |-> read(Midpoint(r), Pmv, zones[r.key].people)] : r \in aired}

\* comfort_table: per zone, the minutes occupied and those of them outside the
\* threshold.  A zone whose occupancy was not read then is not occupied.
Comfort(sql, zones) ==
  LET step == Kpis(sql).timestep
      series == ZoneSeries(sql, zones)
      occupied(z) == {s \in series : s.zone = z /\ \E v \in s.occupancy : v > 0}
      bad(z) == {s \in occupied(z) : \E v \in s.pmv : v > Threshold \/ -v > Threshold}
  IN  [z \in {s.zone : s \in series} |->
         [occupied |-> step * Cardinality(occupied(z)),
          violation |-> step * Cardinality(bad(z))]]

\* build_arm_report
ArmReport(sql, zones) ==
  [kpis |-> Kpis(sql), daily |-> Daily(sql), cumulative |-> Cumulative(sql),
   comfort |-> Comfort(sql, zones)]

\* compute_delta: what is saved going from one arm to another.  A percentage is
\* the pair of its terms; there is none when nothing was used before.
Percent(before, after) == IF before = 0 THEN << >> ELSE <<before - after, before>>

Delta(from, to) ==
  LET a == from.kpis
      b == to.kpis
  IN  [site |-> Percent(a.site.kwh, b.site.kwh),
       hvac |-> [m \in HvacMeters |-> Percent(a.hvac[m], b.hvac[m])],
       cost |-> a.site.cost - b.site.cost, carbon |-> a.site.carbon - b.site.carbon,
       peak |-> a.site.peak - b.site.peak]
=============================================================================
