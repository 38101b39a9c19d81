--------------------------- MODULE ExecutorProofs ---------------------------
(***************************************************************************)
(* What the filter guarantees for every configuration, plan value, zone    *)
(* reading and rate history; and of the executor that runs it, the safety  *)
(* properties that hold for every model, plan and observation: the         *)
(* actuators stay bounded and hold what was decided, no commit drives the  *)
(* building past the watchdog's deadline, and the journal says so.         *)
(***************************************************************************)
EXTENDS Executor, FiniteSetTheorems, SequenceTheorems, WellFoundedInduction, TLAPS

-----------------------------------------------------------------------------
(* The filter.                                                             *)

\* A clamp lands between its bounds, and leaves what is between them alone.
LEMMA ClampInRange ==
  ASSUME NEW v \in Int, NEW low \in Int, NEW high \in Int, low <= high
  PROVE  /\ Clamp(v, low, high) \in low .. high
         /\ v \in low .. high => Clamp(v, low, high) = v
  BY DEF Clamp

\* The band of a zone is an interval of temperatures.
LEMMA BandType ==
  ASSUME NEW o
  PROVE  BandMin(o) \in Int /\ BandMax(o) \in Int /\ BandMin(o) < BandMax(o)
  BY GuardianAssumption DEF BandMin, BandMax

\* _apply_envelope: the result is inside the band.
LEMMA EnvelopeInBand ==
  ASSUME NEW v \in Int, NEW o
  PROVE  Envelope(v, o) \in Int /\ Envelope(v, o) \in Band(o)
  BY ClampInRange, BandType DEF Envelope, Band

\* _apply_pmv keeps a temperature a temperature, whatever the readings.
LEMMA PmvInt ==
  ASSUME NEW a, NEW v \in Int, NEW o
  PROVE  Pmv(a, v, o) \in Int
  BY DEF Pmv

\* What _apply_rate reads of a window.
LEMMA HistoryEnds ==
  ASSUME NEW h \in Seq(Sample), h # << >>
  PROVE  LastValue(h) \in Int /\ OldestValue(h) \in Int
<1>1. Len(h) \in Nat /\ Len(h) # 0
  OBVIOUS
<1>2. h[Len(h)] \in Sample /\ h[1] \in Sample
  BY <1>1
<1> QED
  BY <1>2 DEF LastValue, OldestValue, Sample

\* _apply_rate keeps a temperature a temperature, even against a reading that
\* is missing or not finite.
LEMMA RateLimitInt ==
  ASSUME NEW a, NEW v \in Int, NEW o, NEW h \in Seq(Sample)
  PROVE  StepLimit(a, v, o, h) \in Int /\ RateLimit(a, v, o, h) \in Int
<1>1. StepLimit(a, v, o, h) \in Int
  <2> DEFINE anchor == IF h = << >> THEN o[a] ELSE LastValue(h)
  <2>1. CASE anchor \in Int
    BY <2>1, GuardianAssumption DEF StepLimit, Clamp
  <2>2. CASE anchor \notin Int
    BY <2>2 DEF StepLimit
  <2> QED
    BY <2>1, <2>2
<1>2. RateLimit(a, v, o, h) \in Int
  BY <1>1, HistoryEnds, GuardianAssumption DEF RateLimit, HourLimit, Clamp
<1> QED
  BY <1>1, <1>2

\* Envelope containment: for any value a plan asks for, any reading of the zone
\* (hostile ones included) and any history, the setpoint that survives the filter
\* is inside the band of the zone's observed occupancy (Guardian._filter_step).
THEOREM EnvelopeContainment ==
  ASSUME NEW a \in TemperatureSetpoints, NEW v \in Int, NEW o,
         NEW h \in Seq(Sample)
  PROVE  SafeValue(a, v, o, h) \in Int /\ SafeValue(a, v, o, h) \in Band(o)
<1>1. Pmv(a, Envelope(v, o), o) \in Int
  BY EnvelopeInBand, PmvInt
<1>2. RateLimit(a, Pmv(a, Envelope(v, o), o), o, h) \in Int
  BY <1>1, RateLimitInt
<1> QED
  BY <1>2, EnvelopeInBand DEF SafeValue

\* A stage of the filter that commutes with clamping in this way leaves the
\* clamped shape of what comes before it intact.
KeepsClamps(f) ==
  \A x, p, q \in Int :
    p <= q => /\ f[p] \in Int /\ f[q] \in Int /\ f[p] <= f[q]
              /\ f[Clamp(x, p, q)] = Clamp(x, f[p], f[q])

LEMMA ClampKeepsClamps ==
  ASSUME NEW low \in Int, NEW high \in Int, low <= high
  PROVE  KeepsClamps([x \in Int |-> Clamp(x, low, high)])
  BY SMTT(30) DEF KeepsClamps, Clamp

LEMMA IdentityKeepsClamps == KeepsClamps([x \in Int |-> x])
  BY DEF KeepsClamps, Clamp

\* _apply_pmv, _apply_rate's two clamps: each keeps clamps.
LEMMA PmvKeepsClamps ==
  ASSUME NEW a, NEW o
  PROVE  KeepsClamps([x \in Int |-> Pmv(a, x, o)])
<1>1. CASE \A x \in Int : Pmv(a, x, o) = x
  BY <1>1 DEF KeepsClamps, Clamp
<1>2. CASE o[a] \in Int /\ \A x \in Int : Pmv(a, x, o) = IF x > o[a] THEN o[a] ELSE x
  BY <1>2 DEF KeepsClamps, Clamp
<1>3. CASE o[a] \in Int /\ \A x \in Int : Pmv(a, x, o) = IF x < o[a] THEN o[a] ELSE x
  BY <1>3 DEF KeepsClamps, Clamp
<1> QED
  BY <1>1, <1>2, <1>3, GuardianAssumption DEF Pmv

LEMMA StepLimitKeepsClamps ==
  ASSUME NEW a, NEW o, NEW h
  PROVE  KeepsClamps([x \in Int |-> StepLimit(a, x, o, h)])
<1> DEFINE anchor == IF h = << >> THEN o[a] ELSE LastValue(h)
           F == [x \in Int |-> StepLimit(a, x, o, h)]
<1>1. CASE anchor \in Int
  <2>1. F = [x \in Int |-> Clamp(x, anchor - MaxStep, anchor + MaxStep)]
    BY <1>1 DEF StepLimit
  <2>2. /\ anchor - MaxStep \in Int /\ anchor + MaxStep \in Int
        /\ anchor - MaxStep <= anchor + MaxStep
    BY <1>1, GuardianAssumption
  <2> QED
    BY <2>1, <2>2, ClampKeepsClamps
<1>2. CASE anchor \notin Int
  <2>1. F = [x \in Int |-> x]
    BY <1>2 DEF StepLimit
  <2> QED
    BY <2>1, IdentityKeepsClamps
<1> QED
  BY <1>1, <1>2

LEMMA HourLimitKeepsClamps ==
  ASSUME NEW h \in Seq(Sample)
  PROVE  KeepsClamps([x \in Int |-> HourLimit(x, h)])
<1> DEFINE F == [x \in Int |-> HourLimit(x, h)]
           old == OldestValue(h)
<1>1. CASE h = << >>
  <2>1. F = [x \in Int |-> x]
    BY <1>1 DEF HourLimit
  <2> QED
    BY <2>1, IdentityKeepsClamps
<1>2. CASE h # << >>
  <2>1. F = [x \in Int |-> Clamp(x, old - MaxHour, old + MaxHour)]
    BY <1>2 DEF HourLimit
  <2>2. old - MaxHour \in Int /\ old + MaxHour \in Int /\ old - MaxHour <= old + MaxHour
    BY <1>2, HistoryEnds, GuardianAssumption
  <2> QED
    BY <2>1, <2>2, ClampKeepsClamps
<1> QED
  BY <1>1, <1>2

\* The filter as a whole is one clamp, whose bounds depend on the readings and
\* the history but not on the value asked for.
LEMMA FilterIsClamp ==
  ASSUME NEW a \in TemperatureSetpoints, NEW o, NEW h \in Seq(Sample)
  PROVE  \E p, q \in Int :
           p <= q /\ \A v \in Int : SafeValue(a, v, o, h) = Clamp(v, p, q)
<1> DEFINE low == BandMin(o)
           high == BandMax(o)
           G == [x \in Int |-> Pmv(a, x, o)]
           S == [x \in Int |-> StepLimit(a, x, o, h)]
           H == [x \in Int |-> HourLimit(x, h)]
           E == [x \in Int |-> Clamp(x, low, high)]
<1>1. low \in Int /\ high \in Int /\ low <= high
  BY BandType
<1>2. KeepsClamps(G) /\ KeepsClamps(S) /\ KeepsClamps(H) /\ KeepsClamps(E)
  BY <1>1, PmvKeepsClamps, StepLimitKeepsClamps, HourLimitKeepsClamps, ClampKeepsClamps
<1>3. \A v \in Int : SafeValue(a, v, o, h) = E[H[S[G[Clamp(v, low, high)]]]]
  <2> TAKE v \in Int
  <2>1. Clamp(v, low, high) = Envelope(v, o) /\ Envelope(v, o) \in Int
    BY EnvelopeInBand DEF Envelope
  <2>2. G[Envelope(v, o)] = Pmv(a, Envelope(v, o), o) /\ G[Envelope(v, o)] \in Int
    BY <2>1, PmvInt
  <2>3. /\ S[G[Envelope(v, o)]] = StepLimit(a, Pmv(a, Envelope(v, o), o), o, h)
        /\ S[G[Envelope(v, o)]] \in Int
    BY <2>2, RateLimitInt
  <2>4. /\ H[S[G[Envelope(v, o)]]] = RateLimit(a, Pmv(a, Envelope(v, o), o), o, h)
        /\ H[S[G[Envelope(v, o)]]] \in Int
    BY <2>2, <2>3, RateLimitInt DEF RateLimit
  <2> QED
    BY <2>1, <2>4 DEF SafeValue, Envelope
<1> HIDE DEF low, high, G, S, H, E
<1>4. /\ G[low] \in Int /\ G[high] \in Int /\ G[low] <= G[high]
      /\ \A v \in Int : G[Clamp(v, low, high)] = Clamp(v, G[low], G[high])
  BY <1>1, <1>2 DEF KeepsClamps
<1>5. /\ S[G[low]] \in Int /\ S[G[high]] \in Int /\ S[G[low]] <= S[G[high]]
      /\ \A v \in Int : S[G[Clamp(v, low, high)]] = Clamp(v, S[G[low]], S[G[high]])
  BY <1>4, <1>2 DEF KeepsClamps
<1>6. /\ H[S[G[low]]] \in Int /\ H[S[G[high]]] \in Int /\ H[S[G[low]]] <= H[S[G[high]]]
      /\ \A v \in Int : H[S[G[Clamp(v, low, high)]]] = Clamp(v, H[S[G[low]]], H[S[G[high]]])
  BY <1>5, <1>2 DEF KeepsClamps
<1>7. /\ E[H[S[G[low]]]] \in Int /\ E[H[S[G[high]]]] \in Int
      /\ E[H[S[G[low]]]] <= E[H[S[G[high]]]]
      /\ \A v \in Int : E[H[S[G[Clamp(v, low, high)]]]]
                         = Clamp(v, E[H[S[G[low]]]], E[H[S[G[high]]]])
  BY <1>6, <1>2 DEF KeepsClamps
<1> QED
  BY <1>3, <1>7

\* A safe plan is a fixed point of the filter: filtered again against the same
\* readings and history, the setpoint does not move (Guardian.filter).
THEOREM FilterIdempotent ==
  ASSUME NEW a \in TemperatureSetpoints, NEW v \in Int, NEW o,
         NEW h \in Seq(Sample)
  PROVE  SafeValue(a, SafeValue(a, v, o, h), o, h) = SafeValue(a, v, o, h)
<1>1. PICK p, q \in Int :
        p <= q /\ \A x \in Int : SafeValue(a, x, o, h) = Clamp(x, p, q)
  BY FilterIsClamp
<1>2. SafeValue(a, v, o, h) = Clamp(v, p, q)
  BY <1>1
<1>3. Clamp(v, p, q) \in p .. q
  BY <1>1, ClampInRange
<1>4. Clamp(v, p, q) \in Int
  BY <1>3
<1>5. SafeValue(a, Clamp(v, p, q), o, h) = Clamp(Clamp(v, p, q), p, q)
  BY <1>1, <1>4
<1>6. Clamp(Clamp(v, p, q), p, q) = Clamp(v, p, q)
  BY <1>1, <1>3, <1>4, ClampInRange
<1> QED
  BY <1>2, <1>5, <1>6

\* Clamping to within k of a point that is within m + k of l moves a value that
\* is within m of l no further from it than m.
LEMMA ClampNear ==
  ASSUME NEW s \in Int, NEW l \in Int, NEW p \in Int, NEW m \in Nat, NEW k \in Nat,
         s - l \in -m .. m, l - p \in -(m + k) .. (m + k)
  PROVE  /\ Clamp(s, p - k, p + k) \in Int
         /\ Clamp(s, p - k, p + k) - l \in -m .. m
  BY DEF Clamp

\* When the window ends inside the band and does not span more than the two rate
\* limits together, the filter moves the setpoint by at most the per-timestep
\* limit (Guardian._apply_rate followed by the second _apply_envelope).
THEOREM FilterRateBound ==
  ASSUME NEW a \in TemperatureSetpoints, NEW v \in Int, NEW o,
         NEW h \in Seq(Sample), h # << >>,
         LastValue(h) \in Band(o),
         LastValue(h) - OldestValue(h) \in -(MaxStep + MaxHour) .. (MaxStep + MaxHour)
  PROVE  SafeValue(a, v, o, h) - LastValue(h) \in -MaxStep .. MaxStep
<1> DEFINE w == Pmv(a, Envelope(v, o), o)
           s == StepLimit(a, w, o, h)
           r == HourLimit(s, h)
<1>1. w \in Int
  BY EnvelopeInBand, PmvInt
<1>2. LastValue(h) \in Int /\ OldestValue(h) \in Int
  BY HistoryEnds
<1>3. s \in Int /\ s - LastValue(h) \in -MaxStep .. MaxStep
  BY <1>1, <1>2, GuardianAssumption DEF StepLimit, Clamp
<1>4. r \in Int /\ r - LastValue(h) \in -MaxStep .. MaxStep
  <2> HIDE DEF s
  <2>1. r = Clamp(s, OldestValue(h) - MaxHour, OldestValue(h) + MaxHour)
    BY DEF HourLimit
  <2>2. MaxStep \in Nat /\ MaxHour \in Nat
    BY GuardianAssumption
  <2> DEFINE l == LastValue(h)
             p == OldestValue(h)
  <2>3. l - p \in -(MaxStep + MaxHour) .. (MaxStep + MaxHour)
    OBVIOUS
  <2>4. l \in Int /\ p \in Int /\ s \in Int /\ s - l \in -MaxStep .. MaxStep
    BY <1>2, <1>3
  <2> HIDE DEF l, p
  <2>5. /\ Clamp(s, p - MaxHour, p + MaxHour) \in Int
        /\ Clamp(s, p - MaxHour, p + MaxHour) - l \in -MaxStep .. MaxStep
    BY <2>2, <2>3, <2>4, ClampNear
  <2> QED
    BY <2>1, <2>5 DEF l, p
<1>5. Envelope(r, o) - LastValue(h) \in -MaxStep .. MaxStep
  <2> HIDE DEF r
  <2> QED
    BY <1>2, <1>4, BandType, GuardianAssumption DEF Envelope, Clamp, Band
<1> QED
  BY <1>5 DEF SafeValue, RateLimit

-----------------------------------------------------------------------------
(* A nonempty set of zones has a largest one.                              *)

Below == {p \in Nat \X Nat : p[1] < p[2]}

LEMMA BelowWellFounded == IsWellFoundedOn(Below, Nat)
<1>1. IsWellFoundedOn({p \in Nat \X Nat : p[1] < p[2]}, Nat)
  BY NatLessThanWellFounded DEF OpToRel
<1> QED
  BY <1>1 DEF Below

LEMMA LeastExists ==
  ASSUME NEW S, S \subseteq Nat, S # {}
  PROVE  \E x \in S : \A y \in S : x <= y
<1>1. PICK x \in S : \A y \in S : <<y, x>> \notin Below
  BY BelowWellFounded, WFMin
<1>2. \A y \in S : x <= y
  <2> TAKE y \in S
  <2>1. x \in Nat /\ y \in Nat
    OBVIOUS
  <2>2. <<y, x>> \in Nat \X Nat
    BY <2>1
  <2>3. ~ (y < x)
    BY <1>1, <2>2 DEF Below
  <2> QED
    BY <2>1, <2>3
<1> QED
  BY <1>2

LEMMA MaxInSet ==
  ASSUME NEW n \in Nat, NEW S, S \subseteq 1 .. n, S # {}
  PROVE  Max(S) \in S
<1> DEFINE T == {n - x : x \in S}
<1>1. T # {}
  OBVIOUS
<1>2. T \subseteq Nat
  OBVIOUS
<1>3. PICK m \in T : \A y \in T : m <= y
  <2> HIDE DEF T
  <2> QED
    BY <1>1, <1>2, LeastExists
<1>4. PICK x \in S : m = n - x
  BY <1>3
<1>5. \A y \in S : x >= y
  <2> TAKE y \in S
  <2>1. n - y \in T
    OBVIOUS
  <2>2. m <= n - y
    BY <2>1, <1>3
  <2> QED
    BY <2>2, <1>4
<1> QED
  BY <1>5 DEF Max

-----------------------------------------------------------------------------
(* The rate history keeps its shape.                                       *)

LEMMA PruneType ==
  ASSUME NEW S, NEW h \in Seq(S), NEW cutoff
  PROVE  Prune(h, cutoff) \in Seq(S)
<1> DEFINE kept == {i \in DOMAIN h : h[i].at > cutoff}
           first == Len(h) - Cardinality(kept) + 1
<1>1. IsFiniteSet(1 .. Len(h)) /\ Cardinality(1 .. Len(h)) = Len(h)
  <2>1. 1 \in Int /\ Len(h) \in Nat
    OBVIOUS
  <2> QED
    BY <2>1, FS_Interval
<1>2. kept \subseteq 1 .. Len(h)
  OBVIOUS
<1>3. Cardinality(kept) \in Nat /\ Cardinality(kept) <= Len(h)
  <2>1. IsFiniteSet(kept) /\ Cardinality(kept) <= Cardinality(1 .. Len(h))
    BY <1>1, <1>2, FS_Subset
  <2> QED
    BY <2>1, <1>1, FS_CardinalityType
<1>4. first \in 1 .. Len(h) + 1
  <2> HIDE DEF kept
  <2> QED
    BY <1>3
<1>5. SubSeq(h, first, Len(h)) \in Seq(S)
  <2> HIDE DEF first
  <2> QED
    BY <1>4, SubSeqProperties
<1> QED
  BY <1>5 DEF Prune

LEMMA RecordType ==
  ASSUME NEW h \in Seq(Sample), NEW at \in Int, NEW v \in Int
  PROVE  Record(h, at, v) \in Seq(Sample)
<1>1. Prune(h, at - Hour) \in Seq(Sample)
  BY PruneType
<1>2. [at |-> at, value |-> v] \in Sample
  BY DEF Sample
<1> QED
  BY <1>1, <1>2, AppendProperties DEF Record

LEMMA RecordIfType ==
  ASSUME NEW h \in Seq(Sample), NEW t \in Int, NEW steps, IsSteps(steps), NEW a
  PROVE  RecordIf(h, t, steps, a) \in Seq(Sample)
<1>1. a \in DOMAIN steps => steps[a] \in Int
  BY DEF IsSteps
<1> QED
  BY <1>1, RecordType DEF RecordIf

LEMMA RecordStepsType ==
  ASSUME NEW h \in Seq(Sample), NEW t \in Int, NEW steps, IsSteps(steps),
         NEW heatingFirst \in BOOLEAN
  PROVE  RecordSteps(h, t, steps, heatingFirst) \in Seq(Sample)
<1>1. /\ RecordIf(h, t, steps, "heating") \in Seq(Sample)
      /\ RecordIf(h, t, steps, "cooling") \in Seq(Sample)
  BY RecordIfType
<1>2. /\ RecordIf(RecordIf(h, t, steps, "heating"), t, steps, "cooling") \in Seq(Sample)
      /\ RecordIf(RecordIf(h, t, steps, "cooling"), t, steps, "heating") \in Seq(Sample)
  BY <1>1, RecordIfType
<1> QED
  BY <1>2 DEF RecordSteps

-----------------------------------------------------------------------------
(* What one timestep decides and writes.                                   *)

\* Values a schedule may be given: a baseline, or inside an envelope band.
Permitted(v, s) ==
  v = Baseline[s] \/ v \in UnoccMin .. UnoccMax \/ v \in OccMin .. OccMax

\* Approved steps that may be written for zone z.
PermittedSteps(f, z) ==
  \A a \in DOMAIN f : ScheduleOf(z, a) \in Schedules => Permitted(f[a], ScheduleOf(z, a))

LEMMA BaselineStepsType ==
  ASSUME NEW z \in Zones
  PROVE  IsSteps(BaselineSteps(z)) /\ PermittedSteps(BaselineSteps(z), z)
<1>1. \A a \in TemperatureSetpoints :
        ScheduleOf(z, a) # NoSchedule => ScheduleOf(z, a) \in Schedules
  BY ExecutorAssumption DEF ScheduleOf, TemperatureSetpoints
<1>2. \A a \in DOMAIN BaselineSteps(z) :
        /\ a \in TemperatureSetpoints
        /\ BaselineSteps(z)[a] = Baseline[ScheduleOf(z, a)]
        /\ BaselineSteps(z)[a] \in Int
  BY <1>1, ExecutorAssumption DEF BaselineSteps
<1>3. BaselineSteps(z) \in [DOMAIN BaselineSteps(z) -> Int]
  BY <1>2 DEF BaselineSteps
<1>4. DOMAIN BaselineSteps(z) \subseteq Actuators
  BY <1>2 DEF Actuators
<1> QED
  BY <1>2, <1>3, <1>4 DEF IsSteps, PermittedSteps, Permitted

\* Only temperature setpoints reach a schedule.
LEMMA OtherUnbound ==
  ASSUME NEW z \in Zones, NEW a, ScheduleOf(z, a) \in Schedules
  PROVE  a \in TemperatureSetpoints
  BY ExecutorAssumption DEF ScheduleOf, TemperatureSetpoints

LEMMA SafeStepsType ==
  ASSUME NEW plan, NEW z \in Zones, NEW elapsed, NEW o, NEW h \in Seq(Sample)
  PROVE  LET safe == SafeSteps(Hold(plan, z, elapsed), o, h)
         IN  IsSteps(safe) /\ PermittedSteps(safe, z)
<1> DEFINE steps == Hold(plan, z, elapsed)
           safe == SafeSteps(steps, o, h)
<1>1. DOMAIN steps \subseteq Actuators
  BY DEF Hold
<1>2. \A a \in DOMAIN safe : /\ a \in Actuators /\ steps[a] \in Int
                             /\ safe[a] = SafeValue(a, steps[a], o, h)
  <2> HIDE DEF steps
  <2> QED
    BY <1>1 DEF SafeSteps, Survives
<1>3. \A a \in DOMAIN safe : safe[a] \in Int
  <2> SUFFICES ASSUME NEW a \in DOMAIN safe
               PROVE  safe[a] \in Int
    OBVIOUS
  <2> HIDE DEF safe, steps
  <2>1. CASE a \in TemperatureSetpoints
    BY <2>1, <1>2, EnvelopeContainment
  <2>2. CASE a \notin TemperatureSetpoints
    BY <2>2, <1>2 DEF SafeValue
  <2> QED
    BY <2>1, <2>2
<1>4. \A a \in DOMAIN safe \cap TemperatureSetpoints : safe[a] \in Band(o)
  <2> HIDE DEF safe, steps
  <2> QED
    BY <1>2, EnvelopeContainment
<1>5. safe \in [DOMAIN safe -> Int]
  <2>1. safe = [a \in DOMAIN safe |-> safe[a]]
    BY DEF SafeSteps
  <2> HIDE DEF safe
  <2> QED
    BY <2>1, <1>3
<1>6. PermittedSteps(safe, z)
  <2> HIDE DEF safe
  <2>1. \A a \in DOMAIN safe :
          ScheduleOf(z, a) \in Schedules => safe[a] \in Band(o)
    BY <1>4, OtherUnbound
  <2>2. Band(o) \in {UnoccMin .. UnoccMax, OccMin .. OccMax}
    BY DEF Band, BandMin, BandMax
  <2> QED
    BY <2>1, <2>2 DEF PermittedSteps, Permitted
<1> QED
  BY <1>2, <1>5, <1>6 DEF IsSteps

LEMMA DecisionType ==
  ASSUME NEW verdicts
  PROVE  Decision(verdicts) \in {"accepted", "clamped", "rejected"}
  BY DEF Decision

\* Approved steps of every zone, each of which may be written.
IsApproved(f) ==
  /\ DOMAIN f = Zones
  /\ \A z \in Zones : IsSteps(f[z]) /\ PermittedSteps(f[z], z)

LEMMA WrittenPermitted ==
  ASSUME NEW s \in Schedules, NEW f, IsApproved(f), Writers(s, f) # {}
  PROVE  Written(s, f) \in Int /\ Permitted(Written(s, f), s)
<1> DEFINE z == Max(Writers(s, f))
<1>1. z \in Writers(s, f)
  <2>1. Writers(s, f) \subseteq 1 .. NumZones /\ NumZones \in Nat
    BY ExecutorAssumption DEF Writers, Zones
  <2> QED
    BY <2>1, MaxInSet
<1> HIDE DEF z
<1>2. z \in Zones
  BY <1>1 DEF Writers
<1>3. PICK a \in DOMAIN f[z] : ScheduleOf(z, a) = s
  BY <1>1 DEF Writers
<1>4. a = IF CoolingSchedule[z] = s THEN "cooling" ELSE "heating"
  <2>1. a \in TemperatureSetpoints /\ s # NoSchedule
    BY <1>2, <1>3, OtherUnbound, ExecutorAssumption
  <2>2. CoolingSchedule[z] = HeatingSchedule[z] => CoolingSchedule[z] = NoSchedule
    BY <1>2, ExecutorAssumption
  <2> QED
    BY <1>3, <2>1, <2>2 DEF ScheduleOf, TemperatureSetpoints
<1>5. Written(s, f) = f[z][a]
  BY <1>4 DEF Written, z
<1>6. f[z][a] \in Int
  BY <1>2, <1>3 DEF IsApproved, IsSteps
<1> QED
  BY <1>2, <1>3, <1>5, <1>6 DEF IsApproved, PermittedSteps

-----------------------------------------------------------------------------
(* What a decision leaves behind.                                          *)

DecideTypeOK ==
  /\ watchdog \in [lastValid : Int, tripped : BOOLEAN]
  /\ seen \in Int
  /\ anchors \in [PlanIds -> Int]
  /\ history \in [Zones -> Seq(Sample)]
  /\ events \in Seq(Event)
  /\ decided.source \in {"none", "plan", "fallback"} /\ decided.generation \in Int
  /\ drivingSince \in Nat
  /\ IsApproved(decided.approved)

LEMMA CheckType ==
  ASSUME NEW w \in [lastValid : Int, tripped : BOOLEAN], NEW t \in Nat
  PROVE  /\ Check(w, t) \in [lastValid : Int, tripped : BOOLEAN]
         /\ Check(w, t).lastValid = IF w.lastValid = NotStarted THEN t ELSE w.lastValid
         /\ ~ Check(w, t).tripped =>
               Check(w, t).lastValid = t \/ t - Check(w, t).lastValid <= DeadlineAfter
<1>1. DeadlineAfter \in Nat
  BY WatchdogAssumption DEF DeadlineAfter
<1>2. w.lastValid \in Int /\ w.tripped \in BOOLEAN
  OBVIOUS
<1>3. CASE w.lastValid = NotStarted
  BY <1>3 DEF Check
<1>4. CASE w.lastValid # NotStarted /\ Stale(w, t)
  BY <1>4 DEF Check
<1>5. CASE w.lastValid # NotStarted /\ ~ Stale(w, t)
  <2>1. t - w.lastValid <= DeadlineAfter
    BY <1>1, <1>2, <1>5 DEF Stale
  <2>2. Check(w, t) = w
    BY <1>5 DEF Check
  <2> QED
    BY <1>2, <1>5, <2>1, <2>2
<1> QED
  BY <1>3, <1>4, <1>5

LEMMA FallbackType ==
  ASSUME TypeOK, NEW t \in Nat, DecideFallback(t)
  PROVE  DecideTypeOK'
<1>1. watchdog' \in [lastValid : Int, tripped : BOOLEAN]
  BY CheckType DEF DecideFallback, TypeOK
<1>2. history' \in [Zones -> Seq(Sample)]
  <2>1. \A z \in Zones : RecordBaseline(z, t) \in Seq(Sample)
    <3> TAKE z \in Zones
    <3>1. history[z] \in Seq(Sample) /\ IsSteps(BaselineSteps(z)) /\ t \in Int
      BY BaselineStepsType DEF TypeOK
    <3>2. RecordSteps(history[z], t, BaselineSteps(z), FALSE) \in Seq(Sample)
      BY <3>1, RecordStepsType
    <3> QED
      BY <3>2 DEF RecordBaseline
  <2> QED
    BY <2>1 DEF DecideFallback
<1>3. events' \in Seq(Event)
  <2>1. [plan |-> "watchdog", decision |-> "rejected", generation |-> NotSeen] \in Event
    BY DEF Event, NotSeen
  <2> QED
    BY <2>1, AppendProperties DEF DecideFallback, TypeOK
<1>4. /\ decided'.source = "fallback" /\ decided'.generation \in Int
      /\ decided'.approved = [z \in Zones |-> BaselineSteps(z)]
  BY DEF DecideFallback, BaselinePlan, NotSeen
<1>5. IsApproved(decided'.approved)
  BY <1>4, BaselineStepsType DEF IsApproved
<1>6. seen' \in Int /\ anchors' \in [PlanIds -> Int] /\ drivingSince' \in Nat
  BY DEF DecideFallback, TypeOK
<1> QED
  BY <1>1, <1>2, <1>3, <1>4, <1>5, <1>6
     DEF DecideTypeOK, IsApproved, PermittedSteps, IsSteps, Permitted

LEMMA PlanType ==
  ASSUME TypeOK, NEW t \in Nat, NEW o \in Observations, DecidePlan(t, o)
  PROVE  DecideTypeOK'
<1> DEFINE plan == slot.plan
           anchor == IF anchors[plan.id] = NotSeen THEN t ELSE anchors[plan.id]
           held == [z \in Zones |-> Hold(plan, z, t - anchor)]
           verdicts == [z \in ObservedZones |->
                          Verdict(held[z], ZoneReading(z, o), history[z])]
           approved == [z \in Zones |-> IF z \in ObservedZones
                                        THEN verdicts[z].safe ELSE NoSteps]
<1>1. plan \in Plans /\ plan.id \in PlanIds /\ slot.generation \in Nat
  BY DEF DecidePlan, SlotHolds, TypeOK, PlanIds
<1>2. anchor \in Int
  BY <1>1 DEF TypeOK
<1>3. IsApproved(approved)
  <2>1. \A z \in ObservedZones :
          z \in Zones /\ IsSteps(verdicts[z].safe) /\ PermittedSteps(verdicts[z].safe, z)
    <3> TAKE z \in ObservedZones
    <3>1. z \in Zones
      BY ExecutorAssumption
    <3>2. history[z] \in Seq(Sample)
      BY <3>1 DEF TypeOK
    <3>3. verdicts[z].safe = SafeSteps(Hold(plan, z, t - anchor), ZoneReading(z, o), history[z])
      <4> HIDE DEF plan, anchor
      <4> QED
        BY <3>1 DEF Verdict
    <3> HIDE DEF verdicts, anchor, plan
    <3> QED
      BY <3>1, <3>2, <3>3, SafeStepsType
  <2>2. \A z \in Zones : IsSteps(NoSteps) /\ PermittedSteps(NoSteps, z)
    BY DEF NoSteps, IsSteps, PermittedSteps
  <2> HIDE DEF verdicts
  <2> QED
    BY <2>1, <2>2 DEF IsApproved
<1>4. /\ anchors' = [anchors EXCEPT ![plan.id] = anchor]
      /\ history' = [z \in Zones |-> RecordSteps(history[z], t, approved[z],
                                                HeatingFirst(plan, z, t - anchor))]
      /\ watchdog' = IF FreshCommit /\ Decision(verdicts) # "rejected"
                     THEN NoteValidPlan(t) ELSE Check(watchdog, t)
      /\ events' = IF FreshCommit
                   THEN Append(events, [plan |-> plan.id, decision |-> Decision(verdicts),
                                        generation |-> slot.generation])
                   ELSE events
      /\ seen' = slot.generation
      /\ drivingSince' = IF FreshCommit THEN t ELSE drivingSince
      /\ decided' = [source |-> "plan", generation |-> slot.generation,
                     decision |-> Decision(verdicts), approved |-> approved]
  BY DEF DecidePlan
<1> HIDE DEF plan, anchor, held, verdicts, approved
<1>5. anchors' \in [PlanIds -> Int]
  BY <1>1, <1>2, <1>4 DEF TypeOK
<1>6. history' \in [Zones -> Seq(Sample)]
  <2>1. ASSUME NEW z \in Zones
        PROVE  RecordSteps(history[z], t, approved[z], HeatingFirst(plan, z, t - anchor))
                 \in Seq(Sample)
    <3>1. history[z] \in Seq(Sample) /\ t \in Int
      BY DEF TypeOK
    <3>2. IsSteps(approved[z])
      BY <1>3 DEF IsApproved
    <3>3. HeatingFirst(plan, z, t - anchor) \in BOOLEAN
      BY DEF HeatingFirst
    <3> QED
      BY <3>1, <3>2, <3>3, RecordStepsType
  <2> QED
    BY <2>1, <1>4
<1>7. watchdog' \in [lastValid : Int, tripped : BOOLEAN]
  BY <1>4, CheckType DEF TypeOK, NoteValidPlan
<1>8. events' \in Seq(Event)
  <2>1. [plan |-> plan.id, decision |-> Decision(verdicts),
         generation |-> slot.generation] \in Event
    BY <1>1, DecisionType DEF Event
  <2> QED
    BY <2>1, <1>4, AppendProperties DEF TypeOK
<1>9. seen' \in Int /\ drivingSince' \in Nat
  BY <1>1, <1>4 DEF TypeOK
<1>10. /\ decided'.source = "plan" /\ decided'.generation \in Int
       /\ decided'.approved = approved
  BY <1>1, <1>4
<1> QED
  BY <1>3, <1>5, <1>6, <1>7, <1>8, <1>9, <1>10
     DEF DecideTypeOK, IsApproved, PermittedSteps, IsSteps, Permitted

LEMMA DecideType ==
  ASSUME TypeOK, NEW t \in Nat, NEW o \in Observations, Decide(t, o)
  PROVE  DecideTypeOK'
  BY FallbackType, PlanType DEF Decide

\* A decision keeps the watchdog's clock no later than the driving generation's
\* first timestep; if it lets a plan drive, that is within the deadline.
FreshnessHeld ==
  seen # NotSeen => /\ seen \in Nat
                    /\ watchdog.lastValid # NotStarted
                    /\ watchdog.lastValid <= drivingSince

LEMMA DecideFresh ==
  ASSUME TypeOK, FreshnessHeld, NEW t \in Nat, NEW o, Decide(t, o),
         watchdog.lastValid <= t
  PROVE  /\ FreshnessHeld' /\ watchdog'.lastValid <= t
         /\ decided'.source = "plan" =>
              decided'.generation = seen' /\ t - drivingSince' <= DeadlineAfter
<1>1. /\ watchdog \in [lastValid : Int, tripped : BOOLEAN]
      /\ watchdog.lastValid \in Int /\ drivingSince \in Nat
      /\ DeadlineAfter \in Nat /\ slot.generation \in Nat
  BY WatchdogAssumption DEF TypeOK, DeadlineAfter
<1>2. CASE DecideFallback(t)
  <2>1. /\ seen' = seen /\ drivingSince' = drivingSince
        /\ watchdog' = Check(watchdog, t) /\ decided'.source = "fallback"
    BY <1>2 DEF DecideFallback, BaselinePlan
  <2>2. /\ seen # NotSeen => watchdog'.lastValid = watchdog.lastValid
        /\ watchdog'.lastValid <= t
    <3>1. Check(watchdog, t).lastValid = IF watchdog.lastValid = NotStarted
                                         THEN t ELSE watchdog.lastValid
      BY <1>1, CheckType
    <3> QED
      BY <1>1, <2>1, <3>1 DEF FreshnessHeld
  <2> QED
    BY <2>1, <2>2 DEF FreshnessHeld
<1>3. CASE DecidePlan(t, o)
  <2>1. /\ seen' = slot.generation /\ seen' # NotSeen
        /\ decided'.source = "plan" /\ decided'.generation = seen'
        /\ drivingSince' = IF FreshCommit THEN t ELSE drivingSince
        /\ \/ watchdog' = NoteValidPlan(t) /\ FreshCommit
           \/ watchdog' = Check(watchdog, t)
        /\ ~ Check(watchdog, t).tripped
    BY <1>1, <1>3 DEF DecidePlan, NotSeen
  <2>2. CASE FreshCommit
    <3>1. drivingSince' = t /\ t - t <= DeadlineAfter
      BY <1>1, <2>1, <2>2
    <3>2. watchdog'.lastValid # NotStarted /\ watchdog'.lastValid <= t
      BY <1>1, <2>1, CheckType DEF NoteValidPlan, NotStarted
    <3> QED
      BY <1>1, <2>1, <3>1, <3>2 DEF FreshnessHeld
  <2>3. CASE ~ FreshCommit
    <3>1. /\ seen # NotSeen /\ drivingSince' = drivingSince
          /\ watchdog'.lastValid = watchdog.lastValid
          /\ watchdog.lastValid # NotStarted
          /\ watchdog.lastValid <= drivingSince
      BY <1>1, <2>1, <2>3, CheckType DEF FreshnessHeld, FreshCommit, NotSeen
    <3>2. t - watchdog.lastValid <= DeadlineAfter \/ watchdog.lastValid = t
      BY <1>1, <2>1, <3>1, CheckType
    <3> QED
      BY <1>1, <2>1, <3>1, <3>2 DEF FreshnessHeld
  <2> QED
    BY <2>2, <2>3
<1> QED
  BY <1>2, <1>3 DEF Decide

-----------------------------------------------------------------------------
(* The invariant.  What the journal and the slot hold cannot tell how long *)
(* the driving plan has driven; that needs the watchdog's clock, which only*)
(* a fresh commit resets and so is never later than the driving plan.      *)

IInv ==
  /\ TypeOK
  /\ ActuatorsBounded
  /\ FreshnessHeld
  /\ watchdog.lastValid <= clock
  /\ NoStalePlanDrives

LEMMA InitInvariant == Init => IInv
<1> SUFFICES ASSUME Init PROVE IInv
  OBVIOUS
<1>1. TypeOK
  <2>1. IsSteps(NoSteps)
    BY DEF NoSteps, IsSteps
  <2>2. /\ decided.source = "none" /\ decided.generation = NotSeen
        /\ decided.approved = [z \in Zones |-> NoSteps]
    BY DEF Init, NoDecision
  <2>3. /\ history \in [Zones -> Seq(Sample)] /\ events \in Seq(Event)
        /\ anchors \in [PlanIds -> Int]
    BY DEF Init, NotSeen
  <2>4. /\ slot \in [plan : Plans \cup {NoPlan}, generation : Nat]
        /\ watchdog \in [lastValid : Int, tripped : BOOLEAN]
    BY DEF Init, EmptySlot, NewWatchdog, NotStarted
  <2> QED
    BY <2>1, <2>2, <2>3, <2>4, ExecutorAssumption DEF Init, TypeOK, NotSeen
<1>2. ActuatorsBounded
  BY DEF Init, ActuatorsBounded
<1>3. FreshnessHeld /\ watchdog.lastValid <= clock
  BY DEF Init, FreshnessHeld, NewWatchdog, NotStarted
<1>4. NoStalePlanDrives
  BY DEF Init, NoStalePlanDrives, DrivenByPlan
<1> QED
  BY <1>1, <1>2, <1>3, <1>4 DEF IInv

\* A plan-thread step touches the slot only.
LEMMA PlannerStep ==
  ASSUME IInv, slot' \in [plan : Plans \cup {NoPlan}, generation : Nat],
         UNCHANGED <<clock, applied, observed, wrote, faults, executor>>
  PROVE  IInv'
<1>1. TypeOK'
  BY DEF IInv, TypeOK, executor
<1>2. ActuatorsBounded' /\ FreshnessHeld' /\ NoStalePlanDrives'
  BY DEF IInv, ActuatorsBounded, FreshnessHeld, NoStalePlanDrives, DrivenByPlan, executor
<1> QED
  BY <1>1, <1>2 DEF IInv, executor

\* A part of what is approved is approved.
LEMMA UpToApproved ==
  ASSUME NEW f, IsApproved(f), NEW zone \in Zones, NEW some
  PROVE  IsApproved(UpTo(f, zone, some))
<1> DEFINE g == UpTo(f, zone, some)
           cut(z) == [a \in DOMAIN f[z] \cap some |-> f[z][a]]
<1>1. DOMAIN g = Zones
  BY DEF UpTo
<1>2. ASSUME NEW z \in Zones PROVE g[z] \in {f[z], NoSteps, cut(z)}
  BY DEF UpTo
<1>3. ASSUME NEW z \in Zones PROVE IsSteps(NoSteps) /\ PermittedSteps(NoSteps, z)
  BY DEF NoSteps, IsSteps, PermittedSteps
<1>4. ASSUME NEW z \in Zones PROVE IsSteps(cut(z)) /\ PermittedSteps(cut(z), z)
  <2>1. IsSteps(f[z]) /\ PermittedSteps(f[z], z)
    BY DEF IsApproved
  <2>2. DOMAIN cut(z) \subseteq DOMAIN f[z] /\ \A a \in DOMAIN cut(z) : cut(z)[a] = f[z][a]
    OBVIOUS
  <2>3. cut(z) \in [DOMAIN cut(z) -> Int]
    BY <2>1, <2>2 DEF IsSteps
  <2> HIDE DEF cut
  <2>4. IsSteps(cut(z))
    BY <2>1, <2>2, <2>3 DEF IsSteps
  <2>5. PermittedSteps(cut(z), z)
    BY <2>1, <2>2 DEF PermittedSteps
  <2> QED
    BY <2>4, <2>5
<1> HIDE DEF g, cut
<1>5. ASSUME NEW z \in Zones PROVE IsSteps(g[z]) /\ PermittedSteps(g[z], z)
  BY <1>2, <1>3, <1>4 DEF IsApproved
<1> QED
  BY <1>1, <1>5 DEF IsApproved, g

\* Writing what was decided, or a part of it and a part of the baseline, keeps the
\* actuators bounded.
LEMMA WriteBounded ==
  ASSUME IInv, NEW f, IsApproved(f),
         \/ applied' = Writing(f)
         \/ ActuateBaseline(Writing(f)) \/ ActuateBaseline(applied)
  PROVE  applied' \in [Schedules -> Int] /\ ActuatorsBounded'
<1>1. applied \in [Schedules -> Int] /\ \A s \in Schedules : Permitted(applied[s], s)
  BY DEF IInv, TypeOK, ActuatorsBounded, Permitted
<1>2. \A s \in Schedules : Baseline[s] \in Int /\ Permitted(Baseline[s], s)
  BY ExecutorAssumption DEF Permitted
<1> DEFINE Bounded(values) == /\ values \in [Schedules -> Int]
                              /\ \A s \in Schedules : Permitted(values[s], s)
           values == Writing(f)
<1>4. Bounded(applied) /\ Bounded(values)
  BY <1>1, WrittenPermitted DEF Writing
<1>5. ASSUME NEW old, Bounded(old), ActuateBaseline(old) PROVE Bounded(applied')
  <2>1. PICK restored : applied' = [s \in Schedules |-> IF s \in restored THEN Baseline[s] ELSE old[s]]
    BY <1>5 DEF ActuateBaseline
  <2> QED
    BY <1>2, <1>5, <2>1
<1> HIDE DEF Bounded, values
<1>6. Bounded(applied')
  BY <1>4, <1>5 DEF values
<1>3. /\ applied' \in [Schedules -> Int]
      /\ \A s \in Schedules : Permitted(applied'[s], s)
  BY <1>6 DEF Bounded
<1> QED
  BY <1>3 DEF ActuatorsBounded, Permitted

LEMMA StepInvariant == IInv /\ [Next]_vars => IInv'
<1> SUFFICES ASSUME IInv, [Next]_vars PROVE IInv'
  OBVIOUS
<1>1. ASSUME NEW p \in Plans, Commit(p) PROVE IInv'
  <2>1. slot' \in [plan : Plans \cup {NoPlan}, generation : Nat]
    BY <1>1 DEF Commit, SlotCommit, IInv, TypeOK
  <2> QED
    BY <1>1, <2>1, PlannerStep DEF Commit
<1>2. ASSUME Clear PROVE IInv'
  <2>1. slot' \in [plan : Plans \cup {NoPlan}, generation : Nat]
    BY <1>2 DEF Clear, SlotClear, IInv, TypeOK
  <2> QED
    BY <1>2, <2>1, PlannerStep DEF Clear
<1>3. ASSUME NEW o \in Observations, Tick(o), Decide(clock + 1, o)
      PROVE  DecideTypeOK' /\ FreshnessHeld' /\ (watchdog.lastValid <= clock)'
  <2>1. clock + 1 \in Nat /\ clock' = clock + 1 /\ watchdog.lastValid <= clock + 1
    BY <1>3 DEF IInv, TypeOK, Tick
  <2>2. DecideTypeOK'
    BY <1>3, <2>1, DecideType DEF IInv
  <2>3. FreshnessHeld' /\ watchdog'.lastValid <= clock + 1
    BY <1>3, <2>1, DecideFresh DEF IInv
  <2> QED
    BY <2>1, <2>2, <2>3
<1>4. ASSUME NEW o \in Observations, Timestep(o) PROVE IInv'
  <2>1. /\ clock' \in Nat /\ faults' \in Nat /\ observed' \in Observations
        /\ slot' = slot /\ wrote' = "approved" /\ clock' = clock + 1
    BY <1>4 DEF Timestep, Tick, IInv, TypeOK
  <2>2. DecideTypeOK' /\ FreshnessHeld' /\ (watchdog.lastValid <= clock)'
    BY <1>3, <1>4 DEF Timestep
  <2>3. applied' \in [Schedules -> Int] /\ ActuatorsBounded'
    <3>1. IsApproved(decided'.approved)
      BY <2>2 DEF DecideTypeOK, IsApproved, IsSteps, PermittedSteps, Permitted
    <3> QED
      BY <1>4, <3>1, WriteBounded DEF Timestep
  <2>4. TypeOK'
    BY <2>1, <2>2, <2>3 DEF DecideTypeOK, IsApproved, IInv, TypeOK
  <2>5. NoStalePlanDrives'
    <3>1. clock + 1 \in Nat /\ watchdog.lastValid <= clock + 1 /\ Decide(clock + 1, o)
      BY <1>4 DEF IInv, TypeOK, Timestep
    <3>2. \A t \in Nat :
            Decide(t, o) /\ watchdog.lastValid <= t /\ decided'.source = "plan" =>
              decided'.generation = seen' /\ t - drivingSince' <= DeadlineAfter
      BY DecideFresh DEF IInv
    <3>3. decided'.source = "plan" =>
            decided'.generation = seen' /\ clock' - drivingSince' <= DeadlineAfter
      BY <2>1, <3>1, <3>2
    <3> QED
      BY <3>3 DEF NoStalePlanDrives, DrivenByPlan
  <2> QED
    BY <2>2, <2>3, <2>4, <2>5 DEF IInv
<1>5. ASSUME NEW o \in Observations, FailedTimestep(o) PROVE IInv'
  <2>1. /\ clock' \in Nat /\ faults' \in Nat /\ observed' \in Observations
        /\ slot' = slot /\ wrote' \in {"baseline", "partly"} /\ clock' = clock + 1
    BY <1>5 DEF FailedTimestep, ActuateBaseline, Tick, IInv, TypeOK
  <2>3. NoStalePlanDrives'
    BY <2>1 DEF NoStalePlanDrives, DrivenByPlan
  <2>4. ASSUME Decide(clock + 1, o), NEW zone \in Zones, NEW some,
               ActuateBaseline(Writing(UpTo(decided'.approved, zone, some)))
        PROVE  IInv'
    <3>1. DecideTypeOK' /\ FreshnessHeld' /\ (watchdog.lastValid <= clock)'
      BY <1>3, <1>5, <2>4 DEF FailedTimestep
    <3>3. IsApproved(decided'.approved)
      BY <3>1 DEF DecideTypeOK, IsApproved, IsSteps, PermittedSteps, Permitted
    <3> DEFINE g == UpTo(decided'.approved, zone, some)
    <3>4. IsApproved(g) /\ ActuateBaseline(Writing(g))
      BY <2>4, <3>3, UpToApproved
    <3> HIDE DEF g
    <3>5. applied' \in [Schedules -> Int] /\ ActuatorsBounded'
      BY <3>4, WriteBounded
    <3>2. TypeOK'
      BY <2>1, <3>1, <3>5 DEF DecideTypeOK, IsApproved, IInv, TypeOK
    <3> QED
      BY <2>3, <3>1, <3>2, <3>5 DEF IInv
  <2>5. CASE UNCHANGED executor /\ ActuateBaseline(applied)
    <3>3. IsApproved([z \in Zones |-> BaselineSteps(z)])
      BY BaselineStepsType DEF IsApproved
    <3>4. applied' \in [Schedules -> Int] /\ ActuatorsBounded'
      BY <2>5, <3>3, WriteBounded
    <3>1. TypeOK'
      BY <2>1, <2>5, <3>4 DEF executor, IInv, TypeOK
    <3>2. FreshnessHeld' /\ (watchdog.lastValid <= clock)'
      BY <2>1, <2>5 DEF executor, IInv, TypeOK, FreshnessHeld
    <3> QED
      BY <2>3, <3>1, <3>2, <3>4 DEF IInv
  <2> QED
    BY <1>5, <2>4, <2>5 DEF FailedTimestep
<1>6. CASE UNCHANGED vars
  <2>1. slot' \in [plan : Plans \cup {NoPlan}, generation : Nat]
    BY <1>6 DEF vars, IInv, TypeOK
  <2> QED
    BY <1>6, <2>1, PlannerStep DEF vars
<1> QED
  BY <1>1, <1>2, <1>4, <1>5, <1>6 DEF Next

THEOREM Invariance == Spec => []IInv
  BY InitInvariant, StepInvariant, PTL DEF Spec

\* Every variable keeps its type, for every model, plan set and observation.
THEOREM TypeCorrect == Spec => []TypeOK
<1>1. IInv => TypeOK
  BY DEF IInv
<1> QED
  BY <1>1, Invariance, PTL

\* The actuators hold the baseline or a value inside an envelope band, whatever
\* is planned, observed, shared between zones or raised by the callback
\* (Guardian._apply_envelope, SimulationBus._actuate_baseline).
THEOREM ActuatorsStayBounded == Spec => []ActuatorsBounded
<1>1. IInv => ActuatorsBounded
  BY DEF IInv
<1> QED
  BY <1>1, Invariance, PTL

\* No commit drives the building past the watchdog's deadline
\* (Watchdog.check, Executor.decide).
THEOREM StalePlanNeverDrives == Spec => []NoStalePlanDrives
<1>1. IInv => NoStalePlanDrives
  BY DEF IInv
<1> QED
  BY <1>1, Invariance, PTL

-----------------------------------------------------------------------------
(* What a plan leaves at the actuators.                                    *)

\* The zone that writes a schedule last, and what it writes.
LEMMA WriterOf ==
  ASSUME NEW s \in Schedules, NEW f, DOMAIN f = Zones, Writers(s, f) # {},
         \A z \in Zones : DOMAIN f[z] \subseteq Actuators
  PROVE  LET z == Max(Writers(s, f))
         IN  /\ z \in Zones
             /\ \E a \in DOMAIN f[z] \cap TemperatureSetpoints :
                  ScheduleOf(z, a) = s /\ Written(s, f) = f[z][a]
<1> DEFINE z == Max(Writers(s, f))
<1>1. z \in Writers(s, f)
  <2>1. Writers(s, f) \subseteq 1 .. NumZones /\ NumZones \in Nat
    BY ExecutorAssumption DEF Writers, Zones
  <2> QED
    BY <2>1, MaxInSet
<1>2. Written(s, f) = f[z][IF CoolingSchedule[z] = s THEN "cooling" ELSE "heating"]
  BY DEF Written
<1> HIDE DEF z
<1>3. z \in Zones
  BY <1>1 DEF Writers
<1>4. PICK a \in DOMAIN f[z] : ScheduleOf(z, a) = s
  BY <1>1 DEF Writers
<1>5. a \in TemperatureSetpoints
  BY <1>3, <1>4, OtherUnbound
<1>6. a = IF CoolingSchedule[z] = s THEN "cooling" ELSE "heating"
  <2>1. s # NoSchedule
    BY ExecutorAssumption
  <2>2. CoolingSchedule[z] = HeatingSchedule[z] => CoolingSchedule[z] = NoSchedule
    BY <1>3, ExecutorAssumption
  <2> QED
    BY <1>4, <1>5, <2>1, <2>2 DEF ScheduleOf, TemperatureSetpoints
<1>7. Written(s, f) = f[z][a]
  BY <1>2, <1>6
<1>8. z \in Zones /\ \E b \in DOMAIN f[z] \cap TemperatureSetpoints :
        ScheduleOf(z, b) = s /\ Written(s, f) = f[z][b]
  BY <1>3, <1>4, <1>5, <1>7
<1> QED
  BY <1>8 DEF z

\* What is approved is inside the envelope of the zone it is for.
LEMMA ApprovedInsideEnvelope ==
  ASSUME TypeOK, NEW t, NEW o, DecidePlan(t, o)
  PROVE  /\ DOMAIN decided'.approved = Zones
         /\ \A z \in Zones : DOMAIN decided'.approved[z] \subseteq Actuators
         /\ \A z \in Zones : \A a \in DOMAIN decided'.approved[z] \cap TemperatureSetpoints :
              decided'.approved[z][a] \in Band(ZoneReading(z, o))
<1> DEFINE plan == slot.plan
           anchor == IF anchors[plan.id] = NotSeen THEN t ELSE anchors[plan.id]
           held == [z \in Zones |-> Hold(plan, z, t - anchor)]
           verdicts == [z \in ObservedZones |->
                          Verdict(held[z], ZoneReading(z, o), history[z])]
           approved == [z \in Zones |-> IF z \in ObservedZones
                                        THEN verdicts[z].safe ELSE NoSteps]
<1>1. decided'.approved = approved
  BY DEF DecidePlan
<1>2. \A z \in ObservedZones : z \in Zones
  BY ExecutorAssumption
<1>3. \A z \in ObservedZones :
        verdicts[z].safe = SafeSteps(held[z], ZoneReading(z, o), history[z])
  <2> HIDE DEF held
  <2> QED
    BY DEF Verdict
<1>4. \A z \in Zones : DOMAIN held[z] \subseteq Actuators
  BY DEF Hold
<1> HIDE DEF verdicts, held
<1>5. \A z \in Zones : \/ /\ z \in ObservedZones
                          /\ approved[z] = SafeSteps(held[z], ZoneReading(z, o), history[z])
                       \/ approved[z] = NoSteps
  BY <1>3
<1>6. DOMAIN approved = Zones
  OBVIOUS
<1> HIDE DEF approved
<1>7. ASSUME NEW z \in Zones
      PROVE  /\ DOMAIN approved[z] \subseteq Actuators
             /\ \A a \in DOMAIN approved[z] \cap TemperatureSetpoints :
                  approved[z][a] \in Band(ZoneReading(z, o))
  <2>1. CASE approved[z] = NoSteps
    BY <2>1 DEF NoSteps
  <2>2. CASE approved[z] = SafeSteps(held[z], ZoneReading(z, o), history[z])
    <3>1. DOMAIN held[z] \subseteq Actuators
      BY <1>4
    <3>2. DOMAIN approved[z] \subseteq DOMAIN held[z]
      BY <2>2 DEF SafeSteps
    <3>3. ASSUME NEW a \in DOMAIN approved[z] \cap TemperatureSetpoints
          PROVE  approved[z][a] \in Band(ZoneReading(z, o))
      <4>1. /\ held[z][a] \in Int
            /\ approved[z][a] = SafeValue(a, held[z][a], ZoneReading(z, o), history[z])
        BY <2>2, <3>3 DEF SafeSteps, Survives
      <4>2. a \in TemperatureSetpoints /\ history[z] \in Seq(Sample)
        BY <3>3 DEF TypeOK
      <4> QED
        BY <4>1, <4>2, EnvelopeContainment
    <3> QED
      BY <3>1, <3>2, <3>3
  <2> QED
    BY <1>5, <2>1, <2>2
<1> QED
  BY <1>1, <1>6, <1>7

\* The band of a zone depends on its occupancy only.
LEMMA BandOfOccupancy ==
  ASSUME NEW z, NEW o
  PROVE  Band(ZoneReading(z, o)) =
           IF o[z].occupancy \in Int /\ o[z].occupancy > 0
           THEN OccMin .. OccMax ELSE UnoccMin .. UnoccMax
  BY DEF Band, BandMin, BandMax, Occupied, ZoneReading

\* The property, without the setpoints that a reading also has.
BandAt(z, o) == IF o[z].occupancy \in Int /\ o[z].occupancy > 0
                THEN OccMin .. OccMax ELSE UnoccMin .. UnoccMax
WrittenInsideBand ==
  DrivenByPlan =>
    \A s \in Handles :
      Writers(s, decided.approved) # {} =>
        applied[s] \in BandAt(Max(Writers(s, decided.approved)), observed)

LEMMA WrittenSaid == WrittenInsideBand <=> WrittenInsideEnvelope
  BY BandOfOccupancy DEF WrittenInsideBand, WrittenInsideEnvelope, BandAt

LEMMA WrittenInsideStep ==
  IInv /\ WrittenInsideBand /\ [Next]_vars => WrittenInsideBand'
<1> SUFFICES ASSUME IInv, WrittenInsideBand, [Next]_vars
             PROVE  WrittenInsideBand'
  OBVIOUS
<1>1. CASE UNCHANGED <<applied, observed, wrote, decided>>
  BY <1>1 DEF WrittenInsideBand, DrivenByPlan, Writers
<1>2. CASE \E o \in Observations : Timestep(o)
  <2>1. PICK o \in Observations : Timestep(o)
    BY <1>2
  <2> SUFFICES ASSUME decided'.source = "plan", NEW s \in Handles,
                      Writers(s, decided'.approved) # {}
               PROVE  applied'[s] \in BandAt(Max(Writers(s, decided'.approved)), o)
    BY <2>1 DEF WrittenInsideBand, DrivenByPlan, Timestep, Tick
  <2>2. DecidePlan(clock + 1, o)
    BY <2>1 DEF Timestep, Decide, DecideFallback, BaselinePlan
  <2>3. s \in Schedules
    BY ExecutorAssumption
  <2> DEFINE f == decided'.approved
             z == Max(Writers(s, f))
  <2>4. /\ DOMAIN f = Zones /\ \A y \in Zones : DOMAIN f[y] \subseteq Actuators
        /\ \A y \in Zones : \A a \in DOMAIN f[y] \cap TemperatureSetpoints :
             f[y][a] \in Band(ZoneReading(y, o))
    BY <2>2, ApprovedInsideEnvelope DEF IInv
  <2>5. applied'[s] = Written(s, f)
    BY <2>1, <2>3 DEF Timestep, Writing
  <2>6. Writers(s, f) # {}
    OBVIOUS
  <2> HIDE DEF f
  <2>7. PICK a \in DOMAIN f[z] \cap TemperatureSetpoints : Written(s, f) = f[z][a]
    BY <2>3, <2>4, <2>6, WriterOf
  <2>8. z \in Zones
    BY <2>3, <2>4, <2>6, WriterOf
  <2>9. applied'[s] \in Band(ZoneReading(z, o))
    BY <2>4, <2>5, <2>7, <2>8
  <2> QED
    BY <2>9, BandOfOccupancy DEF BandAt, f
<1>3. CASE \E o \in Observations : FailedTimestep(o)
  <2>1. wrote' # "approved"
    BY <1>3 DEF FailedTimestep, ActuateBaseline
  <2> QED
    BY <2>1 DEF WrittenInsideBand, DrivenByPlan
<1> QED
  BY <1>1, <1>2, <1>3 DEF Next, Commit, Clear, vars, executor

-----------------------------------------------------------------------------
(* What a trip leaves at the actuators.                                    *)

LEMMA TrippedStep ==
  IInv /\ TrippedHoldsBaseline /\ [Next]_vars => TrippedHoldsBaseline'
<1> SUFFICES ASSUME IInv, TrippedHoldsBaseline, [Next]_vars
             PROVE  TrippedHoldsBaseline'
  OBVIOUS
<1>1. CASE UNCHANGED <<watchdog, applied, wrote>>
  BY <1>1 DEF TrippedHoldsBaseline
<1>2. CASE \E o \in Observations : FailedTimestep(o)
  <2>1. \E values : ActuateBaseline(values)
    BY <1>2 DEF FailedTimestep
  <2>2. wrote' # "partly" => \A s \in Handles : applied'[s] = Baseline[s]
    BY <2>1, ExecutorAssumption DEF ActuateBaseline
  <2> QED
    BY <2>2 DEF TrippedHoldsBaseline
<1>3. CASE \E o \in Observations : Timestep(o)
  <2>1. PICK o \in Observations : Timestep(o)
    BY <1>3
  <2> SUFFICES ASSUME watchdog'.tripped, NEW s \in Handles, NEW y \in Zones,
                      s \in {CoolingSchedule[y], HeatingSchedule[y]}
               PROVE  applied'[s] = Baseline[s]
    BY DEF TrippedHoldsBaseline
  <2>2. DecideFallback(clock + 1)
    <3>1. ~DecidePlan(clock + 1, o)
      BY DEF DecidePlan, NoteValidPlan
    <3> QED
      BY <2>1, <3>1 DEF Timestep, Decide
  <2>3. s \in Schedules /\ s # NoSchedule
    BY ExecutorAssumption
  <2> DEFINE f == [z \in Zones |-> BaselineSteps(z)]
  <2>4. decided'.approved = f
    BY <2>2 DEF DecideFallback, BaselinePlan
  <2>5. /\ DOMAIN f = Zones /\ \A z \in Zones : f[z] = BaselineSteps(z)
        /\ \A z \in Zones : DOMAIN f[z] \subseteq Actuators
    BY BaselineStepsType DEF IsSteps
  <2> HIDE DEF f
  <2>6. y \in Writers(s, f)
    <3>1. PICK a \in TemperatureSetpoints : ScheduleOf(y, a) = s
      BY DEF ScheduleOf, TemperatureSetpoints
    <3>2. a \in DOMAIN f[y]
      BY <2>3, <2>5, <3>1 DEF BaselineSteps
    <3> QED
      BY <3>1, <3>2 DEF Writers
  <2>7. applied'[s] = Written(s, f)
    BY <2>1, <2>3, <2>4, <2>6 DEF Timestep, Writing
  <2>8. PICK z \in Zones, a \in TemperatureSetpoints :
          a \in DOMAIN f[z] /\ ScheduleOf(z, a) = s /\ Written(s, f) = f[z][a]
    BY <2>3, <2>5, <2>6, WriterOf
  <2>9. f[z][a] = Baseline[s]
    <3>1. f[z] = BaselineSteps(z) /\ a \in DOMAIN BaselineSteps(z)
      BY <2>5, <2>8
    <3>2. BaselineSteps(z)[a] = Baseline[ScheduleOf(z, a)]
      BY <3>1 DEF BaselineSteps
    <3> QED
      BY <2>8, <3>1, <3>2
  <2> QED
    BY <2>7, <2>8, <2>9
<1> QED
  BY <1>1, <1>2, <1>3 DEF Next, Commit, Clear, vars, executor

-----------------------------------------------------------------------------
(* The journal.  Its property is not inductive: it needs that no verdict is *)
(* on a later generation than the last one seen, and that the last verdict *)
(* is on that one unless the watchdog has tripped since.                   *)

Rows == DOMAIN events
Spoken == \E i \in Rows : events[i].plan = "watchdog"

InCommitOrder ==
  \A i, j \in Rows :
    i < j /\ events[j].plan # "watchdog" => events[i].generation < events[j].generation

SeenIsNewest ==
  /\ seen <= slot.generation
  /\ \A i \in Rows : events[i].generation <= seen

EndsWith(generation) == events # << >> /\ events[Len(events)].generation = generation

LastIsSeen ==
  /\ ~watchdog.tripped /\ seen # NotSeen => EndsWith(seen)
  /\ decided.source = "plan" => EndsWith(decided.generation)

TripIsJournalled == watchdog.tripped <=> Spoken

JournalInv == InCommitOrder /\ SeenIsNewest /\ LastIsSeen /\ TripIsJournalled

LEMMA EventsType ==
  ASSUME TypeOK
  PROVE  /\ events \in Seq(Event) /\ Len(events) \in Nat /\ Rows = 1 .. Len(events)
         /\ \A i \in Rows : events[i] \in Event /\ events[i].generation \in Int
<1>1. events \in Seq(Event)
  BY DEF TypeOK
<1>2. Len(events) \in Nat /\ DOMAIN events = 1 .. Len(events)
  BY <1>1, LenProperties
<1>3. \A i \in 1 .. Len(events) : events[i] \in Event
  BY <1>1, ElementOfSeq
<1> QED
  BY <1>1, <1>2, <1>3 DEF Event, Rows

\* One more row in the journal.
LEMMA OneMoreRow ==
  ASSUME TypeOK, NEW row \in Event, events' = Append(events, row)
  PROVE  /\ Len(events') = Len(events) + 1 /\ Len(events') \in Rows'
         /\ events' # << >> /\ events'[Len(events')] = row
         /\ \A i \in Rows : /\ i \in Rows' /\ events'[i] = events[i]
                            /\ i < Len(events') /\ i \in Nat
         /\ \A i \in Rows' : i = Len(events') \/ i \in Rows
<1>1. /\ events \in Seq(Event) /\ Len(events) \in Nat /\ Rows = 1 .. Len(events)
  BY EventsType
<1>2. /\ events' \in Seq(Event) /\ Len(events') = Len(events) + 1
      /\ DOMAIN events' = 1 .. Len(events) + 1
      /\ events'[Len(events) + 1] = row
      /\ \A i \in 1 .. Len(events) : events'[i] = events[i]
  BY <1>1, AppendProperties, LenProperties
<1>3. Rows' = 1 .. Len(events')
  BY <1>2 DEF Rows
<1>4. events' # << >>
  BY <1>1, <1>2
<1> QED
  BY <1>1, <1>2, <1>3, <1>4

\* A step of the journal's, given what it appends.
LEMMA RowKeepsOrder ==
  ASSUME TypeOK, JournalInv, NEW row \in Event, events' = Append(events, row),
         row.plan # "watchdog" => \A i \in Rows : events[i].generation < row.generation
  PROVE  InCommitOrder'
<1> SUFFICES ASSUME NEW i \in Rows', NEW j \in Rows', i < j, events'[j].plan # "watchdog"
             PROVE  events'[i].generation < events'[j].generation
  BY DEF InCommitOrder
<1>1. Len(events') \in Nat
  BY EventsType, OneMoreRow
<1>2. CASE j = Len(events')
  <2>1. i \in Rows
    BY <1>1, <1>2, OneMoreRow
  <2> QED
    BY <1>2, <2>1, OneMoreRow
<1>3. CASE j # Len(events')
  <2>1. j \in Rows /\ i # Len(events')
    BY <1>1, <1>3, OneMoreRow
  <2>2. i \in Rows
    BY <2>1, OneMoreRow
  <2> QED
    BY <2>1, <2>2, OneMoreRow DEF JournalInv, InCommitOrder
<1> QED
  BY <1>2, <1>3

LEMMA JournalFallback ==
  ASSUME IInv, JournalInv, NEW t \in Nat, DecideFallback(t), UNCHANGED slot
  PROVE  JournalInv'
<1> DEFINE row == [plan |-> "watchdog", decision |-> "rejected", generation |-> NotSeen]
<1>1. /\ watchdog' = Check(watchdog, t) /\ seen' = seen /\ decided'.source = "fallback"
      /\ events' = IF Trips(watchdog, t) THEN Append(events, row) ELSE events
  BY DEF DecideFallback, BaselinePlan
<1>2. /\ TypeOK /\ seen \in Int /\ watchdog \in [lastValid : Int, tripped : BOOLEAN]
      /\ seen # NotSeen => seen \in Nat
  BY DEF IInv, TypeOK, FreshnessHeld
<1>3. row \in Event /\ row.plan = "watchdog" /\ row.generation = NotSeen
  BY DEF Event, NotSeen
<1> HIDE DEF row
<1>4. watchdog.tripped => watchdog'.tripped
  BY <1>1, <1>2 DEF Check
<1>5. CASE Trips(watchdog, t)
  <2>1. watchdog'.tripped /\ events' = Append(events, row)
    BY <1>1, <1>5 DEF Trips
  <2>2. InCommitOrder'
    BY <1>2, <1>3, <2>1, RowKeepsOrder
  <2>3. NotSeen <= seen
    BY <1>2 DEF NotSeen
  <2>4. SeenIsNewest'
    BY <1>1, <1>2, <1>3, <2>1, <2>3, OneMoreRow DEF JournalInv, SeenIsNewest
  <2>5. LastIsSeen'
    BY <1>1, <2>1 DEF LastIsSeen
  <2>6. Spoken'
    BY <1>2, <1>3, <2>1, OneMoreRow DEF Spoken
  <2> QED
    BY <2>1, <2>2, <2>4, <2>5, <2>6 DEF JournalInv, TripIsJournalled
<1>6. CASE ~Trips(watchdog, t)
  <2>1. events' = events
    BY <1>1, <1>6
  <2>2. watchdog'.tripped <=> watchdog.tripped
    BY <1>1, <1>4, <1>6 DEF Trips
  <2>3. InCommitOrder' /\ SeenIsNewest'
    BY <1>1, <2>1 DEF JournalInv, InCommitOrder, SeenIsNewest, Rows
  <2>4. LastIsSeen'
    BY <1>1, <2>1, <2>2 DEF JournalInv, LastIsSeen, EndsWith
  <2>5. TripIsJournalled'
    BY <2>1, <2>2 DEF JournalInv, TripIsJournalled, Spoken, Rows
  <2> QED
    BY <2>3, <2>4, <2>5 DEF JournalInv
<1> QED
  BY <1>5, <1>6

LEMMA JournalPlan ==
  ASSUME IInv, JournalInv, NEW t \in Nat, NEW o \in Observations, DecidePlan(t, o),
         UNCHANGED slot
  PROVE  JournalInv'
<1>1. /\ TypeOK /\ seen \in Int /\ watchdog \in [lastValid : Int, tripped : BOOLEAN]
      /\ slot.generation \in Nat /\ slot.plan \in Plans /\ seen <= slot.generation
  BY DEF IInv, TypeOK, DecidePlan, SlotHolds, JournalInv, SeenIsNewest
<1>2. ~watchdog.tripped /\ ~watchdog'.tripped
  <2>1. ~Check(watchdog, t).tripped
    BY DEF DecidePlan
  <2>2. watchdog' = NoteValidPlan(t) \/ watchdog' = Check(watchdog, t)
    BY DEF DecidePlan
  <2> QED
    BY <1>1, <2>1, <2>2 DEF Check, NoteValidPlan
<1>3. ~Spoken
  BY <1>2 DEF JournalInv, TripIsJournalled
<1>4. /\ seen' = slot.generation /\ decided'.source = "plan"
      /\ decided'.generation = slot.generation /\ slot.generation # NotSeen
  BY <1>1 DEF DecidePlan, NotSeen
<1>5. CASE FreshCommit
  <2> DEFINE anchor == IF anchors[slot.plan.id] = NotSeen THEN t ELSE anchors[slot.plan.id]
             held == [z \in Zones |-> Hold(slot.plan, z, t - anchor)]
             verdicts == [z \in ObservedZones |->
                            Verdict(held[z], ZoneReading(z, o), history[z])]
             row == [plan |-> slot.plan.id, decision |-> Decision(verdicts),
                     generation |-> slot.generation]
  <2>1. /\ events' = Append(events, row) /\ row \in Event
        /\ row.plan = slot.plan.id /\ row.generation = slot.generation
    <3>1. events' = Append(events, row)
      BY <1>5 DEF DecidePlan
    <3> HIDE DEF verdicts
    <3>2. row \in Event
      BY <1>1, DecisionType DEF Event, PlanIds
    <3> QED
      BY <3>1, <3>2
  <2> HIDE DEF row
  <2>2. row.plan # "watchdog"
    BY <1>1, <2>1, ExecutorAssumption DEF PlanIds
  <2>3. \A i \in Rows : events[i].generation < row.generation
    BY <1>1, <1>5, <2>1, EventsType DEF JournalInv, SeenIsNewest, FreshCommit
  <2>4. InCommitOrder'
    BY <1>1, <2>1, <2>3, RowKeepsOrder
  <2>5. SeenIsNewest'
    <3>1. \A i \in Rows' : events'[i].generation <= slot.generation
      <4> SUFFICES ASSUME NEW i \in Rows'
                   PROVE  events'[i].generation <= slot.generation
        OBVIOUS
      <4>1. CASE i \in Rows
        BY <1>1, <2>1, <2>3, <4>1, EventsType, OneMoreRow
      <4>2. CASE i = Len(events')
        BY <1>1, <2>1, <4>2, OneMoreRow
      <4> QED
        BY <1>1, <2>1, <4>1, <4>2, OneMoreRow
    <3> QED
      BY <1>1, <1>4, <3>1 DEF SeenIsNewest
  <2>6. LastIsSeen'
    BY <1>1, <1>4, <2>1, OneMoreRow DEF LastIsSeen, EndsWith
  <2>7. ~Spoken'
    BY <1>1, <1>3, <2>1, <2>2, OneMoreRow DEF Spoken
  <2> QED
    BY <1>2, <2>4, <2>5, <2>6, <2>7 DEF JournalInv, TripIsJournalled
<1>6. CASE ~FreshCommit
  <2>1. events' = events /\ seen = slot.generation
    BY <1>6 DEF DecidePlan, FreshCommit
  <2>2. InCommitOrder' /\ SeenIsNewest'
    BY <1>4, <2>1 DEF JournalInv, InCommitOrder, SeenIsNewest, Rows
  <2>3. LastIsSeen'
    BY <1>2, <1>4, <2>1 DEF JournalInv, LastIsSeen, EndsWith
  <2>4. ~Spoken'
    BY <1>3, <2>1 DEF Spoken, Rows
  <2> QED
    BY <1>2, <2>2, <2>3, <2>4 DEF JournalInv, TripIsJournalled
<1> QED
  BY <1>5, <1>6

LEMMA JournalStep == IInv /\ JournalInv /\ [Next]_vars => JournalInv'
<1> SUFFICES ASSUME IInv, JournalInv, [Next]_vars
             PROVE  JournalInv'
  OBVIOUS
<1>1. clock \in Nat /\ slot.generation \in Nat /\ seen \in Int
  BY DEF IInv, TypeOK
<1>2. ASSUME UNCHANGED executor, slot'.generation \in Nat,
             slot.generation <= slot'.generation
      PROVE  JournalInv'
  BY <1>1, <1>2
  DEF executor, JournalInv, InCommitOrder, SeenIsNewest, LastIsSeen, TripIsJournalled,
      EndsWith, Spoken, Rows
<1>3. ASSUME NEW o \in Observations, Tick(o), Decide(clock + 1, o)
      PROVE  JournalInv'
  BY <1>1, <1>3, JournalFallback, JournalPlan DEF Decide, Tick
<1>4. CASE \E p \in Plans : Commit(p)
  BY <1>1, <1>2, <1>4 DEF Commit, SlotCommit
<1>5. CASE Clear \/ UNCHANGED vars
  BY <1>1, <1>2, <1>5 DEF Clear, SlotClear, vars
<1>6. CASE \E o \in Observations : Timestep(o)
  BY <1>3, <1>6 DEF Timestep
<1>7. CASE \E o \in Observations : FailedTimestep(o)
  BY <1>1, <1>2, <1>3, <1>7 DEF FailedTimestep, Tick
<1> QED
  BY <1>4, <1>5, <1>6, <1>7 DEF Next

-----------------------------------------------------------------------------
(* The theorems on the actuators and the journal.                          *)

\* Once the watchdog has tripped and a timestep has run, every schedule that
\* serves a zone holds its baseline, whatever is committed or raised after
\* (Executor.decide, fallback.baseline_plan, _actuate_baseline).
THEOREM TripHoldsBaseline == Spec => []TrippedHoldsBaseline
<1>1. Init => TrippedHoldsBaseline
  BY DEF Init, NewWatchdog, TrippedHoldsBaseline
<1> QED
  BY <1>1, Invariance, TrippedStep, PTL DEF Spec

\* After a plan drove, each schedule it wrote is inside the envelope of the zone
\* that wrote it last, for any sharing of schedules between zones
\* (Guardian._apply_envelope, write_setpoints).
THEOREM WritesInsideEnvelope == Spec => []WrittenInsideEnvelope
<1>1. Init => WrittenInsideBand
  BY DEF Init, WrittenInsideBand, DrivenByPlan
<1>2. WrittenInsideBand => WrittenInsideEnvelope
  BY WrittenSaid
<1> QED
  BY <1>1, <1>2, Invariance, WrittenInsideStep, PTL DEF Spec

\* The journal has one row per generation decided on, in commit order, the last
\* the one that drives, and the watchdog's row exactly when it has tripped
\* (Executor.decide, Watchdog.check).
THEOREM JournalIsFaithful == Spec => []JournalMatchesDecisions
<1>1. Init => JournalInv
  <2> SUFFICES ASSUME Init
               PROVE  JournalInv
    OBVIOUS
  <2>1. /\ Rows = {} /\ seen = NotSeen /\ slot.generation = 0 /\ ~watchdog.tripped
        /\ decided.source = "none"
    BY DEF Init, Rows, EmptySlot, NewWatchdog, NoDecision
  <2> QED
    BY <2>1 DEF JournalInv, InCommitOrder, SeenIsNewest, LastIsSeen, TripIsJournalled,
                Spoken, NotSeen
<1>2. JournalInv => JournalMatchesDecisions
  BY DEF JournalInv, InCommitOrder, LastIsSeen, EndsWith, TripIsJournalled, Spoken, Rows,
         JournalMatchesDecisions
<1> QED
  BY <1>1, <1>2, Invariance, JournalStep, PTL DEF Spec

-----------------------------------------------------------------------------
(* The rate limit.  It is not inductive: what the limiter is anchored to   *)
(* has to be a temperature that was decided last for the zone.             *)

AnchorIsDecided ==
  \A z \in Zones :
    Temperatures(decided.approved[z]) # {} =>
      history[z] # << >> /\ LastValue(history[z]) \in Temperatures(decided.approved[z])

LEMMA RecordLast ==
  ASSUME NEW h \in Seq(Sample), NEW at \in Int, NEW v \in Int
  PROVE  Record(h, at, v) # << >> /\ LastValue(Record(h, at, v)) = v
<1> DEFINE kept == Prune(h, at - Hour)
           sample == [at |-> at, value |-> v]
<1>1. kept \in Seq(Sample) /\ sample \in Sample /\ sample.value = v
  BY PruneType DEF Sample
<1>2. Record(h, at, v) = Append(kept, sample)
  BY DEF Record
<1> HIDE DEF kept, sample
<1>3. /\ Len(Append(kept, sample)) = Len(kept) + 1 /\ Len(kept) \in Nat
      /\ Append(kept, sample)[Len(kept) + 1] = sample
  BY <1>1, AppendProperties
<1> QED
  BY <1>1, <1>2, <1>3 DEF LastValue

LEMMA RecordIfLast ==
  ASSUME NEW h \in Seq(Sample), NEW t \in Int, NEW steps, IsSteps(steps), NEW a
  PROVE  /\ a \in DOMAIN steps =>
              RecordIf(h, t, steps, a) # << >> /\ LastValue(RecordIf(h, t, steps, a)) = steps[a]
         /\ a \notin DOMAIN steps => RecordIf(h, t, steps, a) = h
<1>1. a \in DOMAIN steps => steps[a] \in Int
  BY DEF IsSteps
<1> QED
  BY <1>1, RecordLast DEF RecordIf

\* What is recorded of some steps ends with one of their temperatures.
LEMMA RecordStepsLast ==
  ASSUME NEW h \in Seq(Sample), NEW t \in Int, NEW steps, IsSteps(steps),
         NEW heatingFirst \in BOOLEAN, Temperatures(steps) # {}
  PROVE  LET r == RecordSteps(h, t, steps, heatingFirst)
         IN  r # << >> /\ LastValue(r) \in Temperatures(steps)
<1> DEFINE r == RecordSteps(h, t, steps, heatingFirst)
           Ends(g) == g # << >> /\ LastValue(g) \in Temperatures(steps)
<1>1. ASSUME NEW a \in TemperatureSetpoints, NEW b \in TemperatureSetpoints, a # b
      PROVE  Ends(RecordIf(RecordIf(h, t, steps, a), t, steps, b))
  <2> DEFINE g == RecordIf(h, t, steps, a)
  <2>1. g \in Seq(Sample)
    BY RecordIfType
  <2>2. a \in DOMAIN steps => g # << >> /\ LastValue(g) = steps[a]
    BY RecordIfLast
  <2> HIDE DEF g
  <2>3. /\ b \in DOMAIN steps => RecordIf(g, t, steps, b) # << >>
                                 /\ LastValue(RecordIf(g, t, steps, b)) = steps[b]
        /\ b \notin DOMAIN steps => RecordIf(g, t, steps, b) = g
    BY <2>1, RecordIfLast
  <2>4. a \in DOMAIN steps \/ b \in DOMAIN steps
    BY <1>1 DEF Temperatures, TemperatureSetpoints
  <2>5. Ends(RecordIf(g, t, steps, b))
    BY <2>2, <2>3, <2>4 DEF Temperatures
  <2> QED
    BY <2>5 DEF g
<1>2. r \in {RecordIf(RecordIf(h, t, steps, "heating"), t, steps, "cooling"),
            RecordIf(RecordIf(h, t, steps, "cooling"), t, steps, "heating")}
  BY DEF RecordSteps
<1> HIDE DEF r, Ends
<1>3. Ends(r)
  BY <1>1, <1>2 DEF TemperatureSetpoints
<1> QED
  BY <1>3 DEF Ends, r

LEMMA FallbackAnchors ==
  ASSUME TypeOK, NEW t \in Nat, DecideFallback(t)
  PROVE  AnchorIsDecided'
<1>1. /\ history' = [z \in Zones |-> RecordSteps(history[z], t, BaselineSteps(z), FALSE)]
      /\ decided'.approved = [z \in Zones |-> BaselineSteps(z)]
  BY DEF DecideFallback, BaselinePlan, RecordBaseline
<1>2. ASSUME NEW z \in Zones, Temperatures(BaselineSteps(z)) # {}
      PROVE  /\ history'[z] # << >>
             /\ LastValue(history'[z]) \in Temperatures(BaselineSteps(z))
  <2>1. history[z] \in Seq(Sample) /\ t \in Int /\ IsSteps(BaselineSteps(z))
    BY BaselineStepsType DEF TypeOK
  <2> QED
    BY <1>1, <1>2, <2>1, RecordStepsLast
<1>3. SUFFICES ASSUME NEW z \in Zones, Temperatures(decided'.approved[z]) # {}
               PROVE  /\ history'[z] # << >>
                      /\ LastValue(history'[z]) \in Temperatures(decided'.approved[z])
  BY DEF AnchorIsDecided, Temperatures, LastValue
<1>4. decided'.approved[z] = BaselineSteps(z)
  BY <1>1
<1> QED
  BY <1>2, <1>3, <1>4

\* What a plan that is in force decides for each zone.
LEMMA PlanDecides ==
  ASSUME TypeOK, NEW t \in Nat, NEW o \in Observations, DecidePlan(t, o)
  PROVE  LET f == decided'.approved
         IN  \A z \in Zones :
               /\ IsSteps(f[z])
               /\ \E b \in BOOLEAN : history'[z] = RecordSteps(history[z], t, f[z], b)
               /\ \/ f[z] = NoSteps
                  \/ \E steps : f[z] = SafeSteps(steps, ZoneReading(z, o), history[z])
<1> DEFINE plan == slot.plan
           anchor == IF anchors[plan.id] = NotSeen THEN t ELSE anchors[plan.id]
           held == [z \in Zones |-> Hold(plan, z, t - anchor)]
           verdicts == [z \in ObservedZones |->
                          Verdict(held[z], ZoneReading(z, o), history[z])]
           approved == [z \in Zones |-> IF z \in ObservedZones
                                        THEN verdicts[z].safe ELSE NoSteps]
<1>1. /\ decided'.approved = approved
      /\ history' = [z \in Zones |-> RecordSteps(history[z], t, approved[z],
                                                HeatingFirst(plan, z, t - anchor))]
  BY DEF DecidePlan
<1>2. \A z \in ObservedZones :
        verdicts[z].safe = SafeSteps(held[z], ZoneReading(z, o), history[z])
  <2> HIDE DEF held
  <2> QED
    BY DEF Verdict
<1> HIDE DEF verdicts, held
<1>3. \A z \in Zones : \/ approved[z] = SafeSteps(held[z], ZoneReading(z, o), history[z])
                       \/ approved[z] = NoSteps
  BY <1>2
<1>4. DecideTypeOK'
  BY PlanType
<1>5. \A z \in Zones : IsSteps(approved[z])
  BY <1>1, <1>4 DEF DecideTypeOK, IsApproved, IsSteps
<1>6. \A z \in Zones : HeatingFirst(plan, z, t - anchor) \in BOOLEAN
  BY DEF HeatingFirst
<1> HIDE DEF approved, plan, anchor
<1>7. \A z \in Zones : \E b \in BOOLEAN :
        history'[z] = RecordSteps(history[z], t, approved[z], b)
  BY <1>1, <1>6
<1> QED
  BY <1>1, <1>3, <1>5, <1>7

LEMMA PlanAnchors ==
  ASSUME TypeOK, NEW t \in Nat, NEW o \in Observations, DecidePlan(t, o)
  PROVE  AnchorIsDecided'
<1> DEFINE f == decided'.approved
<1>1. ASSUME NEW z \in Zones, Temperatures(f[z]) # {}
      PROVE  history'[z] # << >> /\ LastValue(history'[z]) \in Temperatures(f[z])
  <2>1. IsSteps(f[z]) /\ \E b \in BOOLEAN : history'[z] = RecordSteps(history[z], t, f[z], b)
    BY PlanDecides
  <2> HIDE DEF f
  <2>2. PICK b \in BOOLEAN : history'[z] = RecordSteps(history[z], t, f[z], b)
    BY <2>1
  <2>3. history[z] \in Seq(Sample) /\ t \in Int
    BY DEF TypeOK
  <2> QED
    BY <1>1, <2>1, <2>2, <2>3, RecordStepsLast
<1>2. \A z \in Zones : Temperatures(decided'.approved[z]) # {} =>
        history'[z] # << >> /\ LastValue(history'[z]) \in Temperatures(decided'.approved[z])
  BY <1>1, Zenon
<1> HIDE DEF f
<1>3. SUFFICES ASSUME NEW z \in Zones, Temperatures(decided'.approved[z]) # {}
               PROVE  /\ history'[z] # << >>
                      /\ LastValue(history'[z]) \in Temperatures(decided'.approved[z])
  BY DEF AnchorIsDecided, Temperatures, LastValue
<1> QED
  BY <1>2, <1>3

LEMMA AnchorStep ==
  IInv /\ AnchorIsDecided /\ [Next]_vars => AnchorIsDecided'
<1> SUFFICES ASSUME IInv, AnchorIsDecided, [Next]_vars PROVE AnchorIsDecided'
  OBVIOUS
<1>1. CASE UNCHANGED <<history, decided>>
  BY <1>1 DEF AnchorIsDecided, Temperatures, LastValue
<1>2. ASSUME NEW o \in Observations, Decide(clock + 1, o) PROVE AnchorIsDecided'
  <2>1. TypeOK /\ clock + 1 \in Nat
    BY DEF IInv, TypeOK
  <2> QED
    BY <1>2, <2>1, FallbackAnchors, PlanAnchors DEF Decide
<1> QED
  BY <1>1, <1>2 DEF Next, Commit, Clear, Timestep, FailedTimestep, vars, executor

\* The filter against a window that has its last sample in reach.
LEMMA SafeValueReachable ==
  ASSUME NEW a \in TemperatureSetpoints, NEW v \in Int, NEW o, NEW h \in Seq(Sample), h # << >>
  PROVE  Reachable(SafeValue(a, v, o, h), LastValue(h), o, h)
<1> DEFINE w == Pmv(a, Envelope(v, o), o)
           s == StepLimit(a, w, o, h)
           r == HourLimit(s, h)
           last == LastValue(h)
           old == OldestValue(h)
           low == BandMin(o)
           high == BandMax(o)
           x == SafeValue(a, v, o, h)
<1>1. w \in Int /\ last \in Int /\ old \in Int
  BY EnvelopeInBand, PmvInt, HistoryEnds
<1>2. s \in Int /\ s - last \in -MaxStep .. MaxStep
  BY <1>1, GuardianAssumption DEF StepLimit, Clamp
<1>3. /\ r = Clamp(s, old - MaxHour, old + MaxHour) /\ x = Clamp(r, low, high)
      /\ Envelope(old - MaxHour, o) = Clamp(old - MaxHour, low, high)
      /\ Envelope(old + MaxHour, o) = Clamp(old + MaxHour, low, high)
  BY DEF HourLimit, SafeValue, RateLimit, Envelope
<1>4. low \in Int /\ high \in Int /\ low < high
  BY BandType
<1>5. {h[i].value : i \in DOMAIN h \cap {1}} = {old}
  <2>1. DOMAIN h \cap {1} = {1}
    OBVIOUS
  <2> QED
    BY <2>1 DEF OldestValue
<1> HIDE DEF w, s, r, last, old, low, high, x
<1>6. MaxStep \in Nat /\ MaxHour \in Nat
  BY GuardianAssumption
<1>7. \/ r = s
      \/ r = old + MaxHour /\ r < s
      \/ r = old - MaxHour /\ r > s
  BY <1>1, <1>2, <1>3, <1>6 DEF Clamp
<1>8. r \in Int
  BY <1>1, <1>2, <1>6, <1>7
<1>9. x \in Int /\ (x = r \/ (x = low /\ r < low) \/ (x = high /\ r > high))
  BY <1>3, <1>4, <1>8 DEF Clamp
<1>10. CASE r = s
  <2>1. \/ x - last \in -MaxStep .. MaxStep
        \/ x > last /\ x = low
        \/ x < last /\ x = high
    BY <1>1, <1>2, <1>4, <1>6, <1>9, <1>10
  <2> QED
    BY <1>5, <2>1 DEF Reachable, last, low, high, x
<1>11. CASE r = old + MaxHour /\ r < s
  <2>1. x = Envelope(old + MaxHour, o)
    BY <1>3, <1>11
  <2>2. \/ x - last \in -MaxStep .. MaxStep
        \/ x > last /\ x = low
        \/ x < last
    BY <1>1, <1>2, <1>4, <1>6, <1>8, <1>9, <1>11
  <2> QED
    BY <1>5, <2>1, <2>2 DEF Reachable, last, low, high, x
<1>12. CASE r = old - MaxHour /\ r > s
  <2>1. x = Envelope(old - MaxHour, o)
    BY <1>3, <1>12
  <2>2. \/ x - last \in -MaxStep .. MaxStep
        \/ x < last /\ x = high
        \/ x > last
    BY <1>1, <1>2, <1>4, <1>6, <1>8, <1>9, <1>12
  <2> QED
    BY <1>5, <2>1, <2>2 DEF Reachable, last, low, high, x
<1> QED
  BY <1>7, <1>10, <1>11, <1>12

LEMMA RateStep ==
  ASSUME IInv, AnchorIsDecided, NEW o \in Observations, DecidePlan(clock + 1, o),
         NEW z \in ObservedZones, NEW v \in Temperatures(decided'.approved[z]),
         Temperatures(decided.approved[z]) # {}
  PROVE  \E from \in Temperatures(decided.approved[z]) : Reachable(v, from, o[z], history[z])
<1> DEFINE f == decided'.approved[z]
           reading == ZoneReading(z, o)
<1>1. z \in Zones /\ TypeOK /\ clock + 1 \in Nat
  BY ExecutorAssumption DEF IInv, TypeOK
<1>2. f = NoSteps \/ \E steps : f = SafeSteps(steps, reading, history[z])
  BY <1>1, PlanDecides
<1>3. PICK a \in DOMAIN f \cap TemperatureSetpoints : v = f[a]
  BY DEF Temperatures
<1> HIDE DEF f, reading
<1>4. PICK steps : f = SafeSteps(steps, reading, history[z])
  BY <1>2, <1>3 DEF NoSteps
<1>5. steps[a] \in Int /\ v = SafeValue(a, steps[a], reading, history[z])
  BY <1>3, <1>4 DEF SafeSteps, Survives
<1>6. /\ history[z] \in Seq(Sample) /\ history[z] # << >>
      /\ LastValue(history[z]) \in Temperatures(decided.approved[z])
  BY <1>1 DEF AnchorIsDecided, TypeOK
<1>7. Reachable(v, LastValue(history[z]), reading, history[z])
  BY <1>3, <1>5, <1>6, SafeValueReachable
<1>8. BandMin(reading) = BandMin(o[z]) /\ BandMax(reading) = BandMax(o[z])
  BY DEF BandMin, BandMax, Occupied, ZoneReading, reading
<1>9. \A y : Envelope(y, reading) = Envelope(y, o[z])
  BY <1>8 DEF Envelope
<1>10. Reachable(v, LastValue(history[z]), o[z], history[z])
  BY <1>7, <1>8, <1>9 DEF Reachable
<1> QED
  BY <1>6, <1>10

\* For every model, plan and observation: what a plan approves for a zone is
\* within the rate limit of a temperature decided for that zone before, or where
\* the band or the hour has drawn it from there (Guardian._apply_rate,
\* _record_applied_rate, _record_baseline_rate).
THEOREM RateLimitHolds == Spec => RateRespected
<1> DEFINE A == decided'.source = "plan" =>
                  \A z \in ObservedZones : \A v \in Temperatures(decided'.approved[z]) :
                    \/ Temperatures(decided.approved[z]) = {}
                    \/ \E from \in Temperatures(decided.approved[z]) :
                         Reachable(v, from, observed'[z], history[z])
<1>1. IInv /\ AnchorIsDecided /\ [Next]_vars => [A]_vars
  <2> SUFFICES ASSUME IInv, AnchorIsDecided, Next, decided'.source = "plan",
                      NEW z \in ObservedZones, NEW v \in Temperatures(decided'.approved[z]),
                      Temperatures(decided.approved[z]) # {}
               PROVE  \E from \in Temperatures(decided.approved[z]) :
                        Reachable(v, from, observed'[z], history[z])
    OBVIOUS
  <2>1. CASE UNCHANGED decided
    <3>1. v \in Temperatures(decided.approved[z])
      BY <2>1
    <3>2. v \in Int
      BY <3>1, ExecutorAssumption DEF IInv, TypeOK, IsSteps, Temperatures
    <3>3. Reachable(v, v, observed'[z], history[z])
      BY <3>2, GuardianAssumption DEF Reachable
    <3> QED
      BY <3>1, <3>3
  <2>2. ASSUME NEW o \in Observations, Tick(o), Decide(clock + 1, o)
        PROVE  \E from \in Temperatures(decided.approved[z]) :
                 Reachable(v, from, observed'[z], history[z])
    <3>1. DecidePlan(clock + 1, o) /\ observed' = o
      BY <2>2 DEF Decide, DecideFallback, BaselinePlan, Tick
    <3> QED
      BY <3>1, RateStep
  <2> QED
    BY <2>1, <2>2 DEF Next, Commit, Clear, Timestep, FailedTimestep, executor
<1>2. RateRespected <=> [][A]_vars
  BY DEF RateRespected
<1>3. Init => AnchorIsDecided
  BY DEF Init, AnchorIsDecided, NoDecision, NoSteps, Temperatures
<1> HIDE DEF A
<1> QED
  BY <1>1, <1>2, <1>3, AnchorStep, Invariance, PTL DEF Spec
=============================================================================
