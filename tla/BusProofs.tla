------------------------------ MODULE BusProofs ------------------------------
(***************************************************************************)
(* For any schedules, plans and observations, and any number of timesteps  *)
(* and exceptions: what the actuators hold is what a due step of the plan  *)
(* asks for, the control history is the series of control states, and the  *)
(* detector takes note of nothing it does not report.                      *)
(***************************************************************************)
EXTENDS Bus, SequenceTheorems, WellFoundedInduction, TLAPS

-----------------------------------------------------------------------------
(* Nonempty sets of naturals, and of bounded ones.                         *)

LEMMA LeastExists ==
  ASSUME NEW S, S \subseteq Nat, S # {}
  PROVE  \E x \in S : \A y \in S : x <= y
<1> DEFINE Below == {p \in Nat \X Nat : p[1] < p[2]}
<1>1. IsWellFoundedOn(Below, Nat)
  BY NatLessThanWellFounded DEF OpToRel
<1>2. PICK x \in S : \A y \in S : <<y, x>> \notin Below
  <2> HIDE DEF Below
  <2> QED
    BY <1>1, WFMin
<1>3. \A y \in S : x <= y
  <2> TAKE y \in S
  <2>1. <<y, x>> \in Nat \X Nat /\ <<y, x>> \notin Below
    BY <1>2
  <2>2. ~(y < x) /\ x \in Nat /\ y \in Nat
    BY <2>1
  <2> QED
    BY <2>2
<1> QED
  BY <1>3

LEMMA MinInSet ==
  ASSUME NEW S, S \subseteq Nat, S # {}
  PROVE  Min(S) \in S
<1>1. \E x \in S : \A y \in S : x <= y
  BY LeastExists
<1> QED
  BY <1>1 DEF Min

\* Of some numbered things one has the greatest number.
LEMMA GreatestExists ==
  ASSUME NEW n \in Nat, NEW W, W # {}, NEW f, \A w \in W : f[w] \in 1 .. n
  PROVE  \E w \in W : \A v \in W : f[v] <= f[w]
<1> DEFINE T == {n - f[w] : w \in W}
<1>1. T # {}
  OBVIOUS
<1>2. T \subseteq Nat
  OBVIOUS
<1>3. PICK x \in T : \A y \in T : x <= y
  <2> HIDE DEF T
  <2> QED
    BY <1>1, <1>2, LeastExists
<1>4. PICK w \in W : x = n - f[w]
  BY <1>3
<1>5. \A v \in W : f[v] <= f[w]
  <2> TAKE v \in W
  <2>1. n - f[v] \in T
    OBVIOUS
  <2>2. n - f[w] <= n - f[v]
    BY <1>3, <1>4, <2>1
  <2> QED
    BY <2>2
<1> QED
  BY <1>5

-----------------------------------------------------------------------------
(* The value a plan has for a schedule is that of a step that is due.      *)

\* A step that is in force has its place in the order of writing.
LEMMA PlaceType ==
  ASSUME NEW plan \in Plans, NEW elapsed, NEW i \in Effective(plan, elapsed)
  PROVE  Place(plan, i, elapsed) \in 1 .. Len(plan.steps)
<1> DEFINE S == {j \in DueSteps(plan, elapsed) : Same(plan.steps[i], plan.steps[j])}
<1>1. i \in S
  BY DEF Effective, Same
<1>2. S \subseteq 1 .. Len(plan.steps) /\ Len(plan.steps) \in Nat
  BY BusAssumption DEF DueSteps
<1> HIDE DEF S
<1>3. Min(S) \in S
  <2>1. S \subseteq Nat /\ S # {}
    BY <1>1, <1>2
  <2> QED
    BY <2>1, MinInSet
<1>4. Place(plan, i, elapsed) = Min(S)
  BY DEF Place, S
<1> QED
  BY <1>2, <1>3, <1>4

\* One of the steps that write a schedule prevails.
LEMMA PrevailingIsDue ==
  ASSUME NEW plan \in Plans, NEW elapsed, NEW s, Writers(plan, s, elapsed) # {}
  PROVE  \E i \in Writers(plan, s, elapsed) :
           Prevailing(plan, s, elapsed) = plan.steps[i].value
<1> DEFINE w == Writers(plan, s, elapsed)
           f == [i \in w |-> Place(plan, i, elapsed)]
           chosen == CHOOSE i \in w :
                       \A j \in w : Place(plan, j, elapsed) <= Place(plan, i, elapsed)
<1>1. \A i \in w : f[i] \in 1 .. Len(plan.steps)
  BY PlaceType DEF Writers
<1>2. \E i \in w : \A j \in w : f[j] <= f[i]
  <2>1. Len(plan.steps) \in Nat
    BY BusAssumption
  <2> HIDE DEF w, f
  <2> QED
    BY <1>1, <2>1, GreatestExists DEF w
<1>3. \E i \in w : \A j \in w : Place(plan, j, elapsed) <= Place(plan, i, elapsed)
  BY <1>2
<1>4. chosen \in w
  <2> HIDE DEF w
  <2> QED
    BY <1>3
<1>5. Prevailing(plan, s, elapsed) = plan.steps[chosen].value
  BY DEF Prevailing
<1> HIDE DEF chosen
<1> QED
  BY <1>4, <1>5

-----------------------------------------------------------------------------
(* The detector: an evaluation that takes note of something has a reason.  *)

DetectorFields ==
  {"driftRun", "lastFire", "power", "lastKw", "imminent", "errSeen", "errMtime"}

Detector(d) ==
  DOMAIN d = DetectorFields /\ d.errSeen \in Int /\ d.lastFire \in Int

\* What d knows that c did not.
Noticed(c, d) ==
  d.driftRun >= DriftSteps \/ d.imminent \ c.imminent # {} \/ d.errSeen > c.errSeen

LEMMA EvaluationHasReason ==
  ASSUME NEW d, Detector(d), NEW t, NEW s, NEW f, f.count \in Int
  PROVE  LET answer == Evaluate(d, t, s, f)
         IN  /\ Detector(answer.detector) /\ answer.detector.lastFire = d.lastFire
             /\ Noticed(d, answer.detector) => answer.reason # "none"
<1> DEFINE read == AfterFile(d, f)
           drift == AfterDrift(read, s.zones)
           power == AfterPower(drift, t, s.kw)
           bands == [power EXCEPT !.imminent = Soon(t)]
<1>1. /\ Detector(read) /\ read.lastFire = d.lastFire /\ read.imminent = d.imminent
      /\ SevereError(d, f) \/ ~(read.errSeen > d.errSeen)
  BY DEF Detector, DetectorFields, AfterFile, SevereError
<1>2. /\ Detector(drift) /\ drift.lastFire = d.lastFire /\ drift.imminent = d.imminent
      /\ drift.errSeen = read.errSeen
  <2> HIDE DEF read
  <2> QED
    BY <1>1 DEF Detector, DetectorFields, AfterDrift
<1>3. /\ Detector(power) /\ power.lastFire = d.lastFire /\ power.imminent = d.imminent
      /\ power.errSeen = read.errSeen /\ power.driftRun = drift.driftRun
  <2> HIDE DEF read, drift
  <2> QED
    BY <1>2 DEF Detector, DetectorFields, AfterPower
<1>4. /\ Detector(bands) /\ bands.lastFire = d.lastFire /\ bands.imminent = Soon(t)
      /\ bands.errSeen = read.errSeen /\ bands.driftRun = drift.driftRun
  <2> HIDE DEF read, drift, power
  <2> QED
    BY <1>3 DEF Detector, DetectorFields
<1>5. BandReason(power, t) # "none" \/ Soon(t) \ d.imminent = {}
  <2>1. power.imminent = d.imminent
    BY <1>3
  <2> HIDE DEF power
  <2>2. Soon(t) \subseteq {"tariff", "carbon"}
    BY DEF Soon
  <2> QED
    BY <2>1, <2>2 DEF BandReason
<1> DEFINE answer == Evaluate(d, t, s, f)
<1>6. \/ SevereError(d, f) /\ answer = Answer(read, "severe_error")
      \/ ~SevereError(d, f) /\ answer = Answer(drift, "comfort_drift")
      \/ ~SevereError(d, f) /\ answer = Answer(power, "peak_approach")
      \/ /\ ~SevereError(d, f) /\ ~(drift.driftRun >= DriftSteps)
         /\ answer = Answer(bands, BandReason(power, t))
  BY DEF Evaluate
<1>7. /\ Detector(answer.detector) /\ answer.detector.lastFire = d.lastFire
      /\ Noticed(d, answer.detector) => answer.reason # "none"
  <2> HIDE DEF read, drift, power, bands, answer
  <2>1. CASE answer = Answer(read, "severe_error")
    BY <1>1, <2>1 DEF Answer
  <2>2. CASE answer = Answer(drift, "comfort_drift")
    BY <1>2, <2>2 DEF Answer
  <2>3. CASE answer = Answer(power, "peak_approach")
    BY <1>3, <2>3 DEF Answer
  <2>4. CASE /\ ~SevereError(d, f) /\ ~(drift.driftRun >= DriftSteps)
             /\ answer = Answer(bands, BandReason(power, t))
    BY <1>1, <1>4, <1>5, <2>4 DEF Answer, Noticed
  <2> QED
    BY <1>6, <2>1, <2>2, <2>3, <2>4
<1> QED
  BY <1>7

\* What is noticed fires, unless something fired just before.
LEMMA NoticedFires ==
  ASSUME NEW d, Detector(d), NEW t \in Int, NEW s, NEW f, f.count \in Int
  PROVE  LET asked == ShouldTrigger(d, t, s, f)
         IN  /\ Detector(asked.detector)
             /\ asked.detector.lastFire = IF asked.fires THEN t ELSE d.lastFire
             /\ Noticed(d, asked.detector) =>
                  asked.fires \/ (d.lastFire # Never /\ t - d.lastFire < Debounce)
<1> DEFINE answer == Evaluate(d, t, s, f)
           e == answer.detector
           fires == /\ answer.reason # "none"
                    /\ d.lastFire = Never \/ t - d.lastFire >= Debounce
           asked == ShouldTrigger(d, t, s, f)
<1>1. /\ Detector(e) /\ e.lastFire = d.lastFire
      /\ Noticed(d, e) => answer.reason # "none"
  BY EvaluationHasReason
<1>2. asked = [detector |-> IF fires THEN [e EXCEPT !.lastFire = t] ELSE e, fires |-> fires]
  BY DEF ShouldTrigger
<1>3. asked.fires = fires /\ asked.detector = IF fires THEN [e EXCEPT !.lastFire = t] ELSE e
  BY <1>2
<1>4. d.lastFire \in Int /\ Debounce \in Int
  BY EventsAssumption DEF Detector
<1>5. Noticed(d, e) => fires \/ (d.lastFire # Never /\ t - d.lastFire < Debounce)
  BY <1>1, <1>4
<1> HIDE DEF answer, fires, asked
<1>6. CASE fires
  <2> HIDE DEF e
  <2>1. asked.detector = [e EXCEPT !.lastFire = t]
    BY <1>3, <1>6
  <2> QED
    BY <1>1, <1>3, <1>6, <2>1 DEF Detector, DetectorFields, asked
<1>7. CASE ~fires
  BY <1>1, <1>3, <1>5, <1>7 DEF asked
<1> QED
  BY <1>6, <1>7

-----------------------------------------------------------------------------
(* The invariant.  The handles are what puts a plan in force from the      *)
(* first timestep on, and the last time the detector fired is what a       *)
(* debounced trigger is held against.                                      *)

TypeOK ==
  /\ clock \in Nat /\ file.count \in Nat /\ Detector(detector)
  /\ anchors \in [{q.id : q \in Plans} -> Int]
  /\ \E S : control \in Seq(S)

HandlesFetched == ready => \A s \in Offered : handles[s] = "good"

FireIsKnown == detector.lastFire = Never \/ detector.lastFire \in fired

IInv == TypeOK /\ HandlesFetched /\ FireIsKnown /\ PlanInForce /\ ControlHistoryKept

LEMMA InitInvariant == Init => IInv
<1> SUFFICES ASSUME Init PROVE IInv
  OBVIOUS
<1>1. Detector(NewDetector) /\ NewDetector.lastFire = Never
  BY DEF Detector, DetectorFields, NewDetector, Never
<1>2. << >> \in Seq({}) /\ Len(<< >>) = 0 /\ DOMAIN << >> = {}
  BY EmptySeq, LenProperties
<1>3. TypeOK
  BY <1>1, <1>2 DEF Init, TypeOK, Never
<1>4. HandlesFetched /\ FireIsKnown /\ PlanInForce
  BY <1>1 DEF Init, HandlesFetched, FireIsKnown, PlanInForce, Nothing
<1>5. ControlHistoryKept
  <2>1. 2 .. Len(control) = {}
    BY <1>2 DEF Init
  <2> QED
    BY <2>1 DEF Init, ControlHistoryKept, Nothing
<1> QED
  BY <1>3, <1>4, <1>5 DEF IInv

-----------------------------------------------------------------------------
(* The parts of a callback.                                                *)

\* A control state is noted: the series still has no repetition, and ends with it.
LEMMA NotedSeries ==
  ASSUME NEW S, NEW c \in Seq(S), \A i \in 2 .. Len(c) : c[i] # c[i - 1], NEW values
  PROVE  LET d == Noted(c, values)
         IN  /\ \E R : d \in Seq(R)
             /\ \A i \in 2 .. Len(d) : d[i] # d[i - 1]
             /\ d # << >> /\ d[Len(d)] = values
<1>1. CASE c # << >> /\ c[Len(c)] = values
  BY <1>1 DEF Noted
<1>2. CASE ~(c # << >> /\ c[Len(c)] = values)
  <2> DEFINE R == S \cup {values}
             d == Append(c, values)
  <2>1. c \in Seq(R) /\ values \in R
    BY SeqMonotonic
  <2>2. Noted(c, values) = d
    BY <1>2 DEF Noted
  <2>3. /\ d \in Seq(R) /\ d # << >> /\ Len(d) = Len(c) + 1
        /\ \A i \in 1 .. Len(c) : d[i] = c[i]
        /\ d[Len(c) + 1] = values
    <3> HIDE DEF R
    <3> QED
      BY <2>1, AppendProperties
  <2>4. Len(c) \in Nat /\ (c = << >> <=> Len(c) = 0)
    BY EmptySeq, LenProperties
  <2> HIDE DEF d, R
  <2>5. ASSUME NEW i \in 2 .. Len(d) PROVE d[i] # d[i - 1]
    <3>1. CASE i = Len(c) + 1
      <4>1. c # << >> /\ d[i] = values /\ d[i - 1] = c[Len(c)]
        BY <2>3, <2>4, <2>5, <3>1
      <4> QED
        BY <1>2, <4>1
    <3>2. CASE i \in 2 .. Len(c)
      BY <2>3, <2>4, <3>2
    <3> QED
      BY <2>3, <2>4, <2>5, <3>1, <3>2
  <2> QED
    BY <2>2, <2>3, <2>5
<1> QED
  BY <1>1, <1>2

\* The handles are good in every callback that observes.
LEMMA ObserveHandles ==
  ASSUME HandlesFetched, Observe
  PROVE  HandlesFetched' /\ \A s \in Offered : handles'[s] = "good"
<1>1. \A s \in Offered : handles'[s] = "good"
  BY BusAssumption DEF HandlesFetched, Observe, MayObserve, Fetched
<1> QED
  BY <1>1 DEF HandlesFetched

\* What the scheduler asks of the detector.
Latched ==
  \/ detector' # detector /\ detector'.driftRun >= DriftSteps
  \/ detector'.imminent \ detector.imminent # {}
  \/ detector'.errSeen > detector.errSeen

LEMMA AskStep ==
  ASSUME TypeOK, FireIsKnown, NEW now \in Int, NEW s, NEW free, Ask(now, s, free)
  PROVE  /\ Detector(detector)' /\ FireIsKnown'
         /\ Latched => \E t \in fired' : now - t < Debounce
<1>1. CASE UNCHANGED <<detector, fired>>
  <2>1. Detector(detector)' /\ FireIsKnown'
    BY <1>1 DEF TypeOK, FireIsKnown, Detector
  <2>2. ~Latched
    BY <1>1 DEF Latched, TypeOK, Detector
  <2> QED
    BY <2>1, <2>2
<1>2. CASE ~UNCHANGED <<detector, fired>>
  <2> DEFINE asked == ShouldTrigger(detector, now, s, file)
  <2>1. /\ detector' = asked.detector
        /\ fired' = IF asked.fires THEN fired \cup {now} ELSE fired
    BY <1>2 DEF Ask
  <2>2. now \in Int /\ Detector(detector) /\ file.count \in Int
    BY DEF TypeOK
  <2>3. now - now < Debounce
    BY <2>2, EventsAssumption
  <2>4. /\ Detector(asked.detector)
        /\ asked.detector.lastFire = IF asked.fires THEN now ELSE detector.lastFire
        /\ Noticed(detector, asked.detector) =>
             asked.fires \/ (detector.lastFire # Never /\ now - detector.lastFire < Debounce)
    BY <2>2, NoticedFires
  <2> HIDE DEF asked
  <2>5. Detector(detector)' /\ FireIsKnown'
    BY <2>1, <2>4 DEF FireIsKnown, Detector
  <2>6. ASSUME Latched PROVE \E u \in fired' : now - u < Debounce
    <3>1. Noticed(detector, asked.detector)
      BY <2>1, <2>6 DEF Latched, Noticed
    <3>2. CASE asked.fires
      BY <2>1, <2>3, <3>2
    <3>3. CASE ~asked.fires
      BY <2>1, <2>4, <3>1, <3>3 DEF FireIsKnown
    <3> QED
      BY <3>2, <3>3
  <2>7. Latched => \E u \in fired' : now - u < Debounce
    BY <2>6
  <2> QED
    BY <2>5, <2>7
<1> QED
  BY <1>1, <1>2

\* A plan is driven.
LEMMA DriveStep ==
  ASSUME IInv, Observe, NEW plan \in Plans, NEW now, NEW anchor,
         anchors' = [anchors EXCEPT ![plan.id] = anchor],
         applied' = Driven(applied, plan, now - anchor, Schedules),
         last' = [outcome |-> "driven", plan |-> plan, at |-> now]
  PROVE  PlanInForce'
<1> DEFINE elapsed == now - anchor
<1>1. last'.at - anchors'[last'.plan.id] = elapsed /\ last'.plan = plan
  <2>1. plan.id \in DOMAIN anchors
    BY DEF IInv, TypeOK
  <2>2. anchors'[plan.id] = anchor
    BY <2>1
  <2> QED
    BY <2>2
<1>2. ASSUME NEW s \in Offered, Writers(plan, s, elapsed) # {}
      PROVE  \E i \in Writers(plan, s, elapsed) : applied'[s] = plan.steps[i].value
  <2>1. s \in Schedules /\ handles'[s] = "good"
    BY BusAssumption, ObserveHandles DEF IInv
  <2>2. applied'[s] = Prevailing(plan, s, elapsed)
    BY <1>2, <2>1 DEF Driven
  <2> HIDE DEF elapsed
  <2> QED
    BY <1>2, <2>2, PrevailingIsDue
<1> HIDE DEF elapsed
<1> QED
  BY <1>1, <1>2 DEF PlanInForce, Writers, Effective, DueSteps

\* The control history with what a callback notes, or as it was.
Entered(outcome) ==
  \/ control' = Noted(control, applied') /\ last'.outcome = outcome
  \/ control' = control /\ last'.outcome = "uncontrolled"

LEMMA HistoryStep ==
  ASSUME IInv, NEW outcome, Entered(outcome)
  PROVE  ControlHistoryKept' /\ \E S : control' \in Seq(S)
<1>1. PICK S : control \in Seq(S)
  BY DEF IInv, TypeOK
<1>2. \A i \in 2 .. Len(control) : control[i] # control[i - 1]
  BY DEF IInv, ControlHistoryKept
<1>3. CASE control' = Noted(control, applied') /\ last'.outcome = outcome
  <2> DEFINE values == applied'
             series == Noted(control, values)
  <2>1. /\ \E R : series \in Seq(R)
        /\ \A i \in 2 .. Len(series) : series[i] # series[i - 1]
        /\ series # << >> /\ series[Len(series)] = values
    <3> HIDE DEF values
    <3> QED
      BY <1>1, <1>2, NotedSeries
  <2>2. control' = series
    BY <1>3
  <2> HIDE DEF series
  <2> QED
    BY <2>1, <2>2 DEF ControlHistoryKept
<1>4. CASE control' = control /\ last'.outcome = "uncontrolled"
  BY <1>1, <1>2, <1>4 DEF ControlHistoryKept
<1> QED
  BY <1>3, <1>4 DEF Entered

\* A callback that asks the detector or does not.
LEMMA CallbackStep ==
  ASSUME IInv, Observe,
         \/ UNCHANGED scheduler
         \/ \E s \in Situations, free \in BOOLEAN : Ask(clock + 1, s, free),
         \/ UNCHANGED anchors
         \/ \E id \in DOMAIN anchors, at \in Int : anchors' = [anchors EXCEPT ![id] = at],
         PlanInForce', ControlHistoryKept',
         \E S : control' \in Seq(S)
  PROVE  IInv' /\ (Latched => \E t \in fired' : clock' - t < Debounce)
<1>1. clock' = clock + 1 /\ clock' \in Nat /\ UNCHANGED file
  BY DEF Observe, IInv, TypeOK
<1>2. HandlesFetched'
  BY ObserveHandles DEF IInv
<1>3. /\ Detector(detector)' /\ FireIsKnown'
      /\ Latched => \E t \in fired' : clock' - t < Debounce
  <2>1. CASE UNCHANGED scheduler
    <3>1. Detector(detector)' /\ FireIsKnown'
      BY <2>1 DEF IInv, TypeOK, FireIsKnown, Detector, scheduler
    <3>2. ~Latched
      BY <2>1 DEF Latched, IInv, TypeOK, Detector, scheduler
    <3> QED
      BY <3>1, <3>2
  <2>2. CASE \E s \in Situations, free \in BOOLEAN : Ask(clock + 1, s, free)
    <3> DEFINE now == clock'
    <3>1. PICK s \in Situations, free \in BOOLEAN : Ask(now, s, free)
      BY <1>1, <2>2
    <3>2. now \in Int
      BY <1>1
    <3> HIDE DEF now
    <3>3. /\ Detector(detector)' /\ FireIsKnown'
          /\ Latched => \E t \in fired' : now - t < Debounce
      BY <3>1, <3>2, AskStep DEF IInv
    <3> QED
      BY <3>3 DEF now
  <2> QED
    BY <2>1, <2>2
<1>4. TypeOK'
  BY <1>1, <1>3 DEF IInv, TypeOK
<1> QED
  BY <1>2, <1>3, <1>4 DEF IInv

LEMMA TimestepStep ==
  ASSUME IInv, NEW s \in Situations, NEW free \in BOOLEAN, NEW plan \in Plans \cup {NoPlan},
         Timestep(s, free, plan)
  PROVE  IInv' /\ (Latched => \E t \in fired' : clock' - t < Debounce)
<1>1. Observe /\ Ask(clock + 1, s, free)
  BY DEF Timestep
<1>2. CASE plan = NoPlan
  <2>1. UNCHANGED <<anchors, applied, control, last>>
    BY <1>2 DEF Timestep
  <2>2. PlanInForce' /\ ControlHistoryKept' /\ \E S : control' \in Seq(S)
    BY <2>1 DEF IInv, TypeOK, PlanInForce, ControlHistoryKept, Writers, Effective, DueSteps
  <2> QED
    BY <1>1, <2>1, <2>2, CallbackStep
<1>3. CASE plan # NoPlan
  <2> DEFINE anchor == Anchor(plan, clock + 1)
  <2>0. plan \in Plans /\ clock \in Int /\ anchor \in Int
    BY <1>3 DEF IInv, TypeOK, Anchor
  <2>1. /\ anchors' = [anchors EXCEPT ![plan.id] = anchor]
        /\ applied' = Driven(applied, plan, clock + 1 - anchor, Schedules)
        /\ control' = Noted(control, applied')
        /\ last' = [outcome |-> "driven", plan |-> plan, at |-> clock + 1]
    BY <1>3 DEF Timestep
  <2> HIDE DEF anchor
  <2>2. PlanInForce'
    <3> SUFFICES ASSUME NEW now, now = clock + 1 PROVE PlanInForce'
      OBVIOUS
    <3>1. applied' = Driven(applied, plan, now - anchor, Schedules)
      BY <2>0, <2>1
    <3>2. last' = [outcome |-> "driven", plan |-> plan, at |-> now]
      BY <2>1
    <3> QED
      BY <1>1, <2>0, <2>1, <3>1, <3>2, DriveStep
  <2>3. Entered("driven") /\ plan.id \in DOMAIN anchors
    BY <2>0, <2>1 DEF Entered, IInv, TypeOK
  <2>4. ControlHistoryKept' /\ \E S : control' \in Seq(S)
    BY <2>3, HistoryStep
  <2> QED
    BY <1>1, <2>0, <2>1, <2>2, <2>3, <2>4, CallbackStep
<1> QED
  BY <1>2, <1>3

\* The fallback, whole or not.
LEMMA FallbackEnters ==
  ASSUME NEW values, Fallback(values) \/ FallbackRaises(values)
  PROVE  Entered("fallback") /\ last'.outcome # "driven"
  BY DEF Entered, Fallback, FallbackRaises

LEMMA FailedTimestepStep ==
  ASSUME IInv, NEW s \in Situations, NEW free \in BOOLEAN, NEW plan \in Plans \cup {NoPlan},
         FailedTimestep(s, free, plan)
  PROVE  IInv' /\ (Latched => \E t \in fired' : clock' - t < Debounce)
<1>1. Observe
  BY DEF FailedTimestep
<1>2. UNCHANGED scheduler \/ Ask(clock + 1, s, free)
  BY DEF FailedTimestep, RaiseBefore, RaiseWriting
<1>3. \/ UNCHANGED anchors
      \/ \E id \in DOMAIN anchors, at \in Int : anchors' = [anchors EXCEPT ![id] = at]
  <2>1. CASE plan = NoPlan \/ RaiseBefore(s, free)
    BY <2>1 DEF FailedTimestep, RaiseBefore
  <2>2. CASE plan \in Plans /\ RaiseWriting(s, free, plan)
    <3>1. plan.id \in DOMAIN anchors /\ Anchor(plan, clock + 1) \in Int
      BY <2>2 DEF IInv, TypeOK, Anchor
    <3>2. anchors' = [anchors EXCEPT ![plan.id] = Anchor(plan, clock + 1)]
      BY <2>2 DEF RaiseWriting
    <3> QED
      BY <3>1, <3>2
  <2> QED
    BY <2>1, <2>2 DEF FailedTimestep
<1>4. \E values : Fallback(values) \/ FallbackRaises(values)
  BY DEF FailedTimestep, RaiseBefore, RaiseWriting
<1>5. Entered("fallback") /\ last'.outcome # "driven"
  BY <1>4, FallbackEnters
<1>6. PlanInForce'
  BY <1>5 DEF PlanInForce
<1>7. ControlHistoryKept' /\ \E S : control' \in Seq(S)
  BY <1>5, HistoryStep
<1> QED
  BY <1>1, <1>2, <1>3, <1>6, <1>7, CallbackStep

\* EnergyPlus, the start and the end of the run, and the first callback.
LEMMA OtherStep ==
  ASSUME IInv,
         \/ Start \/ Finish \/ Populate \/ Fetch
         \/ \E readable \in BOOLEAN : Complain(readable)
         \/ UNCHANGED vars
  PROVE  IInv' /\ ~Latched
<1>1. UNCHANGED <<clock, anchors, applied, control, scheduler, last>>
  BY DEF Start, Finish, Populate, Fetch, Complain, vars
<1>2. file'.count \in Nat
  BY DEF Start, Finish, Populate, Fetch, Complain, vars, IInv, TypeOK
<1>3. HandlesFetched'
  BY BusAssumption DEF IInv, HandlesFetched, Start, Finish, Populate, Fetch, Fetched,
                       MayObserve, Complain, vars
<1>4. TypeOK' /\ FireIsKnown' /\ ControlHistoryKept'
  BY <1>1, <1>2 DEF IInv, TypeOK, FireIsKnown, ControlHistoryKept, Detector, scheduler
<1>5. PlanInForce'
  BY <1>1 DEF IInv, PlanInForce, Writers, Effective, DueSteps
<1>6. ~Latched
  BY <1>1 DEF IInv, TypeOK, Detector, Latched, scheduler
<1> QED
  BY <1>3, <1>4, <1>5, <1>6 DEF IInv

LEMMA StepInvariant ==
  ASSUME IInv, [Next]_vars
  PROVE  IInv' /\ (Latched => \E t \in fired' : clock' - t < Debounce)
<1>1. CASE \/ Start \/ Finish \/ Populate \/ Fetch
           \/ \E readable \in BOOLEAN : Complain(readable)
           \/ UNCHANGED vars
  BY <1>1, OtherStep
<1>2. CASE \E s \in Situations, free \in BOOLEAN, plan \in Plans \cup {NoPlan} :
             Timestep(s, free, plan) \/ FailedTimestep(s, free, plan)
  BY <1>2, TimestepStep, FailedTimestepStep
<1> QED
  BY <1>1, <1>2 DEF Next

-----------------------------------------------------------------------------
(* The theorems.                                                           *)

THEOREM Invariance == Spec => []IInv
<1>1. IInv /\ [Next]_vars => IInv'
  BY StepInvariant
<1> QED
  BY <1>1, InitInvariant, PTL DEF Spec

\* After a plan was driven every schedule EnergyPlus offers holds the value of a
\* step that is due, however many steps, zones and schedules there are and from
\* the first timestep on (_on_timestep, _fetch_handles, write_setpoints).
THEOREM PlanIsInForce == Spec => []PlanInForce
<1>1. IInv => PlanInForce
  BY DEF IInv
<1> QED
  BY <1>1, Invariance, PTL

\* No entry of the control history repeats the one before, and the last is what
\* the actuators hold, after every exception the fallback caught
\* (_note_control_state, _actuate_baseline).
THEOREM HistoryIsKept == Spec => []ControlHistoryKept
<1>1. IInv => ControlHistoryKept
  BY DEF IInv
<1> QED
  BY <1>1, Invariance, PTL

\* What the detector takes note of fires a trigger, or one fired within the
\* debounce, in callbacks that raise as well (should_trigger, _evaluate).
THEOREM NothingLatchedUnheard == Spec => LatchedIsHeard
<1> DEFINE A == Latched => \E t \in fired' : clock' - t < Debounce
<1>1. IInv /\ [Next]_vars => [A]_vars
  BY StepInvariant
<1>2. LatchedIsHeard <=> [][A]_vars
  BY DEF LatchedIsHeard, Latched
<1> HIDE DEF A
<1> QED
  BY <1>1, <1>2, Invariance, PTL DEF Spec
=============================================================================
