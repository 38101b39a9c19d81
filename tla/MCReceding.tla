----------------------------- MODULE MCReceding -----------------------------
(***************************************************************************)
(* Instances of Receding and Smoke for TLC: days of eight slots, values in *)
(* half degrees, two zones that share a heating schedule.  Plans with a    *)
(* window that has passed, one that opens later, one that closes after a   *)
(* day, and too many actions; results with a sizing day, and of a day      *)
(* without people.                                                         *)
(***************************************************************************)
EXTENDS Smoke

CONSTANTS cool1, cool2, heat, plan1, plan2
Wiring == <<[cooling |-> cool1, heating |-> heat], [cooling |-> cool2, heating |-> heat]>>
BaselineOf == [s \in {cool1, cool2, heat} |-> IF s = heat THEN 40 ELSE 48]

Do(zone, actuator, value, start, end) ==
  [zone |-> zone, actuator |-> actuator, value |-> value, start |-> start, end |-> end]
Precool == <<Do(1, "cooling", 44, 0, 4), Do(2, "cooling", 52, 4, 12)>>
Late == <<Do(1, "cooling", 46, -4, -2), Do(1, "heating", 42, 2, 6), Do(1, "cooling", 42, 10, 18)>>
Busy == Precool \o Precool
\* Windows that meet, the second as the first ends, and a third that ends with
\* the second: two steps for one time, and one that repeats the value before.
Meeting == <<Do(1, "cooling", 44, 0, 4), Do(1, "cooling", 46, 4, 8), Do(1, "cooling", 46, 6, 8)>>
Answer(id, actions) == [id |-> id, actions |-> actions]
SomeAnswers == {Answer(plan1, Precool), Answer(plan1, Late), Answer(plan2, Busy)}

\* Plans for the driver: those windows from the moment a plan is made, and
\* steps that come due after days.
Offer(id, actions) ==
  [id |-> id,
   steps |-> Lowered(actions, 0,
                     [t \in {1, 2} \X {"cooling", "heating"} |-> BaselineOf[Wiring[t[1]][t[2]]]])]
InDays == <<[offset |-> 10, zone |-> 2, actuator |-> "cooling", value |-> 44],
            [offset |-> 21, zone |-> 2, actuator |-> "cooling", value |-> 52]>>
SomeOffers ==
  {Offer(plan1, Precool), Offer(plan2, Late), Offer(plan1, Meeting),
   [id |-> plan2, steps |-> InDays], [id |-> plan2, steps |-> << >>]}

\* What a value may be clipped to: nothing, or nearly one value.
SomeClips == {[low |-> 32, high |-> 56], [low |-> 44, high |-> 46]}

Row(at, runPeriod, people) == [at |-> at, runPeriod |-> runPeriod, people |-> people]
Working == {Row(-9, FALSE, TRUE), Row(4, TRUE, TRUE), Row(8, TRUE, FALSE)}
Idle == {Row(-9, FALSE, TRUE), Row(4, TRUE, FALSE), Row(8, TRUE, FALSE)}
Sizing == {Row(-9, FALSE, TRUE)}
SomeResults == {Working, Idle, Sizing}

Envelope == [cooling |-> [minimum |-> 44, maximum |-> 56, maxStep |-> 3],
             heating |-> [minimum |-> 32, maximum |-> 44, maxStep |-> 3]]

\* The planner's arm by itself.
PlannerSpec == SmokeInit /\ arm = "planner" /\ [][SmokeNext]_allVars
=============================================================================
