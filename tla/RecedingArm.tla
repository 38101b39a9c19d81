----------------------------- MODULE RecedingArm -----------------------------
(***************************************************************************)
(* The agent's arm over the receding-horizon driver                        *)
(* (experiments/receding_ab.py): before each chunk the planner is shown    *)
(* the busiest hour of the chunk before it; its plan is lowered, filtered  *)
(* by the guardian zone by zone, and approved.                             *)
(***************************************************************************)
EXTENDS Receding

CONSTANTS
  Answers,  \* what the planner may answer: a plan_id and actions, from now on
  Clips     \* [low, high]: what the guardian may have a value clipped to

Action == [zone : Zones, actuator : Actuators, value : Int, start : Int, end : Int]

ASSUME RecedingArmAssumption ==
  \A answer \in Answers : answer.actions \in Seq(Action)

-----------------------------------------------------------------------------
(* plan_provider                                                           *)

At(action) == [action EXCEPT !.start = Now + @, !.end = Now + @]

\* _baseline_map
BaselineMap ==
  [target \in UNION {{<<z, a>> : a \in DOMAIN Binding[z]} : z \in Zones} |->
     Baseline[Binding[target[1]][target[2]]]]

Steps(answer) ==
  Lowered([i \in DOMAIN answer.actions |-> At(answer.actions[i])], Now, BaselineMap)

\* What the guardian leaves of one zone's steps.  Each of its limits is a clamp,
\* so all of them together are one; approve has every step act at once, for the
\* executor resolves a plan before it asks.
Verdict(steps, zone, clip) ==
  LET ofZone == SelectSeq(steps, LAMBDA step : step.zone = zone)
      clipped(step) == Greatest(clip[step.actuator].low, Least(clip[step.actuator].high, step.value))
  IN  [i \in DOMAIN ofZone |->
         [ofZone[i] EXCEPT !.value = clipped(ofZone[i]), !.offset = 0]]

ApprovedSteps(steps, observed, clip) ==
  LET zones == SetToSortSeq(observed, <)
  IN  FlattenSeq([i \in DOMAIN zones |-> Verdict(steps, zones[i], clip[zones[i]])])

\* The planner is asked when the chunk before had people in it, and answers.
AgentPlan(answer) ==
  /\ occupied /\ ~Refused(Steps(answer))
  /\ \E observed \in SUBSET Zones, clip \in [Zones -> [Actuators -> Clips]] :
       Write(answer.id, ApprovedSteps(Steps(answer), observed, clip))

\* Lowering refuses the plan.
PlanRefused(answer) == occupied /\ Refused(Steps(answer)) /\ ProviderRaises

ArmNext ==
  \/ NoNewPlan
  \/ \E answer \in Answers : AgentPlan(answer) \/ PlanRefused(answer)
  \/ Snapshot \/ WriteModel \/ ChunkFails
  \/ \E result \in Results : ChunkRuns(result)

ArmSpec == Init /\ [][ArmNext]_vars

-----------------------------------------------------------------------------
(* Properties.                                                             *)

\* A plan made before a chunk is not discarded: a schedule it has steps for holds
\* a value of theirs in the model of the chunk (receding_ab, _write_schedules).
PlanNotDiscarded ==
  pc = "simulate" /\ active # NoPlan =>
    \A s \in Schedules :
      StepsFor(active, s) # {} =>
        \E i \in StepsFor(active, s), slot \in 0 .. Day - 1 :
          ValueAt(model[s], slot) = active.steps[i].value
=============================================================================
