----------------------------- MODULE MCExecutor -----------------------------
(***************************************************************************)
(* Instances of Executor for TLC.  Temperatures are in half degrees: the   *)
(* occupied band is 21.5..24.5 C, the unoccupied 20..30 C, the baseline    *)
(* 24/21 C, the rate limits 1 and 2 C.  An hour is three timesteps.        *)
(***************************************************************************)
EXTENDS Executor

St(offset, zone, actuator, value) ==
  [offset |-> offset, zone |-> zone, actuator |-> actuator, value |-> value]
P(id, steps) == [id |-> id, steps |-> steps]
All(z, occupancy, pmv) == [y \in 1 .. z |-> [occupancy |-> occupancy, pmv |-> pmv]]

\* One zone with a cooling and a heating schedule, and plans of every kind: two
\* due steps, a step still to come, a stripped actuator, a value to reject, a
\* plan id used twice.
OneZone == 1 .. 1
OneZoneBaseline == [s \in {"cool", "heat"} |-> IF s = "cool" THEN 48 ELSE 42]
OneHandles == {"cool", "heat"}
OneCooling == <<"cool">>
OneHeating == <<"heat">>
MixedPlans ==
  {P("a", <<St(0, 1, "cooling", 60), St(1, 1, "heating", 40), St(0, 1, "other", 1)>>),
   P("a", <<St(0, 1, "heating", 30), St(1, 1, "cooling", 44)>>),
   P("b", <<St(0, 1, "cooling", NonFinite), St(2, 1, "cooling", 46)>>)}
MixedObservations == {All(1, 0, NonFinite), All(1, 2, 4)}

\* Cooling steps only.
CoolingPlans == {P("a", <<St(0, 1, "cooling", 60)>>), P("b", <<St(0, 1, "cooling", 40)>>)}
AlwaysOccupied == {All(1, 1, NonFinite)}
=============================================================================
