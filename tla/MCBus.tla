------------------------------- MODULE MCBus -------------------------------
(***************************************************************************)
(* An instance of Bus for TLC: one zone with its two schedules and a third *)
(* EnergyPlus has no actuator for; hours of three timesteps, a band change *)
(* in two of them; a plan that steps down once and one that addresses what *)
(* is not wired.                                                           *)
(***************************************************************************)
EXTENDS Bus, TLC

CONSTANTS cool, heat, ghost
ThreeSchedules == {cool, heat, ghost}
TwoOffered == {cool, heat}
BaselineOf == [s \in ThreeSchedules |-> IF s = heat THEN 20 ELSE 24]
Wiring == 1 :> [cooling |-> cool, heating |-> heat] @@ 2 :> [cooling |-> ghost]

StepOf(zone, actuator, offset, value) ==
  [zone |-> zone, actuator |-> actuator, offset |-> offset, value |-> value]
PrecoolPlan == [id |-> "precool",
  steps |-> <<StepOf(1, "cooling", 0, 22), StepOf(1, "heating", 1, 21),
              StepOf(1, "cooling", 2, 23)>>]
SetbackPlan == [id |-> "setback",
  steps |-> <<StepOf(2, "cooling", 0, 25), StepOf(1, "heating", 0, 20),
              StepOf(2, "heating", 0, 19), StepOf(1, "cooling", 0, 24)>>]
TwoPlans == {PrecoolPlan, SetbackPlan}

Zone(edge) == [occupied |-> TRUE, pmv |-> 0, edge |-> edge]
Calm == [zones |-> {Zone(9)}, kw |-> 5]
Drift == [zones |-> {Zone(2)}, kw |-> 6]
TwoSituations == {Calm, Drift}

Tariff == <<"a", "b", "b", "b">>
TariffOf == [h \in 0 .. 3 |-> Tariff[h + 1]]
Carbon == <<"x", "x", "y", "y">>
CarbonOf == [h \in 0 .. 3 |-> Carbon[h + 1]]
=============================================================================
