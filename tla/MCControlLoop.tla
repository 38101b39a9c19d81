---------------------------- MODULE MCControlLoop ----------------------------
(***************************************************************************)
(* An instance of ControlLoop for TLC: a situation that calls for a plan,  *)
(* and timesteps without a state.                                          *)
(***************************************************************************)
EXTENDS ControlLoop

CONSTANTS hot, mild
TwoSituations == {hot, mild}
In(situation, calm, event) == [situation |-> situation, calm |-> calm, event |-> event]

EventfulInputs == {In(hot, FALSE, TRUE), In(NoState, FALSE, FALSE)}
Verdicts == {"accepted", "clamped"}
=============================================================================
