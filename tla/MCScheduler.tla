----------------------------- MODULE MCScheduler -----------------------------
(***************************************************************************)
(* Instances of Scheduler for TLC: two situations, one of them calm, and a *)
(* timestep without a state.                                               *)
(***************************************************************************)
EXTENDS Scheduler

CONSTANTS hot, mild
TwoSituations == {hot, mild}
In(situation, calm, event) == [situation |-> situation, calm |-> calm, event |-> event]

MixedInputs == {In(hot, FALSE, TRUE), In(mild, TRUE, FALSE), In(NoState, FALSE, FALSE)}
Verdicts == {"accepted", "rejected"}
=============================================================================
