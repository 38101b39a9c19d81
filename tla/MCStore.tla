------------------------------ MODULE MCStore ------------------------------
(***************************************************************************)
(* An instance of Store for TLC: two plans, whose threads may overlap, and *)
(* batches of two timesteps.                                               *)
(***************************************************************************)
EXTENDS Store

CONSTANTS p1, p2, watchdog
TwoPlans == {p1, p2}
=============================================================================
