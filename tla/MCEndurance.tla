---------------------------- MODULE MCEndurance ----------------------------
(***************************************************************************)
(* An instance of Endurance for TLC: a run whose last chunk is shorter     *)
(* than the others, and another it must not be confused with.              *)
(***************************************************************************)
EXTENDS Endurance

TwoRuns == {[days |-> 5, chunk |-> 2], [days |-> 4, chunk |-> 1]}
=============================================================================
