------------------------------ MODULE Progress ------------------------------
(***************************************************************************)
(* What a checkpointed run promises (experiments/endurance.py): the days   *)
(* of one run are covered in order, a chunk at a time, none twice and none *)
(* left out, whatever happens to the process on the way.                   *)
(***************************************************************************)
EXTENDS Naturals

CONSTANTS Runs    \* the runs that may be asked for: [days, chunk]

VARIABLES
  run,        \* the run in progress, or NotStarted
  covered     \* how many of its days are accounted for, from the first

NotStarted == [days |-> 0, chunk |-> 0]

Init == run = NotStarted /\ covered = 0

Start == run = NotStarted /\ run' \in Runs /\ UNCHANGED covered

Advance ==
  /\ covered < run.days
  /\ covered' = IF covered + run.chunk <= run.days THEN covered + run.chunk ELSE run.days
  /\ UNCHANGED run

Next == Start \/ Advance

Spec == Init /\ [][Next]_<<run, covered>>
=============================================================================
