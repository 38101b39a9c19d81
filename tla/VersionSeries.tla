--------------------------- MODULE VersionSeries ---------------------------
(***************************************************************************)
(* What the model series promises (simulation/patching.py and snapshots.py *)
(* say it of themselves): one append-only history, numbered upwards, whose *)
(* models never change once they are listed, or no history at all when the *)
(* manifest was being written as its process died.                         *)
(***************************************************************************)
EXTENDS Naturals, Sequences

CONSTANTS
  Numbers,    \* version numbers
  Models      \* what a version's file may hold

VARIABLES
  series,     \* the versions listed, oldest first: [version, model]
  readable    \* the manifest can be parsed

Init == series = << >> /\ readable = TRUE

\* A new version: a higher number, any model, nothing else touched.
Extend ==
  /\ readable
  /\ \E n \in Numbers, m \in Models :
       /\ \A i \in DOMAIN series : series[i].version < n
       /\ series' = Append(series, [version |-> n, model |-> m])
  /\ UNCHANGED readable

Tear == readable /\ readable' = FALSE /\ series' = << >>

Next == Extend \/ Tear

Spec == Init /\ [][Next]_<<series, readable>>
=============================================================================
