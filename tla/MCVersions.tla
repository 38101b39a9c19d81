----------------------------- MODULE MCVersions -----------------------------
(***************************************************************************)
(* Instances of Versions for TLC: two schedule values; a tool that is sent *)
(* good, failing and unparseable patches; a planner whose patch repairs,   *)
(* misses, does not apply or does not parse.                               *)
(***************************************************************************)
EXTENDS Versions

CONSTANTS v20, v24
TwoValues == {v20, v24}
SetTo(v) == [op |-> "set_field", value |-> v]
AddAs(v) == [op |-> "add_object", value |-> v]
Drop == [op |-> "remove_object"]

SentPatches == {<<SetTo(v24)>>, <<Drop>>, <<Drop, SetTo(v24)>>, <<SetTo(Garbled)>>}
AnsweredPatches == {<<AddAs(v24)>>, <<AddAs(v20), Drop>>, <<SetTo(v20)>>, <<AddAs(Garbled)>>}
=============================================================================
