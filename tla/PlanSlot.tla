------------------------------ MODULE PlanSlot ------------------------------
(***************************************************************************)
(* common/planslot.py: the single slot where the planner thread hands the  *)
(* latest plan to the callback thread.  A lock makes each method one step, *)
(* so each is an operator on the slot's state.                             *)
(***************************************************************************)
EXTENDS Naturals

CONSTANT NoPlan    \* the slot's None

EmptySlot == [plan |-> NoPlan, generation |-> 0]

SlotCommit(slot, plan) ==
  [plan |-> plan, generation |-> slot.generation + 1]

SlotClear(slot) ==
  [plan |-> NoPlan, generation |-> slot.generation + 1]

\* snapshot() is None exactly when no plan is held; otherwise it is the slot.
SlotHolds(slot) == slot.plan # NoPlan
=============================================================================
