----------------------------- MODULE MCRunOnce -----------------------------
(***************************************************************************)
(* Instances of RunOnce for TLC.  The worker slots are interchangeable;    *)
(* tasks are not, the integrator takes them in order.                      *)
(***************************************************************************)
EXTENDS RunOnce, TLC

SlotSymmetry == Permutations(Slots)
NoResults == {}
AllFaults == FaultKinds
NoFaults == {}
MostFaults == FaultKinds \ {"cleanup"}
TwoTasks == 1..2
OneTask == {1}
AnyResult == ResultStatuses
Success == {"succeeded"}
=============================================================================
