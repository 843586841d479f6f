--------------------------- MODULE MCApprovalGate ---------------------------
(* Small boards for TLC: task 2 depends on task 1. *)
EXTENDS ApprovalGate, TLC

MCTasks == {1, 2}
MCDependsOn == [t \in MCTasks |-> IF t = 2 THEN {1} ELSE {}]
\* Reconciling task 2 locks task 1 while holding task 2.
BackwardDependsOn == [t \in MCTasks |-> IF t = 1 THEN {2} ELSE {}]

GateKinds == {"task", "create", "resolve", "admin"}
LockKinds == {"create", "lead", "agent", "worker"}
GateTargets == {"review", "done"}
LockTargets == {"inbox", "done"}
ReviewTargets == GateTargets \cup LockTargets

Symmetry == Permutations(Approvals) \cup Permutations(Requests)
RequestSymmetry == Permutations(Requests)
=============================================================================
