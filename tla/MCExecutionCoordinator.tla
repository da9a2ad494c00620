----------------------- MODULE MCExecutionCoordinator -----------------------
(* Coordinators that compete for one intent under several approvals.       *)
EXTENDS ExecutionCoordinator, TLC

CONSTANTS i1

MCIntent == {i1}
MCIntentOf == [t \in Ticket |-> i1]

(* Processes are alike, and so are approvals of the same intent. *)
CoordinatorSymmetry == Permutations(Process) \cup Permutations(Ticket)
=============================================================================
