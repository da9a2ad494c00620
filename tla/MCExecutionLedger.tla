------------------------- MODULE MCExecutionLedger -------------------------
(* Two threads of one coordinator, which share its worker id, and a second *)
(* coordinator process.                                                    *)
EXTENDS ExecutionLedger, TLC

CONSTANTS c1, c2, c3, w1, w2

MCCaller == {c1, c2, c3}
MCWorker == {w1, w2}
MCWorkerOf == [c \in MCCaller |-> IF c = c3 THEN w2 ELSE w1]

(* One process. *)
SoloCaller == {c1}
SoloWorkerOf == [c \in SoloCaller |-> w1]

(* Tickets are only compared, and so are the two threads. *)
TicketSymmetry == Permutations(Ticket)
ThreadSymmetry == Permutations({c1, c2}) \cup TicketSymmetry
IntentSymmetry == Permutations(Intent) \cup TicketSymmetry
=============================================================================
