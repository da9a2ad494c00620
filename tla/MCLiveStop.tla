----------------------------- MODULE MCLiveStop -----------------------------
(* Two invocations of the live path over two prepared tickets. *)
EXTENDS LiveStop, TLC

(* Invocations, tickets and snapshots are only compared. *)
LiveSymmetry ==
    Permutations(Run) \cup Permutations(Ticket) \cup Permutations(Intent)
=============================================================================
