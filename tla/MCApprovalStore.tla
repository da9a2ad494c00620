-------------------------- MODULE MCApprovalStore --------------------------
(* Two clients of one approval store: approvers, operators, coordinators.  *)
EXTENDS ApprovalStore, TLC

(* Tickets, clients and nonces are only compared. *)
StoreSymmetry ==
    Permutations(Ticket) \cup Permutations(Client) \cup Permutations(Nonce)
============================================================================
