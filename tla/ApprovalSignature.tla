------------------------- MODULE ApprovalSignature -------------------------
(***************************************************************************)
(* The detached approval of approval_signature.py: what an approver signs, *)
(* what a grant records of it (signed_grant_changes in approval.py) and    *)
(* what the gate verifies again from the stored row.  Everything here is a *)
(* function of its arguments.                                              *)
(*                                                                         *)
(* The signed fields are                                                   *)
(*   [ticket, resource, action, plan, intent, deadline, executor, account, *)
(*    nonce, issued, signer]                                               *)
(* where `account` stands for the account and the region.  A key is named  *)
(* by its id, which is derived from the key.                               *)
(***************************************************************************)
EXTENDS Naturals

SignedFieldNames ==
    {"ticket", "resource", "action", "plan", "intent", "deadline", "executor",
     "account", "nonce", "issued", "signer"}

(* Deterministic and unambiguous: two field records share their bytes only *)
(* when they agree on every signed field, and no other artifact has them.  *)
CanonicalEncode(fields) ==
    [domain |-> "sws/approval/v1",
     payload |-> [name \in SignedFieldNames |-> fields[name]]]

(* Only the holder of the key makes its signatures. *)
SignApproval(fields, key) ==
    [fields |-> fields,
     signature |-> [key |-> key, over |-> CanonicalEncode(fields)]]

(* verify_signed_approval returns. *)
VerifySignedApproval(signed, key) ==
    signed.signature = [key |-> key, over |-> CanonicalEncode(signed.fields)]

-----------------------------------------------------------------------------
(* What a grant records.  A row of the approval store is                   *)
(*   [status, intent, plan, signed, decider]                               *)
(* with `signed` the columns written from the artifact.                    *)

(* The artifact names this ticket and what it approves. *)
Binds(fields, t, row, resource) ==
    /\ fields.ticket = t
    /\ fields.resource = resource
    /\ fields.action = "stop"
    /\ fields.plan = row.plan
    /\ fields.intent = row.intent

(* signed_grant_changes accepts: it binds, and its window is open and no   *)
(* wider than the ceiling.  The signature is not looked at.                *)
GrantAccepts(fields, t, row, resource, now, ttl) ==
    /\ Binds(fields, t, row, resource)
    /\ fields.deadline > now
    /\ fields.deadline <= now + ttl

-----------------------------------------------------------------------------
(* What the gate verifies.  A policy is                                    *)
(*   [keys, executor, account, operators, skew]                            *)
(* and boundTo is the ticket that lookup_nonce gives for the stored nonce. *)

(* stored_approval_from_ticket and as_fields: everything is rebuilt from   *)
(* the row, the ticket's own columns included.                             *)
StoredApproval(t, row, resource) ==
    [fields |-> [row.signed.fields EXCEPT !.ticket = t, !.resource = resource,
                    !.action = "stop", !.plan = row.plan, !.intent = row.intent],
     signature |-> row.signed.signature]

(* Mutant: only the identity that signed is compared with the operators'. *)
SignerIsOperator(stored, decider, policy) ==
    stored.fields.signer \in policy.operators

SignerForbidden(stored, decider, policy) ==
    {stored.fields.signer, decider} \cap policy.operators # {}

EnvironmentMismatch(fields, policy) ==
    \/ fields.executor # policy.executor
    \/ fields.account # policy.account

WindowClosed(fields, policy, now) ==
    now > fields.deadline \/ fields.issued > now + policy.skew

(* verify_approval_for_execution, as build_approval_verifier maps its      *)
(* exceptions to refusals.                                                 *)
VerifyApproval(stored, decider, policy, boundTo, now) ==
    CASE stored.signature.key = "none" -> "approval_signature_missing"
      [] stored.fields.signer \notin policy.keys -> "approval_signature_invalid"
      [] ~VerifySignedApproval(stored, stored.fields.signer) ->
            "approval_signature_invalid"
      [] SignerForbidden(stored, decider, policy) -> "approval_signer_forbidden"
      [] EnvironmentMismatch(stored.fields, policy) ->
            "approval_environment_mismatch"
      [] WindowClosed(stored.fields, policy, now) -> "approval_signature_expired"
      [] boundTo # stored.fields.ticket -> "approval_signature_invalid"
      [] OTHER -> "none"
=============================================================================
