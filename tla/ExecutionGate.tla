--------------------------- MODULE ExecutionGate ---------------------------
(***************************************************************************)
(* ExecutionCoordinator._gate (execution.py): the checks that a request    *)
(* passes before anything is claimed, in their order, each with the        *)
(* refusal it reports.  Everything here is a function of its arguments.    *)
(*                                                                         *)
(* A request is                                                            *)
(*   [plan_id, resource, action, mode, plan, decision, snapshot, absent,   *)
(*    supplied, expected]                                                  *)
(* where `absent` is the set of its parts that are missing, `supplied`     *)
(* whether the caller brought an observation of its own, and `expected`    *)
(* the post-state the caller asks for ("none" when it asks for none).      *)
(* A coordinator is                                                        *)
(*   [handler, audit, ledger, attempted, intents, max_age]                 *)
(***************************************************************************)
EXTENDS Naturals, Sequences

(* An ordered list of checks, each a pair of whether it fails and what it  *)
(* then reports: the first that fails decides, "none" when none does.      *)
FirstRefusal(checks) ==
    LET failing == {n \in DOMAIN checks : checks[n][1]} IN
    IF failing = {} THEN "none"
    ELSE checks[CHOOSE n \in failing : \A k \in failing : n <= k][2]

(* Stop is the one action with resource types, a handler and a             *)
(* postcondition of its own.                                               *)
EligibleTypes(action) == IF action = "stop" THEN {"ec2_instance"} ELSE {}
CanonicalPostcondition(action) == IF action = "stop" THEN "stopped" ELSE "none"

Matching(request) ==
    {x \in request.snapshot.resources : x.id = request.resource}

Resource(request) == CHOOSE x \in Matching(request) : TRUE

-----------------------------------------------------------------------------
(* The parts of the gate. *)

(* _ticket_gate: `row` is the stored ticket and `verification` what the    *)
(* injected verifier says of it.                                           *)
TicketGate(request, row, stored_resource, verification) ==
    FirstRefusal(
      << << row.status = "absent", "missing_ticket" >>,
         << row.status # "granted", "ticket_not_granted" >>,
         << stored_resource # request.resource, "ticket_mismatch_resource" >>,
         << request.action # "stop", "ticket_mismatch_action" >>,
         << row.plan # request.plan_id, "ticket_mismatch_plan" >>,
         << verification # "none", verification >> >>)

DecisionGate(request) ==
    LET decision == request.decision
        snapshot == request.snapshot IN
    FirstRefusal(
      << << decision.resource # request.resource, "decision_mismatch" >>,
         << decision.action # request.action, "decision_mismatch" >>,
         << request.plan.decision \notin {"none", decision.id},
            "decision_mismatch" >>,
         << decision.snapshot \notin {"none", snapshot.id}, "snapshot_mismatch" >>,
         << /\ decision.run # "none" /\ snapshot.run # "none"
            /\ decision.run # snapshot.run, "snapshot_mismatch" >> >>)

PostconditionGate(request) ==
    LET canonical == CanonicalPostcondition(request.action) IN
    FirstRefusal(
      << << canonical = "none", "postcondition_undefined" >>,
         << request.expected \notin {"none", canonical},
            "postcondition_mismatch" >> >>)

(* The caller's parts of _gate, before the ticket is read and after it. *)
RequestGate(request, coordinator) ==
    FirstRefusal(
      << << "plan" \in request.absent, "missing_plan" >>,
         << request.plan.id # request.plan_id, "missing_plan" >>,
         << "decision" \in request.absent, "missing_decision" >>,
         << "snapshot" \in request.absent, "missing_snapshot" >>,
         << request.mode # request.plan.mode, "mode_mismatch" >>,
         << EligibleTypes(request.action) = {}, "action_not_executable" >>,
         << coordinator.handler /\ ~coordinator.audit, "durable_ledger_required" >>,
         << coordinator.handler /\ ~coordinator.ledger, "durable_ledger_required" >>,
         << Matching(request) = {}, "resource_not_in_snapshot" >>,
         << Resource(request).type \notin EligibleTypes(request.action),
            "resource_type_mismatch" >>,
         << request.snapshot.partial, "partial_snapshot" >>,
         << request.snapshot.truncated, "truncated_snapshot" >>,
         << request.mode = "autonomous", "autonomous_unsupported" >> >>)

AttemptGate(request, coordinator, intent) ==
    FirstRefusal(
      << << request.plan.executed, "already_executed" >>,
         << request.plan_id \in coordinator.attempted, "duplicate_attempt" >>,
         << intent \in coordinator.intents, "duplicate_attempt" >> >>)

(* _gate up to the observation. *)
Gate(request, coordinator, row, stored_resource, verification, intent) ==
    LET request_gate == RequestGate(request, coordinator)
        ticket == TicketGate(request, row, stored_resource, verification)
        decision == DecisionGate(request)
        postcondition == PostconditionGate(request)
        attempt == AttemptGate(request, coordinator, intent)
    IN  FirstRefusal(
          << << request_gate # "none", request_gate >>,
             << ticket # "none", ticket >>,
             << decision # "none", decision >>,
             << postcondition # "none", postcondition >>,
             << attempt # "none", attempt >> >>)

-----------------------------------------------------------------------------
(* The observation.  One is                                                *)
(*   [failed, resource, type, arn, account, at, provider, ambiguous]       *)
(* or a failure, with `failed` set.                                        *)

IdentityGate(request, observation) ==
    LET resource == Resource(request) IN
    FirstRefusal(
      << << observation.resource # request.resource, "identity_mismatch" >>,
         << observation.type # resource.type, "identity_mismatch" >>,
         << "none" \in {resource.arn, observation.arn}, "identity_missing" >>,
         << resource.arn # observation.arn, "identity_mismatch" >>,
         << "none" \in {resource.account, observation.account}, "identity_missing" >>,
         << resource.account # observation.account, "identity_mismatch" >> >>)

(* Mutant: an observation may predate the collection it is compared with. *)
FreshnessWithoutOrder(request, coordinator, observation, now) ==
    FirstRefusal(
      << << observation.at > now, "observation_from_future" >>,
         << now > observation.at + coordinator.max_age, "observation_too_old" >> >>)

FreshnessGate(request, coordinator, observation, now) ==
    FirstRefusal(
      << << "collected_at" \in request.absent, "snapshot_freshness_unestablished" >>,
         << observation.at > now, "observation_from_future" >>,
         << observation.at < request.snapshot.collected, "stale_observation" >>,
         << now > observation.at + coordinator.max_age, "observation_too_old" >> >>)

(* _preflight_gate, of what the observer returned. *)
PreflightGate(request, coordinator, observation, now) ==
    LET freshness == FreshnessGate(request, coordinator, observation, now)
        identity == IdentityGate(request, observation)
    IN  FirstRefusal(
          << << request.supplied, "caller_supplied_observation" >>,
             << observation.failed, "observation_unavailable" >>,
             << ~observation.provider, "not_provider_issued" >>,
             << observation.ambiguous, "stale_observation" >>,
             << freshness # "none", freshness >>,
             << identity # "none", identity >> >>)
=============================================================================
