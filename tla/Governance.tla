----------------------------- MODULE Governance -----------------------------
(***************************************************************************)
(* From a collected resource to a plan, without state: what the policy     *)
(* engine recommends (policy.py), what the authorizer lets a plan do       *)
(* (authorization.py) and when a plan opens a ticket (workflow.py).        *)
(***************************************************************************)
EXTENDS Naturals

ResourceTypes == {"s3_bucket", "lambda_function", "ec2_instance"}

(* OWNER_TAG_COLLECTED_RESOURCE_TYPES: nothing looks up an instance's tags. *)
OwnerTagCollected == {"s3_bucket", "lambda_function"}

StopEligible == {"pending", "running"}
StopIneligible == {"stopping", "stopped", "shutting-down", "terminated"}

Modes == {"safe", "review", "autonomous"}
Actions == {"leave", "flag_for_review", "request_approval", "stop_resource"}

-----------------------------------------------------------------------------
(* A decision: what fired, what it recommends, and whether that is for a   *)
(* person to approve.                                                      *)
Decision(rule, action) ==
    [rule |-> rule, action |-> action, needs_approval |-> action = "stop_resource"]

(* _evaluate_ec2: the recorded state alone decides, matched exactly. *)
EvaluateEc2(state) ==
    CASE state \in StopEligible -> Decision("ec2_stop_eligible", "stop_resource")
      [] state \in StopIneligible -> Decision("ec2_stop_not_eligible", "leave")
      [] OTHER -> Decision("ec2_state_unrecognized", "flag_for_review")

(* The rule for a resource without an owner tag: a snapshot that is        *)
(* partial or truncated cannot show that the tag is missing.               *)
OwnerRule(incomplete) ==
    IF incomplete THEN "owner_unverifiable" ELSE "missing_owner_tag"

(* WorkspacePolicyEngine.evaluate. *)
Evaluate(resource, partial, truncated) ==
    CASE resource.type = "ec2_instance" -> EvaluateEc2(resource.state)
      [] resource.type # "ec2_instance" /\ resource.owner_tag = "none"
         /\ resource.type \in OwnerTagCollected ->
            Decision(OwnerRule(partial \/ truncated), "flag_for_review")
      [] OTHER -> Decision("none", "leave")

-----------------------------------------------------------------------------
(* ActionAuthorizer.authorize. *)
Authorize(action, mode) ==
    CASE action \in {"leave", "flag_for_review"} -> "authorized"
      [] action = "request_approval" -> "pending_approval"
      [] action = "stop_resource" ->
            IF mode = "autonomous" THEN "blocked" ELSE "pending_approval"
      [] OTHER -> "blocked"

(* AuthorizationResult.requires_human_approval: plan() opens a ticket. *)
OpensTicket(action, mode) == Authorize(action, mode) = "pending_approval"
=============================================================================
