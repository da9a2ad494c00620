--------------------------- MODULE MutationClient ---------------------------
(***************************************************************************)
(* The one client that may stop an instance, and what bounds it: the retry *)
(* configuration (ec2_mutation_client.py, ec2_mutation.py), the IAM policy *)
(* of its identity, the witness armed on it (mutation_evidence.py) and the *)
(* checks before and after a dispatch (preflight.py).  Everything here is  *)
(* a function of its arguments.                                            *)
(***************************************************************************)
EXTENDS Naturals, Sequences, FiniteSets, Functions

-----------------------------------------------------------------------------
(* Retries.  A configuration is a function on the keys it names, a subset  *)
(* of {"total_max_attempts", "max_attempts"}.                              *)

RetryConfigs ==
    UNION {[keys -> 0..2] :
              keys \in SUBSET {"total_max_attempts", "max_attempts"}}

(* How many attempts botocore makes under a configuration: the first key   *)
(* counts attempts, the second the retries after the first, and the        *)
(* default is three attempts.                                              *)
AttemptsPermitted(retries) ==
    CASE "total_max_attempts" \in DOMAIN retries -> retries["total_max_attempts"]
      [] "max_attempts" \in DOMAIN retries -> retries["max_attempts"] + 1
      [] OTHER -> 3

(* Mutant: max_attempts is read as a total. *)
RetryFreeByEitherKey(retries) ==
    CASE "total_max_attempts" \in DOMAIN retries -> retries["total_max_attempts"] = 1
      [] "max_attempts" \in DOMAIN retries -> retries["max_attempts"] = 1
      [] OTHER -> FALSE

(* StopInstancesHandler._assert_no_retry_capability. *)
RetryFree(retries) ==
    CASE "total_max_attempts" \in DOMAIN retries -> retries["total_max_attempts"] = 1
      [] "max_attempts" \in DOMAIN retries -> retries["max_attempts"] = 0
      [] OTHER -> FALSE

(* The retries a client reports once botocore has built it: one key only.  *)
Normalized(retries) ==
    [key \in {"total_max_attempts"} |-> AttemptsPermitted(retries)]

(* What build_botocore_config asks for. *)
RequestedRetries == [key \in {"total_max_attempts"} |-> 1]

(* The attempts that a client's configuration states, 0 when it does not. *)
EffectiveRetries(retries) ==
    IF "total_max_attempts" \in DOMAIN retries THEN retries["total_max_attempts"]
    ELSE 0

(* What the factory accepts of a client it has built. *)
FactoryAccepts(retries) == EffectiveRetries(retries) = 1

-----------------------------------------------------------------------------
(* The witness.  A client's events are                                     *)
(*   [emitter, searchable, reachable]                                      *)
(* with the listeners that its registry finds; the witness arms itself     *)
(* only on a client where it would see a request.                          *)

Listeners == {"params", "before_send", "needs_retry"}

Armed(events) ==
    events.emitter /\ events.searchable /\ Listeners \subseteq events.reachable

(* What one HTTP attempt leaves in the witness: 0 for a number its header  *)
(* does not carry, and a sequence of instances.                            *)
DispatchRecord(invocation, attempt, max, targets) ==
    [invocation |-> invocation, attempt |-> attempt, max |-> max,
     targets |-> targets]

Invocations(records) == {records[n].invocation : n \in DOMAIN records} \ {0}

(* DispatchWitness.violations, by what is wrong. *)
Violations(records) ==
    {problem \in {"none_sent", "several_sent", "several_calls", "second_attempt",
                  "retries_permitted", "not_one_target"} :
        \/ problem = "none_sent" /\ Len(records) = 0
        \/ problem = "several_sent" /\ Len(records) > 1
        \/ problem = "several_calls" /\ Cardinality(Invocations(records)) > 1
        \/ \E n \in DOMAIN records :
              \/ problem = "second_attempt" /\ records[n].attempt > 1
              \/ problem = "retries_permitted" /\ records[n].max \notin {0, 1}
              \/ problem = "not_one_target" /\ Len(records[n].targets) # 1}

(* assert_single_dispatch returns. *)
SingleDispatch(records) == Violations(records) = {}

(* check_witnessed_targets: every request named the pinned instance alone. *)
WitnessedTargets(records, target) ==
    Len(records) > 0 /\ \A n \in DOMAIN records : records[n].targets = <<target>>

(* evaluate_dispatch_evidence, after a dispatch. *)
DispatchEvidencePasses(records, target) ==
    WitnessedTargets(records, target) /\ SingleDispatch(records)

-----------------------------------------------------------------------------
(* The policy of the mutation identity.  A statement is                    *)
(*   [effect, actions, resources]                                          *)
(* with actions and resources sequences; "*" stands for every resource,    *)
(* "ssm" for an action of the SSM agent transport, and "other" for any     *)
(* action outside both lists, a wildcard included.                         *)

MutationActions == {"stop", "describe"}
AgentActions == {"ssm"}

IsAgentGrouping(actions) ==
    /\ Range(actions) \subseteq AgentActions
    /\ Range(actions) \cap MutationActions = {}

(* One statement that validate_iam_policy does not refuse. *)
StatementAccepted(s, target) ==
    /\ s.effect = "allow"
    /\ s.actions # << >> /\ s.resources # << >>
    /\ Range(s.actions) \subseteq MutationActions \cup AgentActions
    /\ \/ s.actions = <<"stop">> /\ s.resources = <<target>>
       \/ s.actions = <<"describe">> /\ s.resources = <<"*">>
       \/ IsAgentGrouping(s.actions) /\ s.resources = <<"*">>

(* validate_iam_policy, of the statements of a policy of the right version.*)
PolicyAccepted(statements, target) ==
    /\ statements # << >>
    /\ \A n \in DOMAIN statements : StatementAccepted(statements[n], target)
    /\ \E n \in DOMAIN statements : statements[n].actions = <<"stop">>
    /\ \E n \in DOMAIN statements : statements[n].actions = <<"describe">>

(* mutation_iam_policy. *)
MutationPolicy(target) ==
    << [effect |-> "allow", actions |-> <<"stop">>, resources |-> <<target>>],
       [effect |-> "allow", actions |-> <<"describe">>, resources |-> <<"*">>],
       [effect |-> "allow", actions |-> <<"ssm">>, resources |-> <<"*">>] >>

(* How IAM reads the statements. *)
Allows(statements, action, resource) ==
    \E n \in DOMAIN statements :
        /\ statements[n].effect = "allow"
        /\ action \in Range(statements[n].actions)
        /\ {resource, "*"} \cap Range(statements[n].resources) # {}

-----------------------------------------------------------------------------
(* The gate before a dispatch. *)

(* The actions that ACTION_EXECUTION_REGISTRY marks implemented. *)
Implemented == {}

(* check_target_scoping: the ARN of the settings names their instance, and *)
(* the policy is scoped to it.                                             *)
TargetScoped(statements, arn_instance, target) ==
    arn_instance = target /\ PolicyAccepted(statements, target)

(* check_retry_configuration, of the client in force. *)
RetryConfigurationChecked(retries, mode) ==
    mode = "standard" /\ EffectiveRetries(retries) = 1

(* check_program_invariants. *)
ProgramUnchanged(implemented, tools, expected_tools) ==
    implemented = {} /\ tools = expected_tools

(* check_witness_armed and check_no_prior_observations. *)
WitnessReady(events) == Armed(events)
NoPriorObservations(records) == records = << >>

(* evaluate_preflight: of the settings, the client in force, and what the  *)
(* program is made of.                                                     *)
PreflightPasses(settings, client, program) ==
    /\ TargetScoped(settings.statements, settings.arn_instance, settings.target)
    /\ RetryConfigurationChecked(client.retries, client.mode)
    /\ WitnessReady(client.events)
    /\ NoPriorObservations(client.records)
    /\ ProgramUnchanged(program.implemented, program.tools, program.expected_tools)
=============================================================================
