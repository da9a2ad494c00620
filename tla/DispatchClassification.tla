----------------------- MODULE DispatchClassification -----------------------
(***************************************************************************)
(* How boundary evidence becomes a recorded outcome and a basis for        *)
(* re-execution: DefaultOutcomeVerifier.verify (verification.py),          *)
(* classify_dispatch and the STOP_RESOURCE contract (execution.py).        *)
(* Everything here is a function of its arguments.                         *)
(***************************************************************************)

(* DispatchDisposition.  A handler that raises, or returns something that  *)
(* is not evidence, is classified like "unknown".                          *)
Dispositions == {"not_dispatched", "rejected", "accepted", "unknown"}

(* The error codes of a rejection that the contract tells apart: three     *)
(* that end the intent, one for the codes it lists as transient, and       *)
(* "unlisted" for a code it does not list or that was not recorded.        *)
RejectionKeys ==
    {"InvalidInstanceID.NotFound", "InvalidInstanceID.Malformed",
     "InvalidInstanceState", "RequestLimitExceeded", "unlisted"}

InstanceStates ==
    {"pending", "running", "stopping", "stopped", "shutting-down", "terminated"}

(* What the coordinator holds when it verifies: the state label of the     *)
(* observation, "unrecorded" for an observation without one, "none" when   *)
(* no usable observation was made.                                         *)
ObservedStates == InstanceStates \cup {"unrecorded", "none"}

SettledStates == {"stopped"}
InProgressStates == {"stopping", "running"}

(* verify, against the postcondition [state |-> "stopped"]: the one fact   *)
(* is confirmed, missing or contradicted.                                  *)
Verification(state) ==
    CASE state = "stopped"    -> "success"
      [] state = "unrecorded" -> "partially_verified"
      [] state = "none"       -> "unknown"
      [] OTHER                -> "failed"

(* The contract's rejection_classes; other codes are transient by default. *)
RejectionClass(key) ==
    CASE key \in {"InvalidInstanceID.NotFound", "InvalidInstanceID.Malformed"} ->
            "target_invalid"
      [] key = "InvalidInstanceState" -> "post_state_unreachable"
      [] OTHER -> "transient_rejection"

PostStateClass(state) ==
    CASE state \in InProgressStates -> "post_state_not_reached"
      [] state \in {"terminated", "shutting-down"} -> "post_state_unreachable"
      [] OTHER -> "unclassified"

Verdict(outcome, class) == [outcome |-> outcome, class |-> class]

(* Mutants: what cannot be classified counts as no effect, or as a failure *)
(* on a basis that outcome does not admit, or carries no basis.            *)
UnclassifiedIsNoEffect == Verdict("not_executed", "no_effect")
UnclassifiedIsFailed == Verdict("failed", "outcome_unknown")
UnclassifiedWithoutBasis == Verdict("unknown", "none")

(* _fail_closed: what cannot be classified is unknown, and never repeated. *)
FailClosed == Verdict("unknown", "outcome_unknown")

(* An accepted dispatch is judged by its post-state. *)
ClassifyAccepted(state) ==
    CASE Verification(state) = "success" ->
            Verdict("verified_success", "effect_achieved")
      [] Verification(state) = "partially_verified" ->
            Verdict("partially_verified", "effect_achieved")
      [] Verification(state) = "failed" /\ PostStateClass(state) # "unclassified" ->
            Verdict("failed", PostStateClass(state))
      [] OTHER -> FailClosed

(* classify_dispatch. *)
Classify(disposition, key, state) ==
    CASE disposition = "not_dispatched" -> Verdict("not_executed", "no_effect")
      [] disposition = "rejected" -> Verdict("failed", RejectionClass(key))
      [] disposition = "accepted" -> ClassifyAccepted(state)
      [] OTHER -> FailClosed

(* Every verdict a disposition may lead to. *)
Verdicts(disposition) ==
    {Classify(disposition, key, state) :
        key \in RejectionKeys, state \in ObservedStates}
=============================================================================
