--------------------------- MODULE Reconciliation ---------------------------
(***************************************************************************)
(* What CloudTrail is taken to say about one dispatch: the read-only       *)
(* lookup and its normalization (cloudtrail_reader.py), and the comparison *)
(* with the local witness (reconciliation.py).  Everything here is a       *)
(* function of its arguments.                                              *)
(*                                                                         *)
(* A raw record is what LookupEvents returns:                              *)
(*   [id, stop, readable, time, principal, username, arn_session,          *)
(*    requested, resources, read_only]                                     *)
(* where `stop` stands for its name and source, `username` and             *)
(* `arn_session` are the sessions that its Username and the ARN of its     *)
(* principal name ("none" when they name none), `requested` and            *)
(* `resources` the instances in the request parameters and the summary.    *)
(***************************************************************************)
EXTENDS Naturals, FiniteSets

-----------------------------------------------------------------------------
(* The reader. *)

(* A window is a pair of moments; it must be strictly ordered. *)
WindowUsable(window) == window.start < window.end

InWindow(event, window) ==
    window.start <= event.time /\ event.time <= window.end

Session(record) ==
    IF record.username # "none" THEN record.username ELSE record.arn_session

(* The request in the caller's words, and the summary only without it. *)
InstanceIds(record) ==
    IF record.requested # {} THEN record.requested ELSE record.resources

(* A record that claims to be a stop and cannot be read fails the query. *)
Normalizable(record) == record.readable /\ InstanceIds(record) # {}

NormalizeEvent(record) ==
    [id |-> record.id, time |-> record.time, principal |-> record.principal,
     session |-> Session(record), targets |-> InstanceIds(record),
     read_only |-> record.read_only]

Unavailable(reader) == [available |-> FALSE, events |-> {}, reader |-> reader]

(* _events_from_page: what does not claim to be a stop is skipped unread. *)
StopRecords(records) == {r \in records : r.stop}

(* read_stop_events: one query over the records CloudTrail holds, by       *)
(* window; `answers` is whether AWS and the transport do.                  *)
ReadStopEvents(records, window, reader, answers) ==
    LET found == {r \in StopRecords(records) : InWindow(r, window)} IN
    IF WindowUsable(window) /\ answers /\ \A r \in found : Normalizable(r)
    THEN [available |-> TRUE, events |-> {NormalizeEvent(r) : r \in found},
          reader |-> reader]
    ELSE Unavailable(reader)

-----------------------------------------------------------------------------
(* Attribution.  `run` is what the operator says of the dispatch:          *)
(*   [target, principal, session, window, attempts, witnessed]             *)
(* session is "none" when no session name is given; attempts is how many   *)
(* the witness recorded and witnessed the instances they named.            *)

ForTarget(event, run) == ~event.read_only /\ run.target \in event.targets

Scoped(evidence, run) ==
    {e \in evidence.events : ForTarget(e, run) /\ InWindow(e, run.window)}

Stray(evidence, run) ==
    {e \in evidence.events : ForTarget(e, run) /\ ~InWindow(e, run.window)}

ByPrincipal(event, run) ==
    /\ event.principal = run.principal
    /\ run.session = "none" \/ event.session = run.session

Matched(evidence, run) == {e \in Scoped(evidence, run) : ByPrincipal(e, run)}

(* The findings that fail, by the name of their check. *)

Provenance(evidence, run) == evidence.reader # run.principal

PrincipalAttribution(evidence, run) ==
    Scoped(evidence, run) \subseteq Matched(evidence, run)

WindowAttribution(evidence, run) == Stray(evidence, run) = {}

(* Every event in the window named the pinned instance and no other. *)
TargetScoping(evidence, run) ==
    \A e \in Scoped(evidence, run) : e.targets = {run.target}

AwsCount(evidence, run) == Cardinality(Matched(evidence, run)) = 1

WitnessAgreement(evidence, run) ==
    /\ run.attempts = 1
    /\ AwsCount(evidence, run)
    /\ Cardinality(run.witnessed) = 1

AllChecksPass(evidence, run) ==
    /\ Provenance(evidence, run)
    /\ PrincipalAttribution(evidence, run)
    /\ WindowAttribution(evidence, run)
    /\ TargetScoping(evidence, run)
    /\ AwsCount(evidence, run)
    /\ WitnessAgreement(evidence, run)

NothingSeen(evidence, run) ==
    Scoped(evidence, run) = {} /\ Stray(evidence, run) = {}

Outcomes == {"confirmed", "aws_side_disagreement", "unresolved",
             "no_dispatch_observed"}

(* Mutant: an empty lookup alone is a verified absence. *)
ReconcileWithoutTheWitness(evidence, run) ==
    CASE ~WindowUsable(run.window) \/ ~evidence.available -> "unresolved"
      [] AllChecksPass(evidence, run) -> "confirmed"
      [] NothingSeen(evidence, run) -> "no_dispatch_observed"
      [] Scoped(evidence, run) # {} -> "aws_side_disagreement"
      [] OTHER -> "unresolved"

(* Mutant: one matching event confirms, whatever else the trail shows. *)
ReconcileByCount(evidence, run) ==
    CASE ~WindowUsable(run.window) \/ ~evidence.available -> "unresolved"
      [] WitnessAgreement(evidence, run) -> "confirmed"
      [] NothingSeen(evidence, run) /\ run.attempts = 0 -> "no_dispatch_observed"
      [] OTHER -> "aws_side_disagreement"

(* reconcile_dispatch.  AWS-side evidence decides; the witness is only     *)
(* compared with it.                                                       *)
Reconcile(evidence, run) ==
    CASE ~WindowUsable(run.window) \/ ~evidence.available -> "unresolved"
      [] AllChecksPass(evidence, run) -> "confirmed"
      [] NothingSeen(evidence, run) /\ run.attempts = 0 -> "no_dispatch_observed"
      [] NothingSeen(evidence, run) /\ run.attempts > 0 -> "aws_side_disagreement"
      [] Scoped(evidence, run) # {} -> "aws_side_disagreement"
      [] OTHER -> "unresolved"

(* retry_permissible: the one outcome that licenses a second attempt. *)
RetryPermissible(outcome) == outcome = "no_dispatch_observed"
=============================================================================
