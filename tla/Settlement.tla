----------------------------- MODULE Settlement -----------------------------
(***************************************************************************)
(* ExecutionCoordinator._settle (execution.py): after an accepted dispatch *)
(* the coordinator polls the instance until its state is conclusive, the   *)
(* observer cannot answer, or a deadline or the poll bound is reached; the *)
(* verifier and classify_dispatch then judge what the loop returned.       *)
(* Meanwhile the instance goes through its own states, and the clock may   *)
(* or may not advance.                                                     *)
(***************************************************************************)
EXTENDS Naturals, Sequences, DispatchClassification

CONSTANTS
    PollInterval,       \* SettlePolicy.poll_interval_seconds
    DeadlineSeconds,    \* SettlePolicy.deadline_seconds
    MaxErrors,          \* SettlePolicy.max_consecutive_observation_errors
    StateMayBeMissing   \* TRUE: an observation may carry no state fact

ASSUME PolicyAssumption ==
    /\ PollInterval \in Nat \ {0}
    /\ DeadlineSeconds \in Nat \ {0}
    /\ MaxErrors \in Nat
ASSUME MissingAssumption == StateMayBeMissing \in BOOLEAN

VARIABLES
    instance,       \* the state of the EC2 instance
    clock,          \* seconds since _settle began, by the injected clock
    pc,             \* "observe", "sleep" or "done"
    polls,          \* observations made
    errors,         \* consecutive_errors
    last_usable,    \* the state label of the last usable observation, or "none"
    returned,       \* what _settle returned; "none" until it does
    seen            \* what every poll saw, "error" for one that failed

settleVars ==
    <<instance, clock, pc, polls, errors, last_usable, returned, seen>>

-----------------------------------------------------------------------------
(* The policy. *)

(* SettlePolicy.max_polls. *)
MaxPolls ==
    IF DeadlineSeconds < PollInterval THEN 1 ELSE DeadlineSeconds \div PollInterval

(* Has the wait run out after n polls? *)
OutOfTime(n) == clock >= DeadlineSeconds \/ n >= MaxPolls

(* Mutant: the error that reaches the bound is already too many. *)
ReachesErrorBound(n) == n >= MaxErrors

(* Mutant: one error more is tolerated. *)
PassesErrorBound(n) == n > MaxErrors + 1

TooManyErrors(n) == n > MaxErrors

(* Mutant: only the wanted state is conclusive. *)
IsWanted(state) == state \in SettledStates

(* A state worth waiting in is one the contract lists as in progress; any  *)
(* other, an unrecorded one too, ends the wait.                            *)
Conclusive(state) == state \notin InProgressStates

-----------------------------------------------------------------------------
(* The loop. *)

(* _settle returns the observation labelled `state`, "none" for no one. *)
ReturnState(state) ==
    /\ returned' = state
    /\ pc' = "done"

(* The end of an iteration: give up waiting with what was last seen, or    *)
(* sleep.                                                                  *)
KeepWaiting(usable) ==
    IF OutOfTime(polls')
    THEN ReturnState(usable)
    ELSE pc' = "sleep" /\ UNCHANGED returned

(* What an observation of the instance may be labelled. *)
Labels == IF StateMayBeMissing THEN {instance, "unrecorded"} ELSE {instance}

ObserveState ==
    /\ pc = "observe"
    /\ polls' = polls + 1
    /\ \E state \in Labels :
          /\ errors' = 0
          /\ last_usable' = state
          /\ seen' = Append(seen, state)
          /\ IF Conclusive(state)
             THEN ReturnState(state)
             ELSE KeepWaiting(state)
    /\ UNCHANGED <<instance, clock>>

(* _post_attempt_observe found no usable observation: the provider failed, *)
(* or what it returned is ambiguous or about another resource.             *)
ObserveError ==
    /\ pc = "observe"
    /\ polls' = polls + 1
    /\ errors' = errors + 1
    /\ seen' = Append(seen, "error")
    /\ IF TooManyErrors(errors')
       THEN ReturnState("none")
       ELSE KeepWaiting(last_usable)
    /\ UNCHANGED <<instance, clock, last_usable>>

(* Mutant: there is no sleep before the last poll, and no return instead.  *)
SleepBeforeTheLastPoll ==
    /\ pc = "sleep"
    /\ polls + 1 < MaxPolls
    /\ clock' \in {clock, clock + PollInterval}
    /\ pc' = "observe"
    /\ UNCHANGED <<instance, polls, errors, last_usable, returned, seen>>

(* The sleeper returns and the clock may or may not have advanced.         *)
Sleep ==
    /\ pc = "sleep"
    /\ clock' \in {clock, clock + PollInterval}
    /\ pc' = "observe"
    /\ UNCHANGED <<instance, polls, errors, last_usable, returned, seen>>

(* The instance's own transitions, which others may cause as well. *)
Successors(state) ==
    CASE state = "pending"       -> {"running", "shutting-down"}
      [] state = "running"       -> {"stopping", "shutting-down"}
      [] state = "stopping"      -> {"stopped", "shutting-down"}
      [] state = "stopped"       -> {"pending", "terminated"}
      [] state = "shutting-down" -> {"terminated"}
      [] OTHER                   -> {}

Evolve ==
    /\ pc # "done"
    /\ instance' \in Successors(instance)
    /\ UNCHANGED <<clock, pc, polls, errors, last_usable, returned, seen>>

SettleInit ==
    /\ instance \in {"running", "stopping", "stopped"}
    /\ clock = 0
    /\ pc = "observe"
    /\ polls = 0
    /\ errors = 0
    /\ last_usable = "none"
    /\ returned = "none"
    /\ seen = << >>

Loop == ObserveState \/ ObserveError \/ Sleep

SettleNext == Loop \/ Evolve

SettleSpec == SettleInit /\ [][SettleNext]_settleVars

(* The loop runs on; nothing is assumed of the instance, the observer or   *)
(* the clock.                                                              *)
FairSettleSpec == SettleSpec /\ WF_settleVars(Loop)

-----------------------------------------------------------------------------
(* Properties. *)

(* Every variable holds a value of its type. *)
SettleTypeOK ==
    /\ instance \in InstanceStates
    /\ clock \in Nat
    /\ pc \in {"observe", "sleep", "done"}
    /\ polls \in 0 .. MaxPolls
    /\ errors \in 0 .. polls
    /\ last_usable \in ObservedStates
    /\ returned \in ObservedStates
    /\ seen \in Seq((ObservedStates \ {"none"}) \cup {"error"})

(* The last poll that saw anything; 0 when none did. *)
LastUsablePoll ==
    LET usable == {k \in DOMAIN seen : seen[k] # "error"}
    IN  IF usable = {} THEN 0 ELSE CHOOSE k \in usable : \A j \in usable : j <= k

(* What the settled execution is recorded as. *)
SettledVerdict == Classify("accepted", "unlisted", returned)

(* A retry is authorized only by an instance seen running or stopping at   *)
(* most MaxErrors polls before the end, with nothing else seen since: the  *)
(* observation the deadline falls back on is stale by a bounded number of  *)
(* polls.                                                                  *)
RetryRestsOnARecentContradiction ==
    pc = "done" /\ SettledVerdict.class = "post_state_not_reached" =>
        /\ LastUsablePoll # 0
        /\ seen[LastUsablePoll] \in InProgressStates
        /\ LastUsablePoll + MaxErrors >= Len(seen)

(* A conclusive state ends the wait at once and is what is judged; the     *)
(* loop neither misses one nor goes on after it.                           *)
FirstConclusiveStateDecides ==
    /\ \A k \in DOMAIN seen :
          seen[k] \notin InProgressStates \cup {"error"} =>
              k = Len(seen) /\ pc = "done" /\ returned = seen[k]
    /\ pc = "done" /\ SettledVerdict.outcome = "verified_success" =>
          seen[Len(seen)] = "stopped"

(* Fewer errors in a row than the policy tolerates do not lose the intent: *)
(* when the loop gives up without a state, the observer was down for more  *)
(* than MaxErrors polls in a row, or for every poll.                       *)
OnlyASilentObserverIsInconclusive ==
    pc = "done" /\ returned = "none" =>
        \/ LastUsablePoll = 0
        \/ LastUsablePoll + MaxErrors < Len(seen)

(* The wait ends, whatever the instance, the observer and the clock do. *)
SettlingEnds == <>(pc = "done")

-----------------------------------------------------------------------------
(* The inductive invariant behind the safety properties. *)

(* `polls`, `errors` and `last_usable` sum up what the polls saw.          *)
CountersDescribeTheRecord ==
    /\ Len(seen) = polls
    /\ \A k \in 1 .. polls : k > polls - errors => seen[k] = "error"
    /\ errors = polls => last_usable = "none"
    /\ errors < polls =>
          last_usable # "none" /\ seen[polls - errors] = last_usable

(* While the loop runs it has seen nothing conclusive and may poll again.  *)
LoopGoesOnForAReason ==
    /\ \A k \in 1 .. polls :
          k < polls \/ pc # "done" => seen[k] \in InProgressStates \cup {"error"}
    /\ pc # "done" => errors <= MaxErrors /\ polls < MaxPolls

(* It returns the last usable observation, or none after too many errors.  *)
LoopReturnsTheLastUsable ==
    pc = "done" =>
        \/ returned = last_usable /\ errors <= MaxErrors
        \/ returned = "none" /\ errors > MaxErrors

SettleInv ==
    /\ SettleTypeOK
    /\ CountersDescribeTheRecord
    /\ LoopGoesOnForAReason
    /\ LoopReturnsTheLastUsable
=============================================================================
