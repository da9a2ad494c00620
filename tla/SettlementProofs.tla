-------------------------- MODULE SettlementProofs --------------------------
(***************************************************************************)
(* Theorems about Settlement, for every interval, deadline and tolerance,  *)
(* and about the verdicts that DispatchClassification gives.               *)
(*                                                                         *)
(* The argument: the loop's three counters describe the record of all      *)
(* polls (CountersDescribeTheRecord), so what it returns is the last poll  *)
(* that saw anything, and that poll is `errors` polls back.                *)
(***************************************************************************)
EXTENDS Settlement, SequenceTheorems, TLAPS

-----------------------------------------------------------------------------
(* Verdicts. *)

(* "It did not happen" is only ever said of a call that was not made: no   *)
(* rejection, no accepted call and no call with an unknown answer is       *)
(* recorded as without effect (execution.py, classify_dispatch).           *)
THEOREM NoEffectNeedsNoDispatch ==
    ASSUME NEW d \in Dispositions, NEW key \in RejectionKeys,
           NEW state \in ObservedStates,
           Classify(d, key, state).class = "no_effect"
    PROVE  d = "not_dispatched"
BY DEF Classify, ClassifyAccepted, RejectionClass, PostStateClass, FailClosed,
       Verdict, Dispositions

(* An accepted call is repeated only after the instance was seen running   *)
(* or stopping, and counts as done only if no state contradicts that.      *)
LEMMA AcceptedVerdict ==
    ASSUME NEW state \in ObservedStates
    PROVE  LET v == Classify("accepted", "unlisted", state)
           IN  /\ v.class = "post_state_not_reached" => state \in InProgressStates
               /\ v.outcome = "verified_success" => state = "stopped"
BY DEF Classify, ClassifyAccepted, RejectionClass, PostStateClass, FailClosed,
       Verdict, Verification, ObservedStates, InstanceStates, InProgressStates

-----------------------------------------------------------------------------
(* The loop. *)

LEMMA MaxPollsType == MaxPolls \in Nat \ {0}
BY PolicyAssumption DEF MaxPolls

(* A poll adds one entry to the record. *)
LEMMA PollAppends ==
    ASSUME SettleInv, NEW x \in (ObservedStates \ {"none"}) \cup {"error"},
           polls' = polls + 1, seen' = Append(seen, x)
    PROVE  /\ seen' \in Seq((ObservedStates \ {"none"}) \cup {"error"})
           /\ Len(seen') = polls'
           /\ seen'[polls'] = x
           /\ \A k \in 1 .. polls : seen'[k] = seen[k]
           /\ 1 .. polls' = (1 .. polls) \cup {polls'}
           /\ polls \in Nat
BY AppendProperties DEF SettleInv, SettleTypeOK, CountersDescribeTheRecord

LEMMA InitEstablishes == SettleInit => SettleInv
BY MaxPollsType, PolicyAssumption, EmptySeq
DEF SettleInit, SettleInv, SettleTypeOK, CountersDescribeTheRecord,
    LoopGoesOnForAReason, LoopReturnsTheLastUsable, InstanceStates,
    ObservedStates

LEMMA ObserveStatePreserves ==
    ASSUME SettleInv, ObserveState
    PROVE  SettleInv'
<1>1. PICK state \in Labels :
        /\ errors' = 0
        /\ last_usable' = state
        /\ seen' = Append(seen, state)
        /\ IF Conclusive(state) THEN ReturnState(state) ELSE KeepWaiting(state)
  BY DEF ObserveState
<1>2. /\ pc = "observe"
      /\ polls' = polls + 1
      /\ UNCHANGED <<instance, clock>>
  BY DEF ObserveState
<1>3. state \in ObservedStates \ {"none"} /\ state # "error"
  BY DEF Labels, SettleInv, SettleTypeOK, ObservedStates, InstanceStates
<1>4. /\ seen' \in Seq((ObservedStates \ {"none"}) \cup {"error"})
      /\ Len(seen') = polls'
      /\ seen'[polls'] = state
      /\ \A k \in 1 .. polls : seen'[k] = seen[k]
      /\ 1 .. polls' = (1 .. polls) \cup {polls'}
      /\ polls \in Nat
  BY <1>1, <1>2, <1>3, PollAppends
<1>5. \/ pc' = "done" /\ returned' = state
      \/ pc' = "sleep" /\ returned' = returned /\ ~Conclusive(state)
           /\ polls' < MaxPolls
  BY <1>1, <1>2, <1>4, MaxPollsType DEF KeepWaiting, ReturnState, OutOfTime
<1>6. SettleTypeOK'
  BY <1>1, <1>2, <1>3, <1>4, <1>5, MaxPollsType
  DEF SettleInv, SettleTypeOK, LoopGoesOnForAReason
<1>7. CountersDescribeTheRecord'
  BY <1>1, <1>2, <1>3, <1>4 DEF CountersDescribeTheRecord
<1>8. LoopGoesOnForAReason'
  <2>1. \A k \in 1 .. polls : seen[k] \in InProgressStates \cup {"error"}
    BY <1>2 DEF SettleInv, LoopGoesOnForAReason
  <2>2. pc' # "done" => state \in InProgressStates
    BY <1>5 DEF Conclusive
  <2>3. QED
    BY <1>1, <1>2, <1>4, <1>5, <2>1, <2>2, PolicyAssumption
    DEF LoopGoesOnForAReason
<1>9. LoopReturnsTheLastUsable'
  BY <1>1, <1>5, PolicyAssumption DEF LoopReturnsTheLastUsable
<1>10. QED
  BY <1>6, <1>7, <1>8, <1>9 DEF SettleInv

LEMMA ObserveErrorPreserves ==
    ASSUME SettleInv, ObserveError
    PROVE  SettleInv'
<1>1. /\ pc = "observe"
      /\ polls' = polls + 1
      /\ errors' = errors + 1
      /\ seen' = Append(seen, "error")
      /\ IF TooManyErrors(errors') THEN ReturnState("none")
         ELSE KeepWaiting(last_usable)
      /\ UNCHANGED <<instance, clock, last_usable>>
  BY DEF ObserveError
<1>2. /\ seen' \in Seq((ObservedStates \ {"none"}) \cup {"error"})
      /\ Len(seen') = polls'
      /\ seen'[polls'] = "error"
      /\ \A k \in 1 .. polls : seen'[k] = seen[k]
      /\ 1 .. polls' = (1 .. polls) \cup {polls'}
      /\ polls \in Nat
  BY <1>1, PollAppends
<1>3. errors \in 0 .. polls
  BY DEF SettleInv, SettleTypeOK
<1>4. \/ pc' = "done" /\ returned' = "none" /\ errors' > MaxErrors
      \/ pc' = "done" /\ returned' = last_usable /\ ~(errors' > MaxErrors)
      \/ /\ pc' = "sleep"
         /\ returned' = returned
         /\ ~(errors' > MaxErrors)
         /\ polls' < MaxPolls
  BY <1>1, <1>2, MaxPollsType
  DEF KeepWaiting, ReturnState, OutOfTime, TooManyErrors
<1>5. SettleTypeOK'
  BY <1>1, <1>2, <1>3, <1>4, MaxPollsType
  DEF SettleInv, SettleTypeOK, LoopGoesOnForAReason, ObservedStates
<1>6. CountersDescribeTheRecord'
  BY <1>1, <1>2, <1>3 DEF SettleInv, CountersDescribeTheRecord
<1>7. LoopGoesOnForAReason'
  <2>1. \A k \in 1 .. polls : seen[k] \in InProgressStates \cup {"error"}
    BY <1>1 DEF SettleInv, LoopGoesOnForAReason
  <2>2. QED
    BY <1>1, <1>2, <1>3, <1>4, <2>1, PolicyAssumption DEF LoopGoesOnForAReason
<1>8. LoopReturnsTheLastUsable'
  BY <1>1, <1>2, <1>3, <1>4, PolicyAssumption DEF LoopReturnsTheLastUsable
<1>9. QED
  BY <1>5, <1>6, <1>7, <1>8 DEF SettleInv

LEMMA SleepPreserves ==
    ASSUME SettleInv, Sleep
    PROVE  SettleInv'
BY PolicyAssumption
DEF Sleep, SettleInv, SettleTypeOK, CountersDescribeTheRecord,
    LoopGoesOnForAReason, LoopReturnsTheLastUsable

LEMMA EvolvePreserves ==
    ASSUME SettleInv, Evolve
    PROVE  SettleInv'
<1>1. instance' \in InstanceStates
  BY DEF Evolve, Successors, SettleInv, SettleTypeOK, InstanceStates
<1>2. QED
  BY <1>1
  DEF Evolve, SettleInv, SettleTypeOK, CountersDescribeTheRecord,
      LoopGoesOnForAReason, LoopReturnsTheLastUsable

LEMMA StepPreserves == SettleInv /\ [SettleNext]_settleVars => SettleInv'
<1> SUFFICES ASSUME SettleInv, [SettleNext]_settleVars PROVE SettleInv'
  OBVIOUS
<1>1. CASE UNCHANGED settleVars
  BY <1>1
  DEF settleVars, SettleInv, SettleTypeOK, CountersDescribeTheRecord,
      LoopGoesOnForAReason, LoopReturnsTheLastUsable
<1>2. QED
  BY <1>1, ObserveStatePreserves, ObserveErrorPreserves, SleepPreserves,
     EvolvePreserves
  DEF SettleNext, Loop

(* The inductive invariant holds in every reachable state, whatever the    *)
(* instance, the observer and the clock do (execution.py, _settle).        *)
THEOREM SettleInvariant == SettleSpec => []SettleInv
<1>1. SettleInit => SettleInv
  BY InitEstablishes
<1>2. SettleInv /\ [SettleNext]_settleVars => SettleInv'
  BY StepPreserves
<1>3. QED
  BY <1>1, <1>2, PTL DEF SettleSpec

-----------------------------------------------------------------------------
(* What the record says at the end. *)

(* The last poll that saw anything is `errors` polls back.                 *)
LEMMA LastUsableIsErrorsBack ==
    ASSUME SettleInv
    PROVE  LastUsablePoll = polls - errors
<1> DEFINE usable == {k \in DOMAIN seen : seen[k] # "error"}
<1>1. /\ polls \in Nat /\ errors \in 0 .. polls
      /\ DOMAIN seen = 1 .. polls
  BY LenProperties DEF SettleInv, SettleTypeOK, CountersDescribeTheRecord
<1>2. \A k \in usable : k <= polls - errors
  BY <1>1 DEF SettleInv, CountersDescribeTheRecord
<1>3. CASE errors = polls
  <2>1. usable = {}
    BY <1>1, <1>2, <1>3
  <2>2. QED
    BY <1>1, <1>3, <2>1 DEF LastUsablePoll
<1>4. CASE errors < polls
  <2>1. polls - errors \in usable
    BY <1>1, <1>4
    DEF SettleInv, CountersDescribeTheRecord, SettleTypeOK, ObservedStates,
        InstanceStates
  <2>2. \A j \in usable : j \in Nat
    BY <1>1
  <2>3. \A k \in usable : (\A j \in usable : j <= k) => k = polls - errors
    BY <1>1, <1>2, <2>1, <2>2
  <2>4. (CHOOSE k \in usable : \A j \in usable : j <= k) = polls - errors
    BY <1>2, <2>1, <2>3
  <2>5. QED
    BY <2>1, <2>4 DEF LastUsablePoll
<1>5. QED
  BY <1>1, <1>3, <1>4

(* A retry rests on an instance seen running or stopping at most MaxErrors *)
(* polls before the end.                                                   *)
THEOREM RetriesRestOnRecentContradictions ==
    SettleSpec => []RetryRestsOnARecentContradiction
<1>1. ASSUME SettleInv PROVE RetryRestsOnARecentContradiction
  <2> SUFFICES ASSUME pc = "done", SettledVerdict.class = "post_state_not_reached"
               PROVE  /\ LastUsablePoll # 0
                      /\ seen[LastUsablePoll] \in InProgressStates
                      /\ LastUsablePoll + MaxErrors >= Len(seen)
    BY DEF RetryRestsOnARecentContradiction
  <2>1. /\ polls \in Nat /\ errors \in 0 .. polls /\ MaxErrors \in Nat
        /\ returned \in ObservedStates
        /\ Len(seen) = polls
    BY <1>1, PolicyAssumption
    DEF SettleInv, SettleTypeOK, CountersDescribeTheRecord
  <2>2. returned \in InProgressStates
    BY <2>1, AcceptedVerdict DEF SettledVerdict
  <2>3. returned = last_usable /\ errors <= MaxErrors /\ last_usable # "none"
    BY <1>1, <2>2 DEF SettleInv, LoopReturnsTheLastUsable, InProgressStates
  <2>4. errors < polls /\ seen[polls - errors] = last_usable
    BY <1>1, <2>1, <2>3 DEF SettleInv, CountersDescribeTheRecord
  <2>5. LastUsablePoll = polls - errors
    BY <1>1, LastUsableIsErrorsBack
  <2>6. QED
    BY <2>1, <2>2, <2>3, <2>4, <2>5
<1>2. QED
  BY <1>1, SettleInvariant, PTL

(* A conclusive state ends the wait and is what is judged.                 *)
THEOREM ConclusiveStatesDecide == SettleSpec => []FirstConclusiveStateDecides
<1>1. ASSUME SettleInv PROVE FirstConclusiveStateDecides
  <2>1. /\ polls \in Nat /\ errors \in 0 .. polls
        /\ returned \in ObservedStates
        /\ Len(seen) = polls
        /\ DOMAIN seen = 1 .. polls
    BY <1>1, LenProperties
    DEF SettleInv, SettleTypeOK, CountersDescribeTheRecord
  <2>2. ASSUME NEW k \in DOMAIN seen, seen[k] \notin InProgressStates \cup {"error"}
        PROVE  k = Len(seen) /\ pc = "done" /\ returned = seen[k]
    <3>1. k = polls /\ pc = "done"
      BY <1>1, <2>1, <2>2 DEF SettleInv, LoopGoesOnForAReason
    <3>2. errors = 0
      BY <1>1, <2>1, <2>2, <3>1 DEF SettleInv, CountersDescribeTheRecord
    <3>3. seen[k] = last_usable
      BY <1>1, <2>1, <2>2, <3>1, <3>2 DEF SettleInv, CountersDescribeTheRecord
    <3>4. returned = last_usable
      BY <1>1, <3>1, <3>2, PolicyAssumption
      DEF SettleInv, LoopReturnsTheLastUsable
    <3>5. QED
      BY <2>1, <3>1, <3>3, <3>4
  <2>3. ASSUME pc = "done", SettledVerdict.outcome = "verified_success"
        PROVE  seen[Len(seen)] = "stopped"
    <3>1. returned = "stopped"
      BY <2>1, <2>3, AcceptedVerdict DEF SettledVerdict
    <3>2. last_usable = "stopped"
      BY <1>1, <2>3, <3>1 DEF SettleInv, LoopReturnsTheLastUsable
    <3>3. errors < polls /\ seen[polls - errors] = "stopped"
      BY <1>1, <2>1, <3>2 DEF SettleInv, CountersDescribeTheRecord
    <3>4. polls - errors = Len(seen)
      BY <2>1, <2>2, <3>3 DEF InProgressStates
    <3>5. QED
      BY <3>3, <3>4
  <2>4. QED
    BY <2>2, <2>3 DEF FirstConclusiveStateDecides
<1>2. QED
  BY <1>1, SettleInvariant, PTL

(* The loop gives up without a state only when the observer was down for   *)
(* more polls in a row than the policy tolerates, or for all of them.      *)
THEOREM InconclusiveMeansSilent == SettleSpec => []OnlyASilentObserverIsInconclusive
<1>1. ASSUME SettleInv PROVE OnlyASilentObserverIsInconclusive
  <2> SUFFICES ASSUME pc = "done", returned = "none"
               PROVE  LastUsablePoll = 0 \/ LastUsablePoll + MaxErrors < Len(seen)
    BY DEF OnlyASilentObserverIsInconclusive
  <2>1. /\ polls \in Nat /\ errors \in 0 .. polls /\ MaxErrors \in Nat
        /\ Len(seen) = polls
    BY <1>1, PolicyAssumption
    DEF SettleInv, SettleTypeOK, CountersDescribeTheRecord
  <2>2. LastUsablePoll = polls - errors
    BY <1>1, LastUsableIsErrorsBack
  <2>3. last_usable = "none" \/ errors > MaxErrors
    BY <1>1 DEF SettleInv, LoopReturnsTheLastUsable
  <2>4. last_usable = "none" => errors = polls
    BY <1>1, <2>1 DEF SettleInv, CountersDescribeTheRecord
  <2>5. QED
    BY <2>1, <2>2, <2>3, <2>4
<1>2. QED
  BY <1>1, SettleInvariant, PTL
=============================================================================
