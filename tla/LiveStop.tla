------------------------------ MODULE LiveStop ------------------------------
(***************************************************************************)
(* The live path (sws_live): `prepare` opens a ticket, an approver signs   *)
(* it, `execute` grants it and crosses the boundary once; afterwards an    *)
(* operator compares what the run witnessed with what CloudTrail says.     *)
(*                                                                         *)
(* Each Run is one invocation of `execute`, on the one host that may make  *)
(* it; they overlap, crash, and repeat one another's artifacts.  The two   *)
(* durable authorities appear as what they promise: a ticket changes in    *)
(* one step (ApprovalStore), and every intent has one licence              *)
(* (EffectLicense, which ExecutionLedger implements).                      *)
(***************************************************************************)
EXTENDS Naturals, Sequences, FiniteSetsExt, DispatchClassification,
        ApprovalSignature, ExecutionGate, Ec2Observation, MutationClient,
        Reconciliation

CONSTANTS
    Deciders,           \* whom `--decided-by` may name
    Run,                \* invocations of `live-stop execute`
    Ticket,             \* one for each `prepare`; a ticket's nonce is its name
    Intent,             \* one for each snapshot the operator names
    DeadlineMinutes,    \* the window that `prepare` asks for
    ExecutionTTL,       \* the store's ceiling for that window
    AllowedSkew,        \* how far ahead of the host an approval may be dated
    MaxAge,             \* max_observation_age
    MaxClock,           \* bound: the last moment a run looks at
    MaxLag,             \* bound: how far the approver's workstation is behind
    MaxOther            \* bound: stops that others make, in CloudTrail

ASSUME LiveStopAssumption ==
    /\ DeadlineMinutes \in Nat \ {0} /\ DeadlineMinutes <= ExecutionTTL
    /\ AllowedSkew \in Nat /\ MaxAge \in Nat
    /\ MaxClock \in Nat /\ MaxLag \in Nat /\ MaxOther \in Nat

VARIABLES
    tickets,        \* tickets[t]: its row in the approval store
    holder, used,   \* the licences
    pc,             \* pc[r]: the step of execute_live_stop that r takes next
    job,            \* job[r]: its locals
    exit,           \* exit[r]: the exit code the shell saw, or "none"
    sent,           \* sent[r]: what r handed to the sender, in order
    clock

authorities == <<tickets, holder, used>>
liveVars == <<authorities, pc, job, exit, sent, clock>>

License == INSTANCE EffectLicense

-----------------------------------------------------------------------------
(* Vocabulary.  The pinned target, host and account of one deployment.     *)

Target == "i-pinned"
Host == "executor"
Account == "account"
Principal == "mutation-role"

Policy == [keys |-> {"approver", "operator"}, executor |-> Host,
           account |-> Account, operators |-> {"operator"}, skew |-> AllowedSkew]

NoFields == [name \in SignedFieldNames |-> "none"]
NoApproval == [fields |-> NoFields, signature |-> [key |-> "none"]]

(* What the command line and the host say of the deployment: an ARN, the   *)
(* environment beside it, and the credentials of the instance profile.     *)
TargetArn == [instance |-> Target, account |-> Account]
MalformedArn == [instance |-> "none", account |-> "none"]

Options == [arn : {TargetArn, MalformedArn}, environment : {Account, "other"},
            credentials : {"frozen", "incomplete", "none"}]

ParsesAsInstance(arn) == arn.instance # "none"

EnvironmentConsistent(options) == options.environment = options.arn.account

CredentialsUsable(options) == options.credentials = "frozen"

Absent == [status |-> "absent", intent |-> "none", plan |-> "none",
           prepared |-> 0, signed |-> NoApproval, decider |-> "none"]

(* The locals of execute_live_stop.  An option of the command line that is *)
(* looked at once is chosen where it is looked at.  `look` keeps, for the  *)
(* properties, when the observation that passed the gate was made and      *)
(* when the gate compared it with the clock.                               *)
NoLook == [at |-> 0, checked |-> 0]
NoJob == [signed |-> NoApproval, retries |-> RequestedRetries, activity |-> 0,
          observation |-> ObservationFailed, look |-> NoLook, calls |-> 0,
          evidence |-> "none", outcome |-> "none", armed |-> FALSE]

TicketOf(r) == job[r].signed.fields.ticket

Goto(r, place) == pc' = [pc EXCEPT ![r] = place]

(* The process ends with an exit code; its stores are closed, and its      *)
(* locals are gone.                                                        *)
End(r, code) ==
    /\ Goto(r, "ended")
    /\ exit' = [exit EXCEPT ![r] = code]
    /\ job' = [job EXCEPT ![r] = NoJob]

(* A read of a ticket writes its expiry down when its window has passed. *)
Read(row) ==
    IF row.status = "granted" /\ clock > row.signed.fields.deadline
    THEN [row EXCEPT !.status = "expired"] ELSE row

(* What the witness of r recorded: one call, in one or more attempts. *)
Records(r) ==
    [n \in DOMAIN sent[r] |->
        DispatchRecord(1, n, AttemptsPermitted(job[r].retries), <<Target>>)]

-----------------------------------------------------------------------------
(* prepare and the approver. *)

(* prepare_live_stop: no AWS call, one pending ticket, and the request to  *)
(* sign.  A nonce that has a ticket already is refused by the store.       *)
Prepare(t) ==
    /\ tickets[t].status = "absent"
    /\ \E o \in Options : ParsesAsInstance(o.arn) /\ EnvironmentConsistent(o)
    /\ \E i \in Intent :
          tickets' = [tickets EXCEPT ![t] =
              [Absent EXCEPT !.status = "pending", !.intent = i, !.plan = t,
                             !.prepared = clock]]
    /\ UNCHANGED <<holder, used, pc, job, exit, sent, clock>>

(* What an approver signs of t: what the request asks for, dated by the    *)
(* approver's own workstation, at any moment before the deadline.          *)
Issuable(t) ==
    {moment \in 0 .. tickets[t].prepared + DeadlineMinutes - 1 :
        moment + MaxLag >= tickets[t].prepared}

Proposed(t, issued) ==
    [ticket |-> t, resource |-> Target, action |-> "stop",
     plan |-> tickets[t].plan, intent |-> tickets[t].intent,
     deadline |-> tickets[t].prepared + DeadlineMinutes, executor |-> Host,
     account |-> Account, nonce |-> t, issued |-> issued,
     signer |-> "approver"]

(* The artifacts that may come back for t: signed as proposed, signed by   *)
(* another key, for another host, resource or intent, changed after they   *)
(* were signed, or with a field missing.                                   *)
ArtifactsIssued(t, issued) ==
    LET asked == Proposed(t, issued)
        signed(fields) == SignApproval(fields, fields.signer) IN
    {signed(asked)}
    \cup {signed([asked EXCEPT !.signer = key]) : key \in {"operator", "stranger"}}
    \cup {signed([asked EXCEPT !.executor = "elsewhere"]),
          signed([asked EXCEPT !.resource = "i-other"]),
          signed([asked EXCEPT !.intent = "another"])}
    \cup {[fields |-> [asked EXCEPT !.deadline = @ + 1],
           signature |-> signed(asked).signature],
          signed([asked EXCEPT !.nonce = "none"])}

Artifacts(t) == UNION {ArtifactsIssued(t, issued) : issued \in Issuable(t)}

-----------------------------------------------------------------------------
(* The checks that precede every durable write. *)

(* parse_signed_approval_artifact: a plan and an intent may be missing, and*)
(* the two times are numbers here.                                         *)
Complete(fields) ==
    \A name \in SignedFieldNames \ {"plan", "intent", "deadline", "issued"} :
        fields[name] # "none"

(* Mutant: the signature is left to the gate. *)
UnsignedArtifactPasses(fields, signed, intent) ==
    /\ Complete(fields)
    /\ fields.action = "stop"
    /\ fields.resource = Target
    /\ fields.executor = Host
    /\ fields.account = Account
    /\ fields.intent = intent
    /\ fields.signer \in Policy.keys

(* execute_live_stop up to the composition; intent is what the snapshot    *)
(* the operator names, the target and the action derive.                   *)
EarlyChecks(fields, signed, intent) ==
    /\ Complete(fields)
    /\ fields.action = "stop"
    /\ fields.resource = Target
    /\ fields.executor = Host
    /\ fields.account = Account
    /\ fields.intent = intent
    /\ fields.signer \in Policy.keys
    /\ VerifySignedApproval(signed, fields.signer)

(* build_live_stop_composition hands its client to the handler: the one of *)
(* the factory, or one that was injected.                                  *)
ClientAccepted(retries, injected) ==
    /\ injected \/ FactoryAccepts(retries)
    /\ RetryFree(retries)

Clients ==
    {[retries |-> Normalized(RequestedRetries), injected |-> FALSE]}
    \cup {[retries |-> c, injected |-> TRUE] : c \in RetryConfigs}

(* The other conditions of a composition. *)
Composable(options) ==
    /\ Policy.keys # {}
    /\ ParsesAsInstance(options.arn) /\ EnvironmentConsistent(options)
    /\ Implemented = {}
    /\ CredentialsUsable(options)

(* An artifact or an option that the checks refuse, a client that the      *)
(* factory or the handler refuses, or a store or a credential that fails;  *)
(* an exception that main does not know ends with the interpreter's code.  *)
StartRefused(r) ==
    /\ pc[r] = "idle"
    /\ \/ /\ \E t \in Ticket, i \in Intent : \E a \in Artifacts(t) :
                /\ tickets[t].status # "absent"
                /\ ~EarlyChecks(a.fields, a, i)
          /\ End(r, "refused")
       \/ /\ \E o \in Options : ~Composable(o)
          /\ End(r, "refused")
       \/ /\ \E client \in Clients : ~ClientAccepted(client.retries, client.injected)
          /\ End(r, "error")
       \/ \E code \in {"error", "inconclusive"} : End(r, code)
    /\ UNCHANGED <<authorities, sent, clock>>

Start(r) ==
    /\ pc[r] = "idle"
    /\ \E t \in Ticket, i \in Intent :
       \E a \in Artifacts(t), client \in Clients :
          /\ tickets[t].status # "absent"
          /\ EarlyChecks(a.fields, a, i)
          /\ \E o \in Options : Composable(o)
          /\ ClientAccepted(client.retries, client.injected)
          /\ job' = [job EXCEPT ![r] =
                [NoJob EXCEPT !.signed = a,
                              !.retries = Normalized(client.retries)]]
    /\ Goto(r, "read")
    /\ UNCHANGED <<authorities, exit, sent, clock>>

-----------------------------------------------------------------------------
(* The grant and the gate. *)

(* store.get finds a ticket to grant, or one granted by this artifact. *)
ReadTicket(r) ==
    /\ pc[r] = "read"
    /\ LET t == TicketOf(r)
           row == Read(tickets[t])
           nonce == job[r].signed.fields.nonce IN
       /\ tickets' = [tickets EXCEPT ![t] = row]
       /\ \/ row.status = "pending" /\ Goto(r, "grant") /\ UNCHANGED <<job, exit>>
          \/ /\ row.status = "granted" /\ row.signed.fields.nonce = nonce
             /\ Goto(r, "gate") /\ UNCHANGED <<job, exit>>
          \/ /\ row.status # "pending"
             /\ row.status = "granted" => row.signed.fields.nonce # nonce
             /\ End(r, "refused")
    /\ UNCHANGED <<holder, used, sent, clock>>

(* store.grant, which another run or an operator may have forestalled. *)
Grant(r) ==
    /\ pc[r] = "grant"
    /\ LET t == TicketOf(r)
           row == tickets[t]
           granted == /\ row.status = "pending"
                      /\ GrantAccepts(job[r].signed.fields, t, row, Target,
                                      clock, ExecutionTTL) IN
       \/ /\ granted
          /\ \E decider \in Deciders :
                tickets' = [tickets EXCEPT ![t] =
                    [row EXCEPT !.status = "granted", !.signed = job[r].signed,
                                !.decider = decider]]
          /\ Goto(r, "gate")
          /\ UNCHANGED <<job, exit>>
       \/ /\ ~granted
          /\ tickets' = [tickets EXCEPT ![t] = Read(row)]
          /\ End(r, "error")
    /\ UNCHANGED <<holder, used, sent, clock>>

(* _build_request, at the moment `collected`; a decision is named after    *)
(* its plan.                                                               *)
BuildRequest(fields, collected) ==
    [plan_id |-> fields.plan, resource |-> Target, action |-> "stop",
     mode |-> "safe", absent |-> {}, supplied |-> FALSE, expected |-> "none",
     plan |-> [id |-> fields.plan, mode |-> "safe",
               decision |-> fields.plan, executed |-> FALSE],
     decision |-> [id |-> fields.plan, resource |-> Target,
                   action |-> "stop", snapshot |-> fields.intent, run |-> "none"],
     snapshot |-> [id |-> fields.intent, partial |-> FALSE, truncated |-> FALSE,
                   run |-> "none", collected |-> collected,
                   resources |-> {[id |-> Target, type |-> "ec2_instance",
                                   arn |-> Target, account |-> Account]}]]

(* The coordinator of this run has executed nothing before. *)
CoordinatorOf(audit) ==
    [handler |-> TRUE, audit |-> audit, ledger |-> TRUE,
     attempted |-> {}, intents |-> {}, max_age |-> MaxAge]

(* lookup_nonce: the grant recorded the nonce with its ticket. *)
BoundTo(nonce) ==
    LET t == {x \in Ticket : tickets[x].signed.fields.nonce = nonce} IN
    IF t = {} THEN "none" ELSE CHOOSE x \in t : TRUE

(* build_approval_verifier: what the gate's verifier says of a ticket. *)
Verify(t, row) ==
    LET stored == StoredApproval(t, row, Target) IN
    VerifyApproval(stored, row.decider, Policy, BoundTo(stored.fields.nonce), clock)

(* What the gate finds wrong with the stored ticket of r. *)
TicketRefusal(r, row, audit) ==
    LET t == TicketOf(r)
        verification == IF row.status = "granted" THEN Verify(t, row) ELSE "none"
    IN  Gate(BuildRequest(job[r].signed.fields, clock), CoordinatorOf(audit), row,
             Target, verification, row.intent)

(* The request is built and gated as far as its observation. *)
PassGate(r) ==
    /\ pc[r] = "gate"
    /\ LET t == TicketOf(r)
           row == Read(tickets[t]) IN
       /\ tickets' = [tickets EXCEPT ![t] = row]
       /\ \/ /\ TicketRefusal(r, row, TRUE) = "none"
             /\ Goto(r, "observe")
             /\ job' = [job EXCEPT ![r].activity = clock]
             /\ UNCHANGED exit
          \/ /\ \E audit \in BOOLEAN : TicketRefusal(r, row, audit) # "none"
             /\ End(r, "refused")
    /\ UNCHANGED <<holder, used, sent, clock>>

(* What DescribeInstances may answer: the target, alone, twice or with no  *)
(* state, an instance of another account, nothing, or half of a page.      *)
DescribeAnswers ==
    LET instance == [id |-> Target, account |-> Account, state |-> "running",
                     serial |-> 1]
        page(set) == [intact |-> TRUE, instances |-> set] IN
    {<<page({instance})>>,
     <<page({instance}), page({})>>,
     <<page({instance}), page({[instance EXCEPT !.serial = 2]})>>,
     <<page({[instance EXCEPT !.state = "none"]})>>,
     <<page({[instance EXCEPT !.account = "other"]})>>,
     << >>,
     <<page({instance}), [intact |-> FALSE, instances |-> {}]>>}

(* The observer reads the instance and stamps the moment it has. *)
Observe(r) ==
    /\ pc[r] = "observe"
    /\ \E answer \in DescribeAnswers :
          LET observation == ObserveInstance(answer, clock) IN
          \/ /\ ~observation.failed
             /\ Goto(r, "freshness")
             /\ job' = [job EXCEPT ![r].observation = observation]
             /\ UNCHANGED exit
          \/ observation.failed /\ End(r, "refused")
    /\ UNCHANGED <<authorities, sent, clock>>

(* The last part of the gate looks at the clock once more. *)
PassFreshness(r) ==
    /\ pc[r] = "freshness"
    /\ LET refusal == PreflightGate(
              BuildRequest(job[r].signed.fields, job[r].activity),
              CoordinatorOf(TRUE), job[r].observation, clock) IN
       \/ /\ refusal = "none"
          /\ Goto(r, "reserve")
          /\ job' = [job EXCEPT ![r].activity = 0,
                               ![r].observation = ObservationFailed,
                               ![r].look = [at |-> job[r].observation.at,
                                            checked |-> clock]]
          /\ UNCHANGED exit
       \/ refusal # "none" /\ End(r, "refused")
    /\ UNCHANGED <<authorities, sent, clock>>

-----------------------------------------------------------------------------
(* The claim, the spending and the crossing. *)

Reserve(r) ==
    /\ pc[r] = "reserve"
    /\ LET t == TicketOf(r)
           i == tickets[t].intent IN
       \/ /\ License!Acquire(i, t)
          /\ Goto(r, "consume")
          /\ UNCHANGED <<job, exit>>
       \/ /\ holder[i] # "free" \/ t \in used[i]
          /\ End(r, "refused")
          /\ UNCHANGED <<holder, used>>
    /\ UNCHANGED <<tickets, sent, clock>>

(* A ticket that can no longer be spent leaves the licence taken. *)
Consume(r) ==
    /\ pc[r] = "consume"
    /\ LET t == TicketOf(r)
           row == Read(tickets[t]) IN
       \/ /\ row.status = "granted"
          /\ tickets' = [tickets EXCEPT ![t].status = "consumed"]
          /\ Goto(r, "handle")
          /\ UNCHANGED <<job, exit>>
       \/ /\ row.status # "granted"
          /\ tickets' = [tickets EXCEPT ![t] = row]
          /\ End(r, "refused")
    /\ UNCHANGED <<holder, used, sent, clock>>

(* The SDK fails before it hands anything to the sender. *)
HandleWithoutSending(r) ==
    /\ pc[r] = "handle"
    /\ \E d \in {"not_dispatched", "unknown"} :
          job' = [job EXCEPT ![r].calls = 1, ![r].evidence = d, ![r].look = NoLook]
    /\ Goto(r, "settle")
    /\ UNCHANGED <<authorities, exit, sent, clock>>

(* One HTTP attempt, which AWS receives or does not. *)
Send(r) ==
    /\ \/ pc[r] = "handle"
       \/ /\ pc[r] = "sent"
          /\ Len(sent[r]) < AttemptsPermitted(job[r].retries)
    /\ \E reached \in BOOLEAN :
          sent' = [sent EXCEPT ![r] =
              Append(@, [ticket |-> TicketOf(r), reached |-> reached,
                         time |-> clock])]
    /\ Goto(r, "sent")
    /\ job' = [job EXCEPT ![r].calls = 1]
    /\ UNCHANGED <<authorities, exit, clock>>

(* What the handler can report of what AWS said, or did not say: a request *)
(* that was handed over may fail on its way, known to have been lost.      *)
Answers(r) ==
    IF \E n \in DOMAIN sent[r] : sent[r][n].reached
    THEN {"accepted", "rejected", "unknown"} ELSE {"unknown", "not_dispatched"}

Answer(r) ==
    /\ pc[r] = "sent"
    /\ \E d \in Answers(r) :
          job' = [job EXCEPT ![r].evidence = d, ![r].look = NoLook]
    /\ Goto(r, "settle")
    /\ UNCHANGED <<authorities, exit, sent, clock>>

(* The bases on which the ledger lets an intent be executed again. *)
Retryable == {"no_effect", "transient_rejection", "post_state_not_reached"}

(* The outcome is classified and recorded, or the ledger does not record   *)
(* it and the execution reports that it does not know.                     *)
Settle(r) ==
    /\ pc[r] = "settle"
    /\ LET i == tickets[TicketOf(r)].intent IN
       \/ \E v \in Verdicts(job[r].evidence) :
             /\ IF v.class \in Retryable THEN License!GiveBack(i)
                ELSE License!Spend(i)
             /\ job' = [job EXCEPT ![r].outcome = v.outcome]
       \/ /\ job' = [job EXCEPT ![r].outcome = "unknown"]
          /\ UNCHANGED <<holder, used>>
    /\ Goto(r, "return")
    /\ UNCHANGED <<tickets, exit, sent, clock>>

(* Mutant: the handler's own count is taken for the evidence. *)
OneCall(r, armed) == IF job[r].calls > 1 THEN "refused" ELSE "none"

(* LiveStopComposition.assert_single_dispatch: the code main gives what it *)
(* raises, "none" when it returns.                                         *)
AssertSingleDispatch(r, armed) ==
    CASE job[r].calls > 1 -> "refused"
      [] armed /\ job[r].calls > 0 /\ ~SingleDispatch(Records(r)) -> "error"
      [] OTHER -> "none"

(* Mutant: whatever did not succeed is reported as declined. *)
ExitCodeWithoutFailures(outcome) ==
    IF outcome = "verified_success" THEN "success" ELSE "refused"

(* Mutant: an outcome without a code of its own is passed on. *)
ExitCodeOrOutcome(outcome) ==
    IF outcome = "verified_success" THEN "success" ELSE outcome

(* _exit_code_for: 0, 2 and 1; `error` is 3, which main gives exceptions.  *)
ExitCodeFor(outcome) ==
    CASE outcome = "verified_success" -> "success"
      [] outcome = "refused" -> "refused"
      [] OTHER -> "inconclusive"

Return(r) ==
    /\ pc[r] = "return"
    /\ Goto(r, "ended")
    /\ \E armed \in BOOLEAN :
          /\ LET raised == AssertSingleDispatch(r, armed) IN
             exit' = [exit EXCEPT ![r] =
                IF raised = "none" THEN ExitCodeFor(job[r].outcome) ELSE raised]
          /\ job' = [job EXCEPT ![r] =
                [NoJob EXCEPT !.armed = armed, !.retries = job[r].retries]]
    /\ UNCHANGED <<authorities, sent, clock>>

-----------------------------------------------------------------------------
(* Failures. *)

(* How a store that fails ends the run, by the step that calls it: the     *)
(* exceptions of store.get, reserve and consume are turned into refusals,  *)
(* those of grant, the audit records and mark_attempted are not.           *)
FaultExits(place) ==
    CASE place = "read" -> {"refused"}
      [] place \in {"grant", "gate", "handle", "settle", "return"} -> {"error"}
      [] place \in {"reserve", "consume"} -> {"refused", "error"}
      [] OTHER -> {}

StoreFails(r) ==
    /\ \E code \in FaultExits(pc[r]) : End(r, code)
    /\ UNCHANGED <<authorities, sent, clock>>

(* The process dies: no exit code, no witness. *)
Crash(r) ==
    /\ pc[r] \notin {"idle", "ended", "crashed"}
    /\ Goto(r, "crashed")
    /\ job' = [job EXCEPT ![r] = NoJob]
    /\ UNCHANGED <<authorities, exit, sent, clock>>

-----------------------------------------------------------------------------
(* CloudTrail, and reconciliation. *)

(* The records CloudTrail makes of what reached AWS: one for each request, *)
(* under the session of the host's instance profile.                       *)
Recorded ==
    {[id |-> call, stop |-> TRUE, readable |-> TRUE,
      time |-> sent[call[1]][call[2]].time, principal |-> Principal,
      username |-> Host, arn_session |-> Host, requested |-> {Target},
      resources |-> {}, read_only |-> FALSE] :
        call \in {c \in Run \X (1 .. 3) :
                    c[2] \in DOMAIN sent[c[1]] /\ sent[c[1]][c[2]].reached}}

(* Somebody else stops the target. *)
OtherStops ==
    {[id |-> <<"other", time>>, stop |-> TRUE, readable |-> TRUE, time |-> time,
      principal |-> "console", username |-> "none", arn_session |-> "none",
      requested |-> {Target}, resources |-> {}, read_only |-> FALSE] :
        time \in 0 .. MaxClock}

(* What CloudTrail may have delivered by the time it is asked. *)
Deliveries ==
    {d \cup o : d \in SUBSET Recorded,
                o \in UNION {kSubset(n, OtherStops) : n \in 0 .. MaxOther}}

(* What the operator states of r. *)
StatedOf(r, window) ==
    [target |-> Target, principal |-> Principal, session |-> Host,
     window |-> window, attempts |-> Len(Records(r)),
     witnessed |-> IF Records(r) = << >> THEN {} ELSE {Target}]

(* The windows that are asked about hold the moments of the run's requests:*)
(* the narrowest, or one that is open at either end.                       *)
WindowsOf(r) ==
    LET moments == {sent[r][n].time : n \in DOMAIN sent[r]} IN
    {w \in [start : {0} \cup moments, end : {x + 1 : x \in moments \cup {MaxClock}}] :
        \A n \in DOMAIN sent[r] : InWindow(sent[r][n], w)}

(* The runs whose witness outlived them: reconciling them changes nothing. *)
Reconcilable == {r \in Run : pc[r] = "ended" /\ job[r].armed}

(* What an operator is told of r, with what it was made from. *)
ReportOf(r, delivered, window) ==
    [outcome |-> Reconcile(ReadStopEvents(delivered, window, "auditor", TRUE),
                           StatedOf(r, window)),
     delivered |-> delivered, window |-> window]

(* Every report there may be: an event may be late, and the query may be   *)
(* repeated.                                                               *)
Reports(r) == {ReportOf(r, d, w) : d \in Deliveries, w \in WindowsOf(r)}

-----------------------------------------------------------------------------
(* The host's clock is set forward by time and either way by hand. *)
Tick ==
    /\ clock' \in {clock - 1, clock + 1} \cap (0 .. MaxClock)
    /\ UNCHANGED <<authorities, pc, job, exit, sent>>

LiveInit ==
    /\ tickets = [t \in Ticket |-> Absent]
    /\ License!LicenseInit
    /\ pc = [r \in Run |-> "idle"]
    /\ job = [r \in Run |-> NoJob]
    /\ exit = [r \in Run |-> "none"]
    /\ sent = [r \in Run |-> << >>]
    /\ clock = 0

Step(r) ==
    \/ StartRefused(r) \/ Start(r) \/ ReadTicket(r) \/ Grant(r)
    \/ PassGate(r) \/ Observe(r) \/ PassFreshness(r) \/ Reserve(r)
    \/ Consume(r) \/ HandleWithoutSending(r) \/ Send(r) \/ Answer(r)
    \/ Settle(r) \/ Return(r) \/ StoreFails(r) \/ Crash(r)

LiveNext ==
    \/ \E r \in Run : Step(r)
    \/ \E t \in Ticket : Prepare(t)
    \/ Tick

LiveSpec == LiveInit /\ [][LiveNext]_liveVars

-----------------------------------------------------------------------------
(* Properties. *)

Codes == {"none", "success", "inconclusive", "refused", "error"}

(* Every variable keeps its type. *)
LiveTypeOK ==
    /\ \A t \in Ticket :
          /\ tickets[t].status \in {"absent", "pending", "granted", "consumed",
                                    "expired"}
          /\ tickets[t].intent \in Intent \cup {"none"}
    /\ License!LicenseTypeOK
    /\ exit \in [Run -> Codes]
    /\ clock \in 0 .. MaxClock
    /\ \A r \in Run : job[r].calls \in {0, 1}

(* The requests that left for the provider, each by its run and attempt.   *)
Calls == {c \in Run \X (1 .. 3) : c[2] \in DOMAIN sent[c[1]]}
CallOf(c) == sent[c[1]][c[2]]

(* However often an artifact is presented, by runs that overlap, crash or  *)
(* repeat each other, at most one request leaves under its ticket: the SDK *)
(* that may resend, the ticket and the licence all have to agree on it.    *)
OneRequestPerArtifact ==
    \A c, d \in Calls : CallOf(c).ticket = CallOf(d).ticket => c = d

(* "A malformed or wrong-key artifact never leaves a GRANTED ticket        *)
(* behind": the grant itself looks at no signature.                        *)
GrantedArtifactsVerify ==
    \A t \in Ticket :
        tickets[t].status \in {"granted", "consumed", "expired"} =>
            /\ tickets[t].signed.fields.signer \in Policy.keys
            /\ VerifySignedApproval(StoredApproval(t, tickets[t], Target),
                                    tickets[t].signed.fields.signer)

(* A request leaves only under a ticket that is spent by then, and that    *)
(* the approver, who is no operator, signed for this very intent.          *)
DispatchIsApproved ==
    \A c \in Calls :
        LET row == tickets[CallOf(c).ticket] IN
        /\ row.status = "consumed"
        /\ {row.signed.fields.signer, row.decider} \cap Policy.operators = {}
        /\ row.signed = SignApproval(row.signed.fields, "approver")
        /\ row.signed.fields.intent = row.intent

(* Nothing that was seen before the approver signed is ever acted on: the  *)
(* observation behind a request is no older than the approval it leaves    *)
(* under, up to the skew, although the approver's clock dates the one, the *)
(* host's clock is set back between gate, observation and request, and     *)
(* another run may have granted the ticket.  And the gate found it within  *)
(* max_observation_age and not dated ahead when it last read the clock.    *)
RequestsRestOnALaterLook ==
    [][\A r \in Run :
          sent'[r] # sent[r] =>
              LET look == job[r].look
                  approval == tickets[TicketOf(r)].signed.fields IN
              /\ approval.issued <= look.at + AllowedSkew
              /\ look.checked \in look.at .. look.at + MaxAge]_sent

(* The shell can trust the code: nothing left the host when the run says   *)
(* that it was refused, and a success is one request that AWS received.    *)
ExitCodesAreHonest ==
    \A r \in Run :
        /\ exit[r] = "refused" => sent[r] = << >>
        /\ exit[r] = "success" => Len(sent[r]) = 1 /\ sent[r][1].reached

(* The handler counts calls and the witness attempts: a run under a        *)
(* witness that reports any outcome made one request, no fewer, no more.   *)
ReportedRunsSentOnce ==
    \A r \in Run :
        exit[r] \in {"success", "inconclusive"} /\ job[r].armed =>
            Len(sent[r]) = 1

(* However late CloudTrail delivers, no_dispatch_observed, the one outcome *)
(* that licenses a second attempt, is never reported of a run that handed  *)
(* a request to the sender.                                                *)
LicensedRetryIsSafe ==
    \A r \in Reconcilable :
        sent[r] # << >> =>
            \A report \in Reports(r) : ~RetryPermissible(report.outcome)

(* A run is confirmed only when it sent one request, and the records that  *)
(* have been delivered of the window show the target stopped by the host's *)
(* own identity and by nobody else, and no other instance with it.         *)
ConfirmationIsSound ==
    \A r \in Reconcilable : \A report \in Reports(r) :
        report.outcome = "confirmed" =>
            /\ Len(sent[r]) = 1
            /\ \A e \in report.delivered :
                  InWindow(e, report.window) =>
                      e.requested = {Target} /\ e.principal = Principal
=============================================================================
