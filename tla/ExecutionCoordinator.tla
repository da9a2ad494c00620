------------------------ MODULE ExecutionCoordinator ------------------------
(***************************************************************************)
(* ExecutionCoordinator.execute (execution.py) on top of the two durable   *)
(* authorities it calls: the approval store and the execution ledger.      *)
(*                                                                         *)
(* Each `Process` is one coordinator with its own worker id, executing one *)
(* request at a time; a restart after a crash is another process.  The     *)
(* order of the effects of `execute` is                                    *)
(*   gate, PRE, reserve, consume, mark_attempted, handler, ATTEMPT,        *)
(*   verification, RESULT, record_outcome, POST                            *)
(* and one action stands for each, two where the authority reads and       *)
(* writes in separate transactions.  Between any two of them other         *)
(* processes run, an operator withdraws approvals, time passes, the        *)
(* process crashes, and every durable write may fail.                      *)
(***************************************************************************)
EXTENDS Naturals, Sequences, FiniteSets, DispatchClassification

CONSTANTS
    Process,        \* coordinator processes, each with its own worker id
    Operator,       \* the one client that withdraws approvals
    Intent,         \* execution intents: one external effect each
    Ticket,         \* approval tickets
    IntentOf,       \* the intent each ticket approves
    ExecutionTTL,   \* how long a grant may be redeemed
    MaxClock,       \* bound: the last moment a run looks at
    Faults          \* TRUE: processes crash and durable writes fail

ASSUME IntentOfAssumption == IntentOf \in [Ticket -> Intent]
ASSUME OperatorAssumption == Operator \notin Process
ASSUME FaultsAssumption == Faults \in BOOLEAN
ASSUME GrantAssumption == "none" \notin Ticket
ASSUME BoundsAssumption == ExecutionTTL \in Nat /\ MaxClock \in Nat

VARIABLES
    rows, call, now,                            \* the execution ledger
    tickets, events, nonces, request, clock,    \* the approval store
    pc,         \* pc[p]: the effect of execute that process p performs next
    job,        \* job[p]: the local variables of that execute
    intents,    \* _intents: the intents process p has let through its gate
    sent,       \* the requests that left for the provider, in order
    audit       \* the EXECUTION records of the audit store

ledgerVars == <<rows, call, now>>
storeVars == <<tickets, events, nonces, request, clock>>
localVars == <<pc, job, intents>>
coordinatorVars == <<ledgerVars, storeVars, localVars, sent, audit>>

Ledger == INSTANCE ExecutionLedger WITH
    Caller <- Process, Worker <- Process, WorkerOf <- [p \in Process |-> p],
    Revision <- Nat, ClockMayStepBack <- FALSE,
    Recorded <- {"refused", "not_executed", "verified_success",
                 "partially_verified", "failed", "unknown"}

Store == INSTANCE ApprovalStore WITH
    Client <- Process \cup {Operator}, Nonce <- {}, DecisionTTL <- MaxClock,
    ClockMayStepBack <- FALSE

-----------------------------------------------------------------------------
(* Vocabulary. *)

Places ==
    {"idle", "pre", "capture", "reserve", "consume", "consuming", "mark",
     "marking", "handle", "sent", "attempt", "result", "record", "recording",
     "post", "dead"}

(* The locals of execute: the ticket, the revision it was reserved at, its *)
(* row (0 before reserve), the evidence, the classification of it, and     *)
(* what the result reports once record_outcome has returned.               *)
Job == [ticket : Ticket \cup {"none"}, revision : Nat, row : Nat,
        evidence : Dispositions \cup {"none"},
        verdict : [outcome : Ledger!Outcomes, class : Ledger!Classes],
        recorded : BOOLEAN]

NoJob == [ticket |-> "none", revision |-> 0, row |-> 0, evidence |-> "none",
          verdict |-> FailClosed, recorded |-> FALSE]

(* acted: whether the provider carried the request out. *)
Sending == [row : Nat, acted : BOOLEAN]

AuditRecord == [stage : {"pre", "attempt", "result", "post"},
                process : Process, ticket : Ticket, outcome : Ledger!Outcomes]

RowOf(p) == rows[job[p].row]

Goto(p, place) == pc' = [pc EXCEPT ![p] = place]

(* The end of execute, normal or by an exception: its locals are gone. *)
Return(p) ==
    /\ Goto(p, "idle")
    /\ job' = [job EXCEPT ![p] = NoJob]

-----------------------------------------------------------------------------
(* The gate, PRE and the claim. *)

(* _gate, at the ticket's row: granted, in time, bound to this request,    *)
(* and this process has not let the intent through before.  A gate that    *)
(* refuses changes nothing.                                                *)
Begin(p, t) ==
    /\ pc[p] = "idle"
    /\ tickets[t].status = "granted"
    /\ ~Store!Due(tickets[t])
    /\ IntentOf[t] \notin intents[p]
    /\ intents' = [intents EXCEPT ![p] = @ \cup {IntentOf[t]}]
    /\ Goto(p, "pre")
    /\ job' = [job EXCEPT ![p] = [NoJob EXCEPT !.ticket = t]]
    /\ UNCHANGED <<ledgerVars, storeVars, sent, audit>>

AuditOf(p, stage, outcome) ==
    {[stage |-> stage, process |-> p, ticket |-> job[p].ticket,
      outcome |-> outcome]}

(* Mutant: an audit store that cannot write is ignored. *)
AuditBestEffort(p, stage, outcome, next) ==
    /\ \/ audit' = audit \cup AuditOf(p, stage, outcome)
       \/ Faults /\ UNCHANGED audit
    /\ next
    /\ UNCHANGED <<ledgerVars, storeVars, intents, sent>>

(* _write: the record is appended and execute goes on at `next`.  When the *)
(* append raises, nothing in execute catches it; the bytes may be on disk  *)
(* all the same (a failing fsync).                                         *)
Audit(p, stage, outcome, next) ==
    /\ \/ /\ audit' = audit \cup AuditOf(p, stage, outcome)
          /\ next
       \/ /\ Faults
          /\ audit' \in {audit, audit \cup AuditOf(p, stage, outcome)}
          /\ Return(p)
    /\ UNCHANGED <<ledgerVars, storeVars, intents, sent>>

WritePre(p) ==
    /\ pc[p] = "pre"
    /\ Audit(p, "pre", "unknown", Goto(p, "capture") /\ UNCHANGED job)

(* _granted_revision: whatever revision the ticket has by now. *)
CaptureRevision(p) ==
    /\ pc[p] = "capture"
    /\ ~Store!Due(tickets[job[p].ticket])
    /\ Goto(p, "reserve")
    /\ job' = [job EXCEPT ![p].revision = tickets[job[p].ticket].revision]
    /\ UNCHANGED <<ledgerVars, storeVars, intents, sent, audit>>

(* Reading a ticket that has run out of time expires it first. *)
ExpireOnRead(p) ==
    /\ pc[p] \in {"capture", "consume"}
    /\ Store!RecordDueExpiry(job[p].ticket)
    /\ UNCHANGED <<ledgerVars, localVars, sent, audit>>

Reserve(p) ==
    /\ pc[p] = "reserve"
    /\ Ledger!Reserve(p, IntentOf[job[p].ticket], job[p].ticket, job[p].revision)
    /\ Goto(p, "consume")
    /\ job' = [job EXCEPT ![p].row = Len(rows')]
    /\ UNCHANGED <<storeVars, intents, sent, audit>>

(* The pair or the intent is taken, or the ledger cannot be written. *)
ReserveRefused(p) ==
    /\ pc[p] = "reserve"
    /\ \/ Faults
       \/ Ledger!Pair(IntentOf[job[p].ticket], job[p].ticket) # {}
       \/ Ledger!BlockingPriors(IntentOf[job[p].ticket]) # {}
    /\ Return(p)
    /\ UNCHANGED <<ledgerVars, storeVars, intents, sent, audit>>

-----------------------------------------------------------------------------
(* The approval is spent at the revision the reservation captured. *)

ReservedRevision(p) == RowOf(p).ticket_revision

Consume(p) ==
    /\ pc[p] = "consume"
    /\ Store!Consume(p, job[p].ticket, ReservedRevision(p))
    /\ Goto(p, "consuming")
    /\ UNCHANGED <<ledgerVars, job, intents, sent, audit>>

(* Refused; the reservation stays as it is, for an operator to see. *)
ConsumeRefused(p) ==
    /\ pc[p] = "consume"
    /\ \/ Faults
       \/ tickets[job[p].ticket].status # "granted"
       \/ tickets[job[p].ticket].revision # ReservedRevision(p)
    /\ Return(p)
    /\ UNCHANGED <<ledgerVars, storeVars, intents, sent, audit>>

StampConsume(p) ==
    /\ pc[p] = "consuming"
    /\ Store!Stamp(p)
    /\ UNCHANGED <<ledgerVars, localVars, sent, audit>>

CommitConsume(p) ==
    /\ pc[p] = "consuming"
    /\ Store!Commit(p)
    /\ Goto(p, "mark")
    /\ UNCHANGED <<ledgerVars, job, intents, sent, audit>>

(* Mutant: an approval that could not be spent does not end the execution. *)
CommitConsumeFailureIgnored(p) ==
    /\ pc[p] = "consuming"
    /\ Faults \/ ~Store!Matches(request[p])
    /\ Store!Abandon(p)
    /\ Goto(p, "mark")
    /\ UNCHANGED <<ledgerVars, job, intents, sent, audit>>

(* The write is refused because the ticket changed since it was gated, or  *)
(* it fails.                                                               *)
CommitConsumeFails(p) ==
    /\ pc[p] = "consuming"
    /\ Faults \/ ~Store!Matches(request[p])
    /\ Store!Abandon(p)
    /\ Return(p)
    /\ UNCHANGED <<ledgerVars, intents, sent, audit>>

-----------------------------------------------------------------------------
(* The boundary. *)

Mark(p) ==
    /\ pc[p] = "mark"
    /\ Ledger!MarkAttempted(p, job[p].row)
    /\ Goto(p, "marking")
    /\ UNCHANGED <<storeVars, job, intents, sent, audit>>

(* mark_attempted commits, and then reads the row back: when that read     *)
(* raises, execute ends here although the row is written.                  *)
CommitMark(p) ==
    /\ pc[p] = "marking"
    /\ Ledger!Commit(p)
    /\ \/ Goto(p, "handle") /\ UNCHANGED job
       \/ Faults /\ Return(p)
    /\ UNCHANGED <<storeVars, intents, sent, audit>>

(* mark_attempted raises before or instead of its commit; nothing catches it.*)
MarkFails(p) ==
    /\ Faults
    /\ \/ pc[p] = "mark" /\ UNCHANGED call
       \/ pc[p] = "marking" /\ call' = [call EXCEPT ![p] = Ledger!NoCall]
    /\ Return(p)
    /\ UNCHANGED <<rows, now, storeVars, intents, sent, audit>>

(* The handler never lets a request out, and says so or cannot say. *)
HandleWithoutSending(p) ==
    /\ pc[p] = "handle"
    /\ \E d \in {"not_dispatched", "unknown"} :
          job' = [job EXCEPT ![p].evidence = d]
    /\ Goto(p, "attempt")
    /\ UNCHANGED <<ledgerVars, storeVars, intents, sent, audit>>

(* The request leaves; the provider carries it out, or it does not. *)
Send(p) ==
    /\ pc[p] = "handle"
    /\ \E acted \in BOOLEAN :
          sent' = Append(sent, [row |-> job[p].row, acted |-> acted])
    /\ Goto(p, "sent")
    /\ UNCHANGED <<ledgerVars, storeVars, job, intents, audit>>

(* The answers a handler can report of a request it sent: an acceptance    *)
(* and a rejection are definitive, anything less is unknown.               *)
Answers(acted) == IF acted THEN {"accepted", "unknown"} ELSE {"rejected", "unknown"}

Acted(n) == \E k \in DOMAIN sent : sent[k].row = n /\ sent[k].acted

Answer(p) ==
    /\ pc[p] = "sent"
    /\ \E d \in Answers(Acted(job[p].row)) :
          job' = [job EXCEPT ![p].evidence = d]
    /\ Goto(p, "attempt")
    /\ UNCHANGED <<ledgerVars, storeVars, intents, sent, audit>>

WriteAttempt(p) ==
    /\ pc[p] = "attempt"
    /\ Audit(p, "attempt", "unknown", Goto(p, "result") /\ UNCHANGED job)

-----------------------------------------------------------------------------
(* Verification, classification and settlement. *)

(* The verdict is classify_dispatch over every rejection code, and every   *)
(* post-state that settling and the verifier may establish.                *)
WriteResult(p) ==
    /\ pc[p] = "result"
    /\ \E v \in Verdicts(job[p].evidence) :
          Audit(p, "result", "unknown",
                Goto(p, "record") /\ job' = [job EXCEPT ![p].verdict = v])

Record(p) ==
    /\ pc[p] = "record"
    /\ Ledger!RecordOutcome(p, job[p].row, job[p].verdict.outcome,
                            job[p].verdict.class)
    /\ Goto(p, "recording")
    /\ UNCHANGED <<storeVars, job, intents, sent, audit>>

(* record_outcome commits and then reads the row back; the coordinator     *)
(* takes an exception of that read for a failure to record.                *)
CommitRecord(p) ==
    /\ pc[p] = "recording"
    /\ Ledger!Commit(p)
    /\ \E recorded \in IF Faults THEN BOOLEAN ELSE {TRUE} :
          job' = [job EXCEPT ![p].recorded = recorded]
    /\ Goto(p, "post")
    /\ UNCHANGED <<storeVars, intents, sent, audit>>

(* record_outcome raises and nothing is written: the ledger rejects the    *)
(* basis, or cannot be read or written.                                    *)
RecordFails(p) ==
    /\ \/ /\ pc[p] = "record"
          /\ \/ Faults
             \/ job[p].verdict.class \notin Ledger!LegalClasses(job[p].verdict.outcome)
          /\ UNCHANGED call
       \/ Faults /\ pc[p] = "recording" /\ call' = [call EXCEPT ![p] = Ledger!NoCall]
    /\ Goto(p, "post")
    /\ UNCHANGED <<rows, now, storeVars, job, intents, sent, audit>>

(* Mutant: the verified outcome is reported whether or not it is recorded. *)
ReportedRegardless(p) == job[p].verdict.outcome

(* What execute reports and POST says: an outcome the ledger did not       *)
(* acknowledge is unknown.                                                 *)
Reported(p) ==
    IF job[p].recorded THEN job[p].verdict.outcome ELSE "unknown"

WritePost(p) ==
    /\ pc[p] = "post"
    /\ Audit(p, "post", Reported(p), Return(p))

-----------------------------------------------------------------------------
(* The world around the processes. *)

(* The process stops; what it had gated is never written. *)
Crash(p) ==
    /\ Faults
    /\ pc[p] # "dead"
    /\ Goto(p, "dead")
    /\ job' = [job EXCEPT ![p] = NoJob]
    /\ call' = [call EXCEPT ![p] = Ledger!NoCall]
    /\ request' = [request EXCEPT ![p] = Store!NoRequest]
    /\ UNCHANGED <<rows, now, tickets, events, nonces, clock, intents, sent, audit>>

(* The operator withdraws an approval, and anybody reads a ticket. *)
Environment ==
    /\ \/ \E t \in Ticket : Store!Revoke(Operator, t) \/ Store!RecordDueExpiry(t)
       \/ Store!Stamp(Operator)
       \/ Store!Commit(Operator)
       \/ Store!Abandon(Operator)
       \/ Store!Tick
    /\ UNCHANGED <<ledgerVars, localVars, sent, audit>>

(* Every ticket has been issued and granted, each with its two events. *)
Granted == [status |-> "granted", revision |-> 1, created_at |-> 1,
            decided_at |-> 1, execution_deadline |-> 1 + ExecutionTTL,
            nonce |-> "none"]

CoordinatorInit ==
    /\ Ledger!Init
    /\ tickets = [t \in Ticket |-> Granted]
    /\ events = [ticket_id : Ticket, revision : {0}, status : {"pending"}]
                 \cup [ticket_id : Ticket, revision : {1}, status : {"granted"}]
    /\ nonces = {}
    /\ request = [c \in Process \cup {Operator} |-> Store!NoRequest]
    /\ clock = 1
    /\ pc = [p \in Process |-> "idle"]
    /\ job = [p \in Process |-> NoJob]
    /\ intents = [p \in Process |-> {}]
    /\ sent = << >>
    /\ audit = {}

(* What a live process does once it has begun an execution. *)
Step(p) ==
    \/ WritePre(p) \/ CaptureRevision(p) \/ ExpireOnRead(p)
    \/ Reserve(p) \/ ReserveRefused(p)
    \/ Consume(p) \/ ConsumeRefused(p) \/ StampConsume(p)
    \/ CommitConsume(p) \/ CommitConsumeFails(p)
    \/ Mark(p) \/ CommitMark(p) \/ MarkFails(p)
    \/ HandleWithoutSending(p) \/ Send(p) \/ Answer(p)
    \/ WriteAttempt(p) \/ WriteResult(p)
    \/ Record(p) \/ CommitRecord(p) \/ RecordFails(p) \/ WritePost(p)

CoordinatorNext ==
    \/ \E p \in Process : (\E t \in Ticket : Begin(p, t)) \/ Step(p) \/ Crash(p)
    \/ Environment

CoordinatorSpec == CoordinatorInit /\ [][CoordinatorNext]_coordinatorVars

(* A process that is running gets on with its execution. *)
FairCoordinatorSpec ==
    CoordinatorSpec /\ \A p \in Process : WF_coordinatorVars(Step(p))

-----------------------------------------------------------------------------
(* Properties. *)

(* Every variable holds a value of its type, in the authorities too. *)
CoordinatorTypeOK ==
    /\ Ledger!TypeOK
    /\ Store!ApprovalTypeOK
    /\ pc \in [Process -> Places]
    /\ job \in [Process -> Job]
    /\ intents \in [Process -> SUBSET Intent]
    /\ sent \in Seq(Sending)
    /\ audit \subseteq AuditRecord

SentFor(n) == rows[sent[n].row]

(* A request for an intent leaves a second time only when the ledger holds *)
(* a settled, retryable record of the first; and when the provider carried *)
(* the first one out, that record is an observation that its post-state    *)
(* was not reached.  What happened at the boundary is never guessed, by    *)
(* whichever process crashed or lost a write on the way.                   *)
AmbiguityIsNeverRepeated ==
    \A m, n \in DOMAIN sent :
        m < n /\ SentFor(m).intent_key = SentFor(n).intent_key =>
            /\ Ledger!PermitsReexecution(SentFor(m))
            /\ sent[m].acted =>
                  SentFor(m).reexecution_class = "post_state_not_reached"

(* Every request that left was claimed, marked and paid for before: its    *)
(* approval is spent, at the revision its reservation captured, and an     *)
(* approval pays for one request.                                          *)
DispatchIsAuthorized ==
    \A n \in DOMAIN sent :
        /\ SentFor(n).state # "reserved"
        /\ tickets[SentFor(n).ticket_id].status = "consumed"
        /\ tickets[SentFor(n).ticket_id].revision = SentFor(n).ticket_revision + 1
        /\ \A m \in DOMAIN sent :
              SentFor(m).ticket_id = SentFor(n).ticket_id => m = n

Audited(stage, r) ==
    \E a \in audit :
        a.stage = stage /\ a.process = r.worker_id /\ a.ticket = r.ticket_id

(* The ledger settles nothing the audit trail cannot account for: a        *)
(* settled row has its PRE, ATTEMPT and RESULT records.                    *)
SettlementIsAudited ==
    \A n \in DOMAIN rows :
        rows[n].state \in Ledger!TerminalStates =>
            \A stage \in {"pre", "attempt", "result"} : Audited(stage, rows[n])

(* An execution reports no outcome the ledger does not corroborate.        *)
PostIsCorroborated ==
    \A a \in audit :
        a.stage = "post" /\ a.outcome # "unknown" =>
            \E n \in DOMAIN rows :
                /\ rows[n].worker_id = a.process /\ rows[n].ticket_id = a.ticket
                /\ rows[n].state = "resolved" /\ rows[n].outcome = a.outcome

(* An approval that was spent is accounted for: unless a process crashes   *)
(* or a durable write fails, its execution settles.                        *)
SpentApprovalsSettle ==
    \A t \in Ticket :
        tickets[t].status = "consumed" ~>
            \E n \in DOMAIN rows :
                rows[n].ticket_id = t /\ rows[n].state \in Ledger!TerminalStates

(* "The row stays ATTEMPTED in that case, which is precisely the open      *)
(* transaction an operator must be able to find" (execution.py,            *)
(* _record_execution_outcome, of an outcome it could not record).          *)
UnrecordedOutcomeStaysOpen ==
    \A p \in Process :
        pc[p] = "post" /\ ~job[p].recorded => RowOf(p).state = "attempted"
-----------------------------------------------------------------------------
(* The inductive invariant behind the properties above: what the place an  *)
(* execution has reached says about the ledger, the store and the trail.   *)

Running == Places \ {"idle", "dead"}
Unmarked == {"consume", "consuming", "mark", "marking"}
Marked == {"handle", "sent", "attempt", "result", "record", "recording"}
Claimed == Unmarked \cup Marked \cup {"post"}

(* An execution works on a row of its own, under the ticket it was begun   *)
(* with, and the row is as far as the execution is.  What the ledger       *)
(* acknowledged is in the row.                                             *)
RowFollows(p) ==
    /\ pc[p] \in Running => job[p].ticket \in Ticket
    /\ pc[p] \in Claimed =>
          /\ job[p].row \in DOMAIN rows
          /\ RowOf(p).worker_id = p
          /\ RowOf(p).ticket_id = job[p].ticket
    /\ pc[p] \in Unmarked => RowOf(p).state = "reserved"
    /\ pc[p] \in Marked => RowOf(p).state = "attempted"
    /\ job[p].recorded =>
          /\ pc[p] = "post"
          /\ RowOf(p).state \in Ledger!TerminalStates
          /\ RowOf(p).outcome = job[p].verdict.outcome

(* What a process holds of a transaction of the ledger or of the store is  *)
(* the move that its execution is making.                                  *)
TransactionsFollow(p) ==
    /\ pc[p] \notin {"marking", "recording"} => Ledger!Idle(p)
    /\ pc[p] \in {"marking", "recording"} => call[p].row = job[p].row
    /\ pc[p] = "marking" =>
          call[p].state = "attempted" /\ call[p].reexecution_class = Ledger!None
    /\ pc[p] = "recording" =>
          /\ call[p].state \in Ledger!TerminalStates
          /\ call[p].outcome = job[p].verdict.outcome
          /\ call[p].reexecution_class = job[p].verdict.class
    /\ pc[p] # "consuming" => ~Store!Waiting(p)
    /\ pc[p] = "consuming" =>
          /\ request[p].ticket_id = job[p].ticket
          /\ request[p].status = "consumed"
          /\ request[p].read.revision = ReservedRevision(p)

(* The approval of a row was spent at the revision the row is bound to. *)
Paid(r) ==
    /\ tickets[r.ticket_id].status = "consumed"
    /\ tickets[r.ticket_id].revision = r.ticket_revision + 1

(* The bases that may be recorded of a request the provider carried out. *)
EffectClasses == {"effect_achieved", "post_state_not_reached",
                  "post_state_unreachable", "outcome_unknown"}

(* The approval is spent before the row is marked, the row is marked       *)
(* before a request leaves for it, one request leaves, and of one that was *)
(* carried out an execution never holds evidence that it was not.          *)
EffectsFollow(p) ==
    /\ pc[p] \in {"mark", "marking"} => Paid(RowOf(p))
    /\ pc[p] = "handle" => \A n \in DOMAIN sent : sent[n].row # job[p].row
    /\ pc[p] \in {"attempt", "result"} /\ Acted(job[p].row) =>
          job[p].evidence \in {"accepted", "unknown"}
    /\ pc[p] \in {"record", "recording"} /\ Acted(job[p].row) =>
          job[p].verdict.class \in EffectClasses

HasAudited(p, stage) ==
    \E a \in audit :
        a.stage = stage /\ a.process = p /\ a.ticket = job[p].ticket

(* An execution has written the records of the stages it has passed. *)
TrailFollows(p) ==
    /\ pc[p] \in {"capture", "reserve"} \cup Claimed => HasAudited(p, "pre")
    /\ pc[p] \in {"result", "record", "recording", "post"} =>
          HasAudited(p, "attempt")
    /\ pc[p] \in {"record", "recording", "post"} => HasAudited(p, "result")

ExecutionInv(p) ==
    RowFollows(p) /\ TransactionsFollow(p) /\ EffectsFollow(p) /\ TrailFollows(p)

(* A row claims the intent its ticket approves, and is paid for by then. *)
ClaimsArePaid ==
    \A n \in DOMAIN rows :
        /\ rows[n].intent_key = IntentOf[rows[n].ticket_id]
        /\ rows[n].state # "reserved" => Paid(rows[n])

(* Each request belongs to a marked row of its own, the requests of an     *)
(* intent left in the order in which the intent was claimed, and no row    *)
(* records of a request that was carried out that it was not.              *)
RequestsFollowClaims ==
    /\ \A n \in DOMAIN sent :
          /\ sent[n].row \in DOMAIN rows
          /\ SentFor(n).state # "reserved"
          /\ sent[n].acted =>
                SentFor(n).reexecution_class \in EffectClasses \cup {Ledger!None}
    /\ \A m, n \in DOMAIN sent :
          m < n =>
              /\ sent[m].row # sent[n].row
              /\ SentFor(m).intent_key = SentFor(n).intent_key =>
                    sent[m].row < sent[n].row

CoordinatorInv ==
    /\ CoordinatorTypeOK
    /\ Ledger!LedgerInv
    /\ Store!ApprovalInv
    /\ \A p \in Process : ExecutionInv(p)
    /\ ClaimsArePaid
    /\ RequestsFollowClaims
    /\ SettlementIsAudited
    /\ PostIsCorroborated
=============================================================================
