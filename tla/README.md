# Semantic Workspace Steward: a TLA+ development

This directory holds TLA+ specifications of the program in `src/`, the TLC
configurations that check them, and TLAPS proofs of their main results. The
program inventories a cloud account, decides what could be done about each
resource, and — behind a human approval — may stop one EC2 instance. Reading is
harmless; the mutation path is what has to be right, so that is what is
modelled first.

## The system

| component | source (`src/src/sws_agent/` unless said) | state it keeps | operations | what makes it correct |
|---|---|---|---|---|
| execution ledger | `execution_ledger.py` | one SQLite row per (intent, ticket): state, revision, outcome, basis, predecessor | `reserve`, `mark_attempted`, `record_outcome`, `verify`, `verify_lineage`, opening and migration | one blocking row per intent, rows follow the table, one chain of reattempts |
| approval store | `approval_ledger.py` (durable), `approval.py` (table, in-memory store) | one row per ticket, its event history, the nonces of signed grants | `create_ticket`, `grant`, `deny`, `expire`, `revoke`, `consume`, `get`, opening and migration | no transition is lost, an artifact grants once, decisions are made inside the window |
| execution coordinator | `execution.py` | per process: plans attempted and intents seen | `execute`: gates, audit records, reserve, consume, mark, dispatch, settle, verify, classify, record | what may have acted is never repeated; a dispatch is authorized; nothing is claimed that the ledger does not say |
| classification, verification | `execution.py`, `verification.py` | none | `verify`, `classify_dispatch` | "no effect" is said only of a call that was not made |
| settlement loop | `execution.py` | counters of one call | `_settle` | it ends, and a retry rests on a recent observation |
| EC2 stop handler, client, witness | `ec2_mutation.py`, `ec2_mutation_client.py`, `mutation_evidence.py` | calls made; SDK attempts witnessed | `handle`, `arm`, `assert_single_dispatch` | one HTTP request for one call |
| EC2 observation | `ec2_observation.py` | none | `observe` | one instance, the one AWS returned, or nothing |
| live stop | `src/src/sws_live/` | the locals of one run; the two stores are shared | `prepare`, `execute`, exit codes | one request per artifact, and an exit code that can be trusted |
| approval signature | `approval_signature.py`, `src/scripts/approver/` | none | sign, verify an artifact, rebuild it from a row | nothing the approver did not sign is executed |
| audit store | `audit.py` | an append-only JSONL file under a lock, a handle per process | open, `write`, `records`, `close` | what was acknowledged is there, under an identifier of its own |
| reconciliation | `reconciliation.py`, `cloudtrail_reader.py` | none | `reconcile_dispatch`, `read_stop_events` | a retry is licensed only where nothing was sent; a confirmation excludes others |
| preflight | `preflight.py` | none | checks that all must pass | – (composed by tests only) |
| policy, authorization, planning | `policy.py`, `authorization.py`, `workflow.py`, `canonical.py` | none | decisions and plans from a snapshot | no absence is concluded from an incomplete snapshot |
| inventory, workspace | `inventory.py`, `workspace.py`, `relationships.py`, `trace.py`, `aws.py` | a trace | paged read-only collection | what was left out is flagged |
| MCP server | `mcp/server.py`, `mcp/endpoint_auth.py` | an audit file and an approval store | nine tools, each a result and its records | answers and records agree |
| cost, explanation, simulator, harness | `cost_explorer.py`, `bedrock_explanation.py`, `simulator/`, `agentcore_harness.py` | a conversation | chat and figures over the components above | – |

How they interact: the coordinator reads the approval store, claims the intent
in the execution ledger, spends the approval, marks the claim, calls the
handler once, polls the observer, and records the classified outcome in the
ledger; before, between and after it appends audit records. The two stores are
SQLite files that several processes share; every operation opens its own
connection, so each operation is one or more transactions and other processes
run between them. The coordinator is not atomic at all: it may crash between
any two calls, and most of its calls can fail. `sws_live` composes one
coordinator per invocation from the same stores, a client that it insists is
free of retries, a witness on that client, and the verifier of signed
approvals; a human later compares the witness with CloudTrail. The MCP server
is the other composition: its tools collect, recommend and decide tickets, and
append what they did to one audit file that several servers may share.

What is hard:

* several processes race on the same intent, the same ticket, the same signed
  artifact;
* a transition reads a row in one connection and writes it in another;
* deadlines pass, and wall clocks step back, between a gate and a commit;
* a crash or a failing write leaves an execution half done, and a restarted
  process must neither repeat an effect nor claim one;
* the call to EC2 may be lost, refused, accepted or unknown, and whether it may
  be repeated depends on which;
* the guarantee of one request is spread over a signature, a ticket, a licence
  and the retry mode of an SDK, none of which is enough alone;
* CloudTrail may be late, incomplete, or show somebody else's stop;
* an append may be cut short or its sync fail, and what a handle buffers
  reaches the file later than the call that failed.

`PROJECT.json` lists each of these at its line, with the properties for it.

## The modules

| module | models | built on |
|---|---|---|
| `EffectLicense` | what the ledger promises: at most one party at a time may be acting on an intent, and only evidence of no effect gives the license back | – |
| `ExecutionLedger` | `execution_ledger.py` | `EffectLicense` by refinement |
| `ApprovalStore` | `approval_ledger.py` with the table and the artifact checks of `approval.py` | – |
| `DispatchClassification` | `verify`, `classify_dispatch`, the STOP_RESOURCE contract, as operators | – |
| `ExecutionCoordinator` | `execute`, over the transactions of the two stores | `DispatchClassification`, and `ExecutionLedger` and `ApprovalStore` by `INSTANCE` |
| `Settlement` | `_settle` | `DispatchClassification` |
| `SchemaOpening` | `__init__`, `_initialize`, `_adopt_existing` and the migrations of both ledgers | – |
| `ExecutionGate` | `_gate` and `_preflight_gate`, as operators: every check before the claim, in order | – |
| `ApprovalSignature` | `approval_signature.py`: what is signed, what a grant keeps, what is verified again | – |
| `Ec2Observation` | `observe`, as an operator on the pages of an answer | – |
| `MutationClient` | retry configurations, the witness, the IAM policy validator, the preflight, as operators | – |
| `Reconciliation` | the CloudTrail reader and the verdict, as operators | – |
| `LiveStop` | `prepare`, `execute` and what an operator is told afterwards | the five above, `DispatchClassification`, and `EffectLicense` by `INSTANCE` |
| `Governance` | the rules of the policy engine, the authorizer, planning, as operators | – |
| `WorkspaceCollection` | the three collectors and the flags of a snapshot, as operators | `Governance` |
| `AuditLedger` | `audit.py`, step by step, for several processes | – |
| `McpBackend` | the tools of the MCP server over one audit file | `AuditLedger`, `WorkspaceCollection` |
| `ExecutionLedgerProofs`, `ApprovalStoreProofs`, `ExecutionCoordinatorProofs`, `SchemaOpeningProofs`, `SettlementProofs`, `LiveStopProofs`, `WorkspaceCollectionProofs`, `McpBackendProofs` | theorems | the module each names |
| `MC...` | values of the constants and symmetry for TLC | the module each names |

### ExecutionLedger

`rows` is the table `execution_reservation`; a row is a record with the
columns that the code's decisions read. `reserve` is one `BEGIN IMMEDIATE`
transaction, so it is one action; `mark_attempted` and `record_outcome` go
through `_transition`, which reads on one connection and writes on another, so
each is a `Gate` that remembers the revision it read (in `call`) and a `Commit`
that compares and swaps. `now` is the wall clock of `updated_at`: the gate
reads it, each commit takes time, and when `ClockMayStepBack` it may go back. A crash is the
loss of a caller's `call`. `reserve` checks the predecessor it chose once more
(`_verify_supersession`), which cannot refuse a row that the same transaction
selected, and reads the clock just before that transaction; both are one step
here.

### ApprovalStore

`tickets`, `events` and `nonces` are the three tables. A transition is three
actions: the gate (`Grant`, `Deny`, ...: the read and the table lookup; a ticket
that is due is expired by `RecordDueExpiry` in a transaction of its own, as
every `get` does too), `Stamp` (the second reading of the clock, which dates the
decision and against which an artifact's window is checked), and `Commit`, which
compares the revision, writes the row, appends the event and, for a signed
grant, inserts the nonce. Time may pass, and other clients run, between any two.

### SchemaOpening

Several processes run `__init__` on one path. `file` is the committed content
(version, how many of the new columns are there, where the basis of a settled
row came from) and `disk` what a reader of the bare file would see: nothing yet,
a first commit under way, or one that a crash cut short. The two ledgers share
the creating and adopting code and differ in the migration: one transaction
that reads the version again under the lock (`MigrateUnderLock`), or one
statement at a time (`AddColumn`, `SetVersion`).

### ExecutionCoordinator

A process is one thread of control running `execute` on one intent under one
ticket at a time; `job` holds its local variables and `job.at` the place in
`execute`. There is one action per call on a store, an audit log or the
handler, and one for each way that call can fail. A crash drops the local
variables, the process then may begin again. `acted` is the truth about EC2:
the executions whose request may have acted. What the handler reports is taken as
truthful: a call it calls not dispatched or rejected has not acted and one it
calls accepted has, and of an unknown one either may be true (`Answers`); that
is an assumption about `ec2_mutation.py` and the SDK beneath it. The ticket-granting side is
reduced to what `execute` can see of it: granted tickets that are revoked or
run out. Plan identifiers (`_attempted`, a per-process set) are folded into the
intents: a second `execute` of one plan in one process is refused by that set,
the model leaves the refusal to the ledger, which allows more.

### DispatchClassification and Settlement

Operators over the labels that the STOP_RESOURCE contract distinguishes; error
codes with the same entry in the contract are one value. `Settlement` runs the
loop of `_settle` against an instance that moves by its own lifecycle, an
observer that fails at will, and a clock that advances by the sleep or not at
all.

### LiveStop and the operators it runs

A `Run` is one invocation of `sws-live execute`; `pc` is the step of
`execute_live_stop` (and of the coordinator's `execute` inside it) that it
takes next and `job` its locals. Unlike in `ExecutionCoordinator`, whose
subject is the interleaving with the two stores, every gate is evaluated here:
`EarlyChecks` and `Composable` before anything durable is touched, `Gate` on
the request that `_build_request` makes, with `VerifyApproval` on the artifact
that is rebuilt from the ticket's columns, the observation, and
`PreflightGate` at a later moment of the clock. `Artifacts` is what may come
back from the approver's desk: the artifact asked for, one by another key or
for another host, resource or intent, one that was changed after it was signed,
one with a field missing. The approver dates an artifact when signing it, at any
moment of a workstation that may be ahead of the host or up to `MaxLag` behind
it (`Issuable`). A signature is a record of who signed what. The
stores appear as what they promise: a ticket changes in one step, and an intent
has one licence (`EffectLicense`, which `ExecutionLedger` implements).

`sent` is the truth: what each run handed to the sender, how often, and whether
AWS received it. The number of attempts comes from the retry configuration the
client was accepted with. A run ends with an exit code, which is 1 where Python ends a
process for an exception that `main` does not catch (`inconclusive` has the same
number); a process that dies has none, and keeps neither its locals nor its
witness. `Reports` is every verdict
that `reconcile_dispatch` may give of a run, over every part of the trail that
CloudTrail may have delivered and every window the operator may state.

`MutationClient` also states the preflight and the IAM policy validator. Nothing
in `src/` calls the preflight but its tests, so no action does.

### AuditLedger and McpBackend

The file is a sequence of chunks: a line, or the part of one that a cut-short
append wrote. `write()` is five steps (acquire the lock, refresh, append, sync,
release) of which the middle three may fail; what an append could not write
stays in the handle's buffer and reaches the file at the next seek of that
handle or when it closes, which needs no lock. A power cut drops what was not
synced. `Shape` says whether a payload holds a character at which Python's
`splitlines()` breaks a line although JSON does not escape it.

`McpBackend` adds the tools: a call does its work, owes a number of records,
writes them one by one and answers only when all were accepted. Of a record
matters which ticket it speaks of and what it says of it. A ticket is requested
and decided here; that it may also expire, be revoked or be consumed is
`ApprovalStore`'s. Of a snapshot are left out the removal of duplicates by
`canonicalize_resources` (a record is a place, and no place is read twice) and
failures of cost queries, which set `partial` too. A collection is
computed by `WorkspaceCollection` from what the account holds: the items of each
region and where its pages end, the item or page at which a limit falls, reads
that fail, tags that cannot be read. A record is its place and its item, so the
records are a set; the loop over the regions is a recursive function.

## The runs

| run | question | bounds |
|---|---|---|
| `ledger` | three callers, two of which share a worker id, one intent under three tickets: exclusive claims, the two self-checks, the chain of reattempts, the action property and the refinement of `EffectLicense` | each ticket is one execution, so rows are bounded by intents x tickets |
| `ledger_clock` | two intents that share their tickets, and a clock that steps back: the inductive invariant of the proofs | one caller, two tickets |
| `approval_store` | two clients race every transition on two tickets, with one artifact that fits either | `MaxClock` 3: every deadline can pass |
| `approval_clock` | one ticket, a clock that steps back: decisions are made on the row that was seen inside its window | `MaxClock` 4 |
| `coordinator` | two processes, one intent, two approvals, crashes and failing writes anywhere | `MaxClock` 2 |
| `coordinator_progress` | without crashes and failing writes every spent approval ends in a settled execution | as above, no faults |
| `coordinator_unrecorded` | expected violation: an execution reported as open is settled in the ledger, because the read-back failed after the commit | one process |
| `settlement` | one settlement: the loop's bounds, what a retry rests on, and its end | deadline 19, interval 3: six polls, two tolerated errors |
| `schema_opening` | three processes open a file of either ledger, new, old, current or foreign, and stop anywhere | two added columns, two looks at an empty file |
| `schema_partial_migration` | expected violation: a crash leaves the approval ledger half upgraded | |
| `live_stop` | two invocations over two tickets for one intent, bad artifacts, a retrying client, a clock that steps back, failing stores, crashes, and every reconciliation afterwards | `MaxClock` 2, `MaxOther` 1: deadlines pass, and somebody else may stop the target; both an approver and an operator may decide; `MaxLag` 0: an artifact is dated by the host's time of `prepare` |
| `mcp_backend` | two servers over one audit file: cut-short appends, failing syncs, a stop, a power cut, colliding identifiers; limits and failing reads in a collection | one call of each server (of up to three records), one fault and one stop; two identifiers, so that they collide |

`SchemaOpening` takes lock waits to be shorter than SQLite's busy timeout, which
is orders of magnitude above the time a migration holds the lock; an opener
that does time out raises and changes nothing.

Why the bounds are enough: the ledger and the store decide per row, from that
row and from the rows of the same intent or the same nonce; two of everything
(three workers where one may be slow while two race) give every pair of
conflicting transactions, and the theorems below drop the bounds. The
coordinator was also run once with three processes (705,000 states), with the
same verdicts. In the settlement six polls leave room for two runs of errors
longer and shorter than the tolerance, separated by a usable observation. In
`live_stop` the two tickets are for one
intent and each run may present either artifact, so two runs compete for a
ticket, for the licence, or for neither; a third would compete for the same
three things. An artifact is dated by the host's time there (`MaxLag` 0), which
the clock that steps back already puts before and after every observation; the
theorem about `RequestsRestOnALaterLook` holds for any lag. In `mcp_backend` a call owes up to three records, so one worker's
append can fall between two of the other's, and two identifiers are enough for
a collision within a call and between calls; payloads are plain there, and the theorems cover the broken
ones.

### Fairness

`EffectLicense`, `ExecutionLedger` and `ApprovalStore` state no fairness: a
client may stop anywhere. `FairOpenSpec` assumes that a process that opens a
file goes on until it crashes: it waits only for SQLite's lock, which a crashed
holder releases, and for a fixed number of retries. `FairCoordinatorSpec` assumes that a process which
has begun an `execute` goes on taking steps (weak fairness of each process's
own step): it is sequential code whose calls return, because SQLite's busy
timeout, the SDK's timeouts and the settlement deadline bound them. It is used
only in a run without crashes and without failing writes. `FairSettleSpec`
assumes that the loop goes on; nothing is assumed of the clock, the instance or
the observer. `FairBackendSpec` assumes of each worker that it goes on with a
call it has begun and with the write inside it: the lock is released on every
path of `write`, and by the system when a process stops, so weak fairness is
enough once calls are bounded. `LiveStop` states none: an invocation may be
killed anywhere, and its properties are about what is true whenever it stops.

## What is proved

`ExecutionLedgerProofs` proves, for any sets of intents, tickets, workers and
any clock:

* `LedgerInvariant`: the inductive invariant. The safety invariants are not
  inductive alone: that no two rows of an intent block it needs to know that a
  pending commit can only move the row it read, which needs the revisions, which
  need the transition table. `LedgerInv` conjoins the types, the shape of a row
  in each state, the bounds on pending requests and the blocking invariant.
* `OneClaimPerIntent`, `OneExecutionPerTicket`: the uniqueness results.
* `VerifyNeverRefuses`, `LineageIsSound`: the two self-checks of the file accept
  whatever the operations wrote.
* `LineageIsAChain`: while the clock is not set back, each reattempt names the
  execution just before it. It needs more than the invariant above:
  `OnlyTheLastBlocks` (every row of an intent but the last permits the next) and
  `TimeFollowsTheTable` (`updated_at` orders the rows of an intent as the table
  does, which a transition that is still in flight could undo if its moment were
  older than the row it replaces). `LineageInv` conjoins them.
* `SettledRowsAreFinal`, `RowsFollowTheTable`: action properties.
* `LedgerImplementsLicense`: every behaviour of the ledger is one of
  `EffectLicense` under the mapping stated in `ExecutionLedger`.

`ApprovalStoreProofs` proves, for any tickets, clients, nonces, windows and any
clock that never shows 0:

* `ApprovalInvariant`: the inductive invariant. Completeness of the history and
  the binding of nonces need to know that a commit writes the successor of the
  row that is there; `RequestsAreGated` says what a client's read is still worth
  when its revision matches, and `UndecidedIsBlank` that a ticket can be granted
  only once.
* `HistoryIsAlwaysComplete`, `ArtifactsGrantOnce`, `WindowsAreBounded`: what
  `verify()` demands, one grant per artifact, no window beyond the ceiling.
* `TicketsAlwaysFollowTheTable`, `DecidersAlwaysSawAnOpenWindow`: action
  properties, from one lemma that says every change of a ticket is a `Move`.

`ExecutionCoordinatorProofs` proves, for any number of processes, intents and
approvals, any deadlines, with crashes and failing writes:

* `CoordinatorInvariant`: the inductive invariant. It conjoins the invariants of
  the two stores, what the place of each execution says about its row, its
  approval, the transactions it has open, the requests that left and the audit
  trail (`ExecutionInv`), and what holds across executions: a row that was marked
  is paid for (`ClaimsArePaid`), and the requests of an intent left in the order
  in which it was claimed, none for a row that records that nothing was done
  (`RequestsFollowClaims`). What the stores guarantee is not proved again: the
  theorems of `ExecutionLedgerProofs` and `ApprovalStoreProofs` are instantiated
  with the coordinator's constants, and every step of an execution is shown to be
  one of theirs or to leave their tables alone. A step writes no row but its own,
  unspends no approval and takes nothing from the audit trail, so all other
  executions keep their invariant (`OthersKeepTheirs`); what is left is one lemma
  for each action about its own execution.
* `CoordinatorTypeCorrect`, `AmbiguousEffectsAreNeverRepeated`,
  `EveryDispatchIsAuthorized`, `SettlementsAreAudited`, `ReportsAreCorroborated`:
  every invariant of the run `coordinator`.
* `CoordinatorRespectsTheLedger`: every behaviour of the coordinators is a
  behaviour of `ExecutionLedger`, whichever calls crash or fail. From it and the
  ledger's theorems follow, without a look at the coordinator,
  `ExecutionsHoldTheLicense` (the coordinators implement `EffectLicense`) and
  `SettledClaimsStay`.
* `CoordinatorRespectsTheStore`: the same of the approval store, which is in use
  when the first execution starts: it opens with granted tickets, so the theorem
  is about `ResumedSpec`, the steps of `ApprovalStore` from any state its
  invariant allows. The store's action properties and invariants are proved of
  that specification, and a new store is one case of it. From it follow
  `ApprovalsFollowTheTable`, `SpendersSawAnOpenWindow` and
  `ApprovalHistoriesAreComplete`, for a redemption and a revocation that race as
  for any other two calls.

`SchemaOpeningProofs` proves, for any number of processes, columns and retries:

* `OpenInvariant`: the inductive invariant: the first commit has the file to
  itself, the columns match the version, and each place of `__init__` knows what
  it may assume of the file.
* `OpenersRunOnCurrentLayout`, `ExecutionLedgerAlwaysOpens`,
  `RecordedBasisIsAlwaysKept`.

`SettlementProofs` proves, for every interval, deadline and tolerance:

* `NoEffectNeedsNoDispatch`: the classifier says that nothing happened only of a
  call that was not made.
* `SettleInvariant`: the loop's counters describe the record of its polls, and
  it goes on only while nothing conclusive was seen.
* `RetriesRestOnRecentContradictions`, `ConclusiveStatesDecide`,
  `InconclusiveMeansSilent`: the three safety properties of the run
  `settlement`, from the lemma that the last poll that saw anything is `errors`
  polls back.

`LiveStopProofs` proves, for any number of runs, tickets, intents and deciders,
any windows and any clock:

* `LiveInvariant`: the inductive invariant. That one request leaves per ticket
  needs to know who spent it: a run is past `consume` only by turning a granted
  ticket into a consumed one, a decided ticket keeps the artifact that granted
  it (`RowOK`), and a run works from an artifact that verifies and with a client
  that permits one attempt (`LocalsOK`). What the gate found of a ticket stays
  true of it (`Keeps`), which carries the approval from the gate to the request.
* `OneRequestPerArtifactAlways`, `GrantedArtifactsVerifyAlways`,
  `DispatchIsApprovedAlways`, `ExitCodesAreHonestAlways`,
  `ReportedRunsSentOnceAlways`: what an execution may rest on and what it says.
* `RequestsRestOnALaterLookAlways`: from the clauses of `LocalsOK` that tie the
  look at the instance to the approval in the ticket: a run keeps the look that
  passed the gate, and the ticket it spends keeps the artifact, whoever granted it.
* `LicensedRetryIsSafeAlways`, `ConfirmationIsSoundAlways`: of every report, from
  what `Reconcile` can mean (`OutcomesMean`) and the count of the witness.

`McpBackendProofs` proves, for any number of servers, identifiers, faults and
stops, and payloads of either shape:

* `BackendInvariant`: the inductive invariant: who is past the acquisition holds
  the lock, every accepted record is whole in the synced part of the file, and an
  identifier that passed the duplicate check stays new until its record is
  accepted, whatever other handles flush meanwhile.
* `AnswersAndRecordsAgreeAlways`, `AcceptedIdsAreUniqueAlways`.
* `SnapshotsDoNotOverclaimAlways`: of every collection, from the lemmas of
  `WorkspaceCollectionProofs`, for every limit and any regions, pages, items and
  failing reads: a drain that is not truncated mapped all that its region lists
  (`NothingIsLeft`); a loop that neither raised nor left anything holds what the
  regions read hold, and stopped early only at the limit (`LoopIsSound`); a list
  of buckets is cut where the limit is met exactly (`TheLimitIsMetExactly`). The
  induction over the regions is a least counterexample, so it needs no induction
  theorem with a predicate for a parameter; that the recursive function of the
  loop exists is `LoopExists`, by the same argument.

The assumptions are those named in the modules: ranges of the constants, that
"none" is neither a ticket, a nonce nor a worker, that the operator is no
process, that every caller has a worker id, that every ticket approves one
intent, and for collections the shape of a request and of what an account can
list (`IsRequest`, `IsAccount`: a limit is at least 1, as `normalize_limit` sees
to; a region answers with at least one page). TLC evaluates each of them on the
instances of the runs. The inductive invariants of the ledger and of the opening
are also invariants of runs (`ledger_clock`, `schema_opening`); those of the
lineage, the coordinator, the settlement, the live path and the backend were
checked by TLC on the instances of their runs before they were proved.

Every invariant and every action property of the passing runs is thereby a
theorem. Only model-checked is what is about liveness, which the prover cannot
treat under fairness: `SpentApprovalsSettle`, `SettlingEnds`, `OpeningEnds`,
`EveryCallIsAnswered`. What the two runs with an expected violation show is a
behaviour, which only TLC exhibits.

## What the code does that a reader may not expect

Two disagreements between the code and its documentation are runs of their own
(`coordinator_unrecorded`, `schema_partial_migration`). The models also follow
the code in these points, the first and the one about failing tool calls against
what is written:

* Approval store. `approval.py:15` says that a granted ticket expires "only once
  the execution deadline has passed", and lines 104-106 that "a caller cannot
  force it at an arbitrary time". `expire()` (`approval_ledger.py:594`) looks at
  the table alone, so any caller can, and `Expire` does.
  `TicketsFollowTheTable` says what is left: an expiry that no client asked for
  is due.

* Live path. A store that fails while `execute` reads, reserves or spends is
  reported as a refusal (exit code 2), although `cli.py:24-27` promises 3 for
  runtime errors; `FaultExits` has both. A redemption that was gated in time may
  commit after its deadline (`approval_ledger.py:1117` gates, `:1276` commits).
  ADR 0006 (lines 201 and 213) wants the instance's state, its ownership tag and a
  dry run looked at again before the dispatch; no gate of the code looks at the
  observed state or at a tag, and so none here does. Nor is the time between the
  freshness gate and the request bounded: `RequestsRestOnALaterLook` says how old
  a look may be when the gate compares it, and that it came after the approval.
  Each of these times is what the clock in question showed, not when it was.
* Reconciliation. Attribution is by the session of the host, so a run of the
  same host under another intent can account for an event of the window: a run
  whose own request never arrived may be confirmed by the other's.
  `ConfirmationIsSound` therefore speaks of the host's identity, not of the
  run's. With the real reader, which filters by the same window, the branch for
  stray events (`reconciliation.py:379-384`) is never taken.
* Client. The settings accept no `aws-us-gov` ARN, `parse_instance_arn` does.
  `sign_live_stop_approval.py init --force` still cannot overwrite a key: the
  file is opened with `O_EXCL`.
* Verification. With every fact missing `verify` says `PARTIALLY_VERIFIED`
  (`verification.py:138`), which an accepted dispatch turns into an effect
  achieved; `StateMayBeMissing` turns this case on.
* Audit store. An append that raised may still reach the file, at the next seek
  of the same handle or when it closes, which takes no lock. A record that lacks
  only its newline is accepted by the next refresh, and the next append is
  joined to it. A payload with U+2028, U+2029 or U+0085 makes the file
  unreadable for good, for `_refresh` splits lines there. `audit.py:14-16` says
  that a duplicate `record_id` raises also when the file is opened again;
  `_refresh` (`audit.py:323`) takes a duplicate that is already in the file
  silently, and the last one wins. `AcceptedIdsAreUnique` is therefore about the
  records of calls that answered.
* MCP server. `audit_workspace` may fail after its RUN and SNAPSHOT records were
  written (`mcp/server.py:302-313`), although `audit.py:38-39` says that no audit
  write happens at all if a tool call itself fails; `CollectWorkspace` has such calls.
  `AnswersAndRecordsAgree` is about the calls that answered, and about tickets.
  A ticket that was decided while its record could not be written is reported as
  an error and stays decided, and a ticket that expires on a read writes no
  record.
* Collection. A collector that reaches its limit at the end of a region stops
  without reading the regions after it, and does not set `truncated`
  (`inventory.py:368`). `SnapshotsDoNotOverclaim` allows a region to be left out
  of a complete snapshot in this case and in no other. A list of buckets that is
  longer than the limit only by buckets without a name is called truncated
  (`inventory.py:268`) although nothing that could be recorded was left.

## What is not modelled

Parsing, formatting and logging; the harness configuration, which is built
without state; cost estimates; model calls and their prompts, whose failure is
a null result; the simulator, a chat front end over the MCP tools; the in-memory
approval store, which has the durable one's table and nothing to race with; the
bearer token of the MCP endpoint and its transport (the SDK may run two tools of
one server in two threads, which then share a handle; a worker here runs one
call at a time); relationships between resources, the region of a bucket, and
the fields that no rule reads; the cryptography behind an approval signature and
the files it keeps its keys in. An account does not change during one
collection. SQLite itself is taken at its word: a write transaction is atomic
and durable, and write transactions are serial. The audit file is on a POSIX
system, where what one call appends with `O_APPEND` is contiguous.

## Plan

In order: an abstract authority that `ApprovalStore` implements, as `EffectLicense`
is for the ledger; `LiveStop` as a refinement of the specifications of the two
stores instead of their promises; the in-memory approval store as another
implementation of the same transitions; two threads of one MCP server on one
handle; a collection of an account that changes while it is read.
