--------------------------- MODULE LiveStopProofs ---------------------------
(***************************************************************************)
(* Theorems about LiveStop, for any number of runs, tickets, intents and   *)
(* deciders, any windows and any clock.                                    *)
(*                                                                         *)
(* The argument: an artifact that passed the early checks names the ticket *)
(* it is presented for, and verifies; a decided ticket keeps the artifact  *)
(* that granted it, so what the gate found of a ticket stays true of it.   *)
(* A run is past `consume` only by making a granted ticket a consumed one, *)
(* and no other run can have consumed that ticket before or after; and a   *)
(* run hands the sender one request, for the client it was composed with   *)
(* permits one attempt.                                                    *)
(***************************************************************************)
EXTENDS LiveStop, FiniteSetTheorems, SequenceTheorems, TLAPS

-----------------------------------------------------------------------------
(* Shapes.  A row, the locals of a run, an artifact and its fields are     *)
(* records of exactly these fields, whatever they hold.                    *)

FieldsLike(f) ==
    f = [ticket |-> f.ticket, resource |-> f.resource, action |-> f.action,
         plan |-> f.plan, intent |-> f.intent, deadline |-> f.deadline,
         executor |-> f.executor, account |-> f.account, nonce |-> f.nonce,
         issued |-> f.issued, signer |-> f.signer]

SignedLike(a) == a = [fields |-> a.fields, signature |-> a.signature]

RowLike(row) ==
    DOMAIN row = {"status", "intent", "plan", "prepared", "signed", "decider"}

JobLike(j) ==
    DOMAIN j = {"signed", "retries", "activity", "observation", "calls", "evidence",
                "outcome", "armed", "look"}

Requests == [ticket : Ticket, reached : BOOLEAN, time : 0 .. MaxClock]

-----------------------------------------------------------------------------
(* The invariant: of artifacts and tickets. *)

(* What EarlyChecks leave of an artifact, and a decision keeps. *)
Vetted(signed) ==
    /\ SignedLike(signed) /\ FieldsLike(signed.fields)
    /\ signed.fields.issued \in Nat
    /\ signed.fields.signer \in Policy.keys
    /\ VerifySignedApproval(signed, signed.fields.signer)

Decided == {"granted", "consumed", "expired"}

(* A decided ticket keeps the artifact that granted it. *)
RowOK(t, row) ==
    /\ RowLike(row)
    /\ row.status \in {"absent", "pending"} \cup Decided
    /\ row.intent \in Intent \cup {"none"}
    /\ row.status \in Decided =>
          Vetted(row.signed) /\ Binds(row.signed.fields, t, row, Target)

(* What the gate adds: neither who signed nor who decided may execute. *)
Approved(row) ==
    /\ row.status \in Decided
    /\ {row.signed.fields.signer, row.decider} \cap Policy.operators = {}

Spent(row) == row.status = "consumed"

-----------------------------------------------------------------------------
(* The invariant: of a run at its place, its locals, its exit code and the *)
(* requests it sent, over the tickets.                                     *)

Working ==
    {"read", "grant", "gate", "observe", "freshness", "reserve", "consume", "handle",
     "sent", "settle", "return"}
PastGate == {"observe", "freshness", "reserve", "consume", "handle"}

ReachedAWS(requests) == requests # << >> /\ requests[1].reached

(* Its retries, and the artifact it works from. *)
LocalsOK(place, j) ==
    /\ JobLike(j)
    /\ j.calls \in {0, 1}
    /\ AttemptsPermitted(j.retries) = 1
    /\ place \in Working => j.signed.fields.ticket \in Ticket /\ Vetted(j.signed)

(* No approval is younger than what rests on it, up to the skew. *)
SignedBefore(row, moment) == row.signed.fields.issued <= moment + AllowedSkew

(* When it looked, under the ticket it works from. *)
LookOK(row, place, j) ==
    /\ place \in {"observe", "freshness"} =>
          j.activity \in Nat /\ SignedBefore(row, j.activity)
    /\ place \in {"reserve", "consume", "handle"} =>
          /\ j.look.at \in Nat /\ j.look.checked \in j.look.at .. j.look.at + MaxAge
          /\ SignedBefore(row, j.look.at)

(* Its request. *)
RequestsOK(rows, place, j, requests) ==
    /\ requests \in Seq(Requests) /\ Len(requests) <= 1
    /\ requests # << >> =>
          /\ place \in {"sent", "settle", "return", "ended", "crashed"}
          /\ Approved(rows[requests[1].ticket]) /\ Spent(rows[requests[1].ticket])
    /\ place = "sent" => requests # << >>
    /\ place \in PastGate =>
          /\ Approved(rows[j.signed.fields.ticket])
          /\ LookOK(rows[j.signed.fields.ticket], place, j)
    /\ place = "handle" => Spent(rows[j.signed.fields.ticket])

(* Its observation, and what it knows of its dispatch. *)
EvidenceOK(place, j, requests) ==
    /\ place = "freshness" => j.observation.at \in Nat
    /\ place \in {"sent", "settle", "return"} => j.calls = 1
    /\ place = "settle" /\ j.evidence = "accepted" => ReachedAWS(requests)
    /\ place = "return" =>
          /\ j.outcome # "refused"
          /\ j.outcome = "verified_success" => ReachedAWS(requests)

(* What it told the shell. *)
ExitOK(place, j, code, requests) ==
    /\ code \in Codes
    /\ code # "none" => place = "ended"
    /\ code = "refused" => requests = << >>
    /\ code = "success" => ReachedAWS(requests)
    /\ code \in {"success", "inconclusive"} /\ j.armed => requests # << >>

RunOK(rows, place, j, code, requests) ==
    /\ place \in {"idle", "ended", "crashed"} \cup Working
    /\ LocalsOK(place, j)
    /\ RequestsOK(rows, place, j, requests)
    /\ EvidenceOK(place, j, requests)
    /\ ExitOK(place, j, code, requests)

(* The ticket that a run has spent, and whether it has. *)
Dispatching(place, requests) == place = "handle" \/ requests # << >>
SpentBy(j, requests) == IF requests # << >> THEN requests[1].ticket ELSE j.signed.fields.ticket

NoTicketIsSpentTwice ==
    \A r, s \in Run :
        /\ Dispatching(pc[r], sent[r]) /\ Dispatching(pc[s], sent[s])
        /\ SpentBy(job[r], sent[r]) = SpentBy(job[s], sent[s])
        => r = s

LiveInv ==
    /\ tickets = [t \in Ticket |-> tickets[t]] /\ job = [r \in Run |-> job[r]]
    /\ pc = [r \in Run |-> pc[r]] /\ exit = [r \in Run |-> exit[r]]
    /\ sent = [r \in Run |-> sent[r]]
    /\ clock \in 0 .. MaxClock
    /\ License!LicenseTypeOK
    /\ \A t \in Ticket : RowOK(t, tickets[t])
    /\ \A r \in Run : RunOK(tickets, pc[r], job[r], exit[r], sent[r])
    /\ NoTicketIsSpentTwice

-----------------------------------------------------------------------------
(* Facts about the operators. *)

(* A list of at most six checks that reports nothing has none that failed. *)
LEMMA NoRefusal ==
    ASSUME NEW k \in 1 .. 6, NEW checks, DOMAIN checks = 1 .. k,
           \A n \in 1 .. k : checks[n][1] => checks[n][2] # "none",
           FirstRefusal(checks) = "none"
    PROVE  \A n \in 1 .. k : ~checks[n][1]
<1> DEFINE failing == {n \in DOMAIN checks : checks[n][1]}
<1> SUFFICES ASSUME failing # {} PROVE FALSE
  OBVIOUS
<1>1. failing \subseteq {1, 2, 3, 4, 5, 6}
  OBVIOUS
<1>2. \E n \in failing : \A m \in failing : n <= m
  <2> HIDE DEF failing
  <2>1. CASE 1 \in failing
    BY <1>1, <2>1
  <2>2. CASE 1 \notin failing /\ 2 \in failing
    BY <1>1, <2>2
  <2>3. CASE {1, 2} \cap failing = {} /\ 3 \in failing
    BY <1>1, <2>3
  <2>4. CASE {1, 2, 3} \cap failing = {} /\ 4 \in failing
    BY <1>1, <2>4
  <2>5. CASE {1, 2, 3, 4} \cap failing = {} /\ 5 \in failing
    BY <1>1, <2>5
  <2>6. CASE failing = {6}
    BY <2>6
  <2> QED BY <1>1, <2>1, <2>2, <2>3, <2>4, <2>5, <2>6
<1> DEFINE first == CHOOSE n \in failing : \A m \in failing : n <= m
<1>3. first \in failing
  BY <1>2
<1>4. FirstRefusal(checks) = checks[first][2]
  BY DEF FirstRefusal
<1> QED BY <1>3, <1>4

(* What comes back to be presented for a ticket names it, and has a date.  *)
LEMMA ArtifactShape ==
    ASSUME NEW t, NEW a \in Artifacts(t)
    PROVE  /\ SignedLike(a) /\ FieldsLike(a.fields) /\ a.fields.ticket = t
           /\ a.fields.issued \in Nat
<1> PICK issued \in Issuable(t) : a \in ArtifactsIssued(t, issued)
  BY DEF Artifacts
<1>dated. issued \in Nat
  BY DEF Issuable
<1> DEFINE asked == Proposed(t, issued)
<1>1. FieldsLike(asked) /\ asked.ticket = t /\ asked.issued = issued
  BY DEF Proposed, FieldsLike
<1>2. ASSUME NEW f, NEW key, FieldsLike(f), f.ticket = t
      PROVE  LET b == SignApproval(f, key)
             IN  SignedLike(b) /\ FieldsLike(b.fields) /\ b.fields.ticket = t
  BY <1>2 DEF SignApproval, SignedLike
<1>3. SignedLike(a) /\ FieldsLike(a.fields) /\ a.fields.ticket = t /\ a.fields.issued = issued
  BY <1>1, <1>2 DEF ArtifactsIssued, FieldsLike, SignApproval, SignedLike, Proposed
<1> QED BY <1>dated, <1>3

LEMMA ClientsSendOnce ==
    ASSUME NEW c \in Clients, ClientAccepted(c.retries, c.injected)
    PROVE  AttemptsPermitted(Normalized(c.retries)) = 1
<1>1. RetryFree(c.retries)
  BY DEF ClientAccepted
<1>2. AttemptsPermitted(c.retries) = 1
  <2>1. CASE "total_max_attempts" \in DOMAIN c.retries
    BY <1>1, <2>1 DEF RetryFree, AttemptsPermitted
  <2>2. CASE "total_max_attempts" \notin DOMAIN c.retries
    BY <1>1, <2>2 DEF RetryFree, AttemptsPermitted
  <2> QED BY <2>1, <2>2
<1> QED BY <1>2 DEF Normalized, AttemptsPermitted

LEMMA NoJobOK ==
    /\ JobLike(NoJob) /\ NoJob.calls = 0 /\ ~NoJob.armed
    /\ AttemptsPermitted(NoJob.retries) = 1
BY DEF NoJob, JobLike, RequestedRetries, AttemptsPermitted

(* The gate says nothing against a ticket only if the ticket is granted,   *)
(* and the stored approval was verified.                                   *)
LEMMA GatePasses ==
    ASSUME NEW request, NEW coordinator, NEW row, NEW resource, NEW verification, NEW intent,
           Gate(request, coordinator, row, resource, verification, intent) = "none"
    PROVE  row.status = "granted" /\ verification = "none"
<1> DEFINE t == TicketGate(request, row, resource, verification)
           q == RequestGate(request, coordinator)
           d == DecisionGate(request)
           p == PostconditionGate(request)
           a == AttemptGate(request, coordinator, intent)
           parts == << << q # "none", q >>, << t # "none", t >>, << d # "none", d >>,
                       << p # "none", p >>, << a # "none", a >> >>
           checks == << << row.status = "absent", "missing_ticket" >>,
                        << row.status # "granted", "ticket_not_granted" >>,
                        << resource # request.resource, "ticket_mismatch_resource" >>,
                        << request.action # "stop", "ticket_mismatch_action" >>,
                        << row.plan # request.plan_id, "ticket_mismatch_plan" >>,
                        << verification # "none", verification >> >>
<1>1. t = "none"
  <2>1. FirstRefusal(parts) = "none"
    BY DEF Gate
  <2> HIDE DEF t, q, d, p, a
  <2>2. DOMAIN parts = 1 .. 5 /\ \A n \in 1 .. 5 : parts[n][1] => parts[n][2] # "none"
    <3>1. DOMAIN parts = 1 .. 5
      OBVIOUS
    <3>2. /\ parts[1][1] => parts[1][2] # "none"
          /\ parts[2][1] => parts[2][2] # "none"
          /\ parts[3][1] => parts[3][2] # "none"
          /\ parts[4][1] => parts[4][2] # "none"
          /\ parts[5][1] => parts[5][2] # "none"
      OBVIOUS
    <3> HIDE DEF parts
    <3> QED BY <3>1, <3>2
  <2>3. parts[2][1] <=> t # "none"
    OBVIOUS
  <2> HIDE DEF parts
  <2> QED BY <2>1, <2>2, <2>3, NoRefusal
<1>2. FirstRefusal(checks) = "none"
  BY <1>1 DEF TicketGate
<1>3. DOMAIN checks = 1 .. 6 /\ \A n \in 1 .. 6 : checks[n][1] => checks[n][2] # "none"
  <2>1. DOMAIN checks = 1 .. 6
    OBVIOUS
  <2>2. /\ checks[1][1] => checks[1][2] # "none"
        /\ checks[2][1] => checks[2][2] # "none"
        /\ checks[3][1] => checks[3][2] # "none"
        /\ checks[4][1] => checks[4][2] # "none"
        /\ checks[5][1] => checks[5][2] # "none"
        /\ checks[6][1] => checks[6][2] # "none"
    OBVIOUS
  <2> HIDE DEF checks
  <2> QED BY <2>1, <2>2
<1>4. /\ checks[2][1] <=> row.status # "granted"
      /\ checks[6][1] <=> verification # "none"
  OBVIOUS
<1> HIDE DEF checks
<1> QED BY <1>2, <1>3, <1>4, NoRefusal

(* The last part of the gate says nothing against an observation only if   *)
(* it is no older than the snapshot, nor too old, nor dated ahead.         *)
LEMMA PreflightPassesMeans ==
    ASSUME NEW request, NEW coordinator, NEW observation, NEW now,
           PreflightGate(request, coordinator, observation, now) = "none"
    PROVE  /\ ~(observation.at > now)
           /\ ~(observation.at < request.snapshot.collected)
           /\ ~(now > observation.at + coordinator.max_age)
<1> DEFINE f == FreshnessGate(request, coordinator, observation, now)
           i == IdentityGate(request, observation)
           parts == << << request.supplied, "caller_supplied_observation" >>,
                       << observation.failed, "observation_unavailable" >>,
                       << ~observation.provider, "not_provider_issued" >>,
                       << observation.ambiguous, "stale_observation" >>,
                       << f # "none", f >>,
                       << i # "none", i >> >>
           fresh == << << "collected_at" \in request.absent, "snapshot_freshness_unestablished" >>,
                       << observation.at > now, "observation_from_future" >>,
                       << observation.at < request.snapshot.collected, "stale_observation" >>,
                       << now > observation.at + coordinator.max_age, "observation_too_old" >> >>
<1>1. f = "none"
  <2>1. FirstRefusal(parts) = "none"
    BY DEF PreflightGate
  <2> HIDE DEF f, i
  <2>2. DOMAIN parts = 1 .. 6 /\ \A n \in 1 .. 6 : parts[n][1] => parts[n][2] # "none"
    <3>1. DOMAIN parts = 1 .. 6
      OBVIOUS
    <3>2. /\ parts[1][1] => parts[1][2] # "none"
          /\ parts[2][1] => parts[2][2] # "none"
          /\ parts[3][1] => parts[3][2] # "none"
          /\ parts[4][1] => parts[4][2] # "none"
          /\ parts[5][1] => parts[5][2] # "none"
          /\ parts[6][1] => parts[6][2] # "none"
      OBVIOUS
    <3> HIDE DEF parts
    <3> QED BY <3>1, <3>2
  <2>3. parts[5][1] <=> f # "none"
    OBVIOUS
  <2> HIDE DEF parts
  <2> QED BY <2>1, <2>2, <2>3, NoRefusal
<1>2. FirstRefusal(fresh) = "none"
  BY <1>1 DEF FreshnessGate
<1>3. DOMAIN fresh = 1 .. 4 /\ \A n \in 1 .. 4 : fresh[n][1] => fresh[n][2] # "none"
  <2>1. DOMAIN fresh = 1 .. 4
    OBVIOUS
  <2>2. /\ fresh[1][1] => fresh[1][2] # "none"
        /\ fresh[2][1] => fresh[2][2] # "none"
        /\ fresh[3][1] => fresh[3][2] # "none"
        /\ fresh[4][1] => fresh[4][2] # "none"
    OBVIOUS
  <2> HIDE DEF fresh
  <2> QED BY <2>1, <2>2
<1>4. /\ fresh[2][1] <=> observation.at > now
      /\ fresh[3][1] <=> observation.at < request.snapshot.collected
      /\ fresh[4][1] <=> now > observation.at + coordinator.max_age
  OBVIOUS
<1> HIDE DEF fresh
<1> QED BY <1>2, <1>3, <1>4, NoRefusal

(* What was verified was signed by somebody who may not execute, and not   *)
(* later than now, up to the skew.                                         *)
LEMMA VerifiedMeans ==
    ASSUME NEW stored, NEW decider, NEW boundTo, NEW now,
           VerifyApproval(stored, decider, Policy, boundTo, now) = "none"
    PROVE  /\ ~SignerForbidden(stored, decider, Policy)
           /\ ~(stored.fields.issued > now + AllowedSkew)
<1>1. ~SignerForbidden(stored, decider, Policy) /\ ~WindowClosed(stored.fields, Policy, now)
  BY DEF VerifyApproval
<1>2. Policy.skew = AllowedSkew
  BY DEF Policy
<1> QED BY <1>1, <1>2 DEF WindowClosed

-----------------------------------------------------------------------------
(* Steps in general. *)

(* What a step may do to a ticket: nothing is forgotten. *)
Keeps(old, new) ==
    /\ Approved(old) => Approved(new) /\ new.signed = old.signed
    /\ Spent(old) => Spent(new)

TicketsKeep ==
    /\ tickets' = [t \in Ticket |-> tickets'[t]]
    /\ \A t \in Ticket : RowOK(t, tickets'[t]) /\ Keeps(tickets[t], tickets'[t])

LEMMA TicketsStay ==
    ASSUME LiveInv, UNCHANGED tickets
    PROVE  TicketsKeep
BY DEF LiveInv, TicketsKeep, Keeps

LEMMA TicketMoves ==
    ASSUME LiveInv, NEW t \in Ticket, NEW row, tickets' = [tickets EXCEPT ![t] = row],
           RowOK(t, row), Keeps(tickets[t], row)
    PROVE  TicketsKeep /\ tickets'[t] = row
<1>1. tickets = [x \in Ticket |-> tickets[x]] /\ \A x \in Ticket : RowOK(x, tickets[x])
  BY DEF LiveInv
<1>2. tickets' = [x \in Ticket |-> IF x = t THEN row ELSE tickets[x]]
  BY <1>1
<1>3. \A x \in Ticket : tickets'[x] = IF x = t THEN row ELSE tickets[x]
  BY <1>2
<1>4. \A x \in Ticket : Keeps(tickets[x], tickets'[x])
  BY <1>3 DEF Keeps
<1>5. tickets' = [x \in Ticket |-> tickets'[x]]
  BY <1>2
<1> QED BY <1>1, <1>3, <1>4, <1>5 DEF TicketsKeep

(* Reading a ticket may expire it. *)
LEMMA ReadKeeps ==
    ASSUME NEW t \in Ticket, NEW row, RowOK(t, row)
    PROVE  /\ RowOK(t, Read(row)) /\ Keeps(row, Read(row))
           /\ Read(row).status = "granted" => Read(row) = row
           /\ Read(row).signed = row.signed /\ Read(row).intent = row.intent
           /\ Read(row).plan = row.plan /\ Read(row).decider = row.decider
<1>1. CASE Read(row) = row
  BY <1>1 DEF Keeps
<1>2. CASE Read(row) = [row EXCEPT !.status = "expired"] /\ row.status = "granted"
  <2> DEFINE new == [row EXCEPT !.status = "expired"]
  <2>1. /\ RowLike(new) /\ new.status = "expired" /\ new.signed = row.signed
        /\ new.intent = row.intent /\ new.plan = row.plan /\ new.decider = row.decider
    BY DEF RowOK, RowLike
  <2> HIDE DEF new
  <2>2. RowOK(t, new) /\ Keeps(row, new)
    BY <1>2, <2>1 DEF RowOK, Keeps, Approved, Spent, Decided, Binds
  <2> QED BY <1>2, <2>1, <2>2 DEF new
<1> QED BY <1>1, <1>2 DEF Read

(* A run that takes no part in a step stays as it was. *)
LEMMA OthersStay ==
    ASSUME LiveInv, TicketsKeep, NEW s \in Run
    PROVE  RunOK(tickets', pc[s], job[s], exit[s], sent[s])
<1>1. RunOK(tickets, pc[s], job[s], exit[s], sent[s])
  BY DEF LiveInv
<1>2. sent[s] # << >> => sent[s][1].ticket \in Ticket
  <2>1. sent[s] \in Seq(Requests)
    BY <1>1 DEF RunOK, RequestsOK
  <2>2. sent[s] # << >> => 1 \in 1 .. Len(sent[s])
    BY <2>1, EmptySeq
  <2>3. sent[s] # << >> => sent[s][1] \in Requests
    BY <2>1, <2>2, ElementOfSeq
  <2> QED BY <2>3 DEF Requests
<1>3. pc[s] \in PastGate => job[s].signed.fields.ticket \in Ticket
  BY <1>1 DEF RunOK, LocalsOK, PastGate, Working
<1>4. pc[s] = "handle" => job[s].signed.fields.ticket \in Ticket
  BY <1>3 DEF PastGate
<1>5. RequestsOK(tickets', pc[s], job[s], sent[s])
  BY <1>1, <1>2, <1>3, <1>4 DEF RunOK, RequestsOK, TicketsKeep, Keeps, LookOK, SignedBefore
<1> QED BY <1>1, <1>5 DEF RunOK

(* One step of one run. *)
LEMMA RunStep ==
    ASSUME LiveInv, TicketsKeep, NEW r \in Run,
           NEW place, NEW j, NEW code, NEW requests,
           pc' = [pc EXCEPT ![r] = place], job' = [job EXCEPT ![r] = j],
           exit' = [exit EXCEPT ![r] = code], sent' = [sent EXCEPT ![r] = requests],
           UNCHANGED clock, License!LicenseTypeOK',
           RunOK(tickets', place, j, code, requests),
           Dispatching(place, requests) =>
               \/ Dispatching(pc[r], sent[r]) /\ SpentBy(j, requests) = SpentBy(job[r], sent[r])
               \/ ~Spent(tickets[SpentBy(j, requests)])
    PROVE  LiveInv'
<1>1. /\ pc'[r] = place /\ job'[r] = j /\ exit'[r] = code /\ sent'[r] = requests
      /\ \A s \in Run \ {r} :
            pc'[s] = pc[s] /\ job'[s] = job[s] /\ exit'[s] = exit[s] /\ sent'[s] = sent[s]
      /\ job' = [s \in Run |-> job'[s]] /\ pc' = [s \in Run |-> pc'[s]]
      /\ exit' = [s \in Run |-> exit'[s]] /\ sent' = [s \in Run |-> sent'[s]]
  BY DEF LiveInv
<1>2. \A s \in Run : RunOK(tickets', pc'[s], job'[s], exit'[s], sent'[s])
  BY <1>1, OthersStay
<1>3. NoTicketIsSpentTwice'
  <2>1. ASSUME NEW s \in Run, s # r, Dispatching(pc[s], sent[s]), Dispatching(place, requests),
               SpentBy(job[s], sent[s]) = SpentBy(j, requests)
        PROVE  FALSE
    <3>1. Spent(tickets[SpentBy(job[s], sent[s])])
      BY <2>1 DEF LiveInv, RunOK, RequestsOK, Dispatching, SpentBy
    <3>2. Dispatching(pc[r], sent[r]) /\ SpentBy(j, requests) = SpentBy(job[r], sent[r])
      BY <2>1, <3>1
    <3> QED BY <2>1, <3>2 DEF LiveInv, NoTicketIsSpentTwice
  <2>2. ASSUME NEW s \in Run, NEW u \in Run,
               Dispatching(pc'[s], sent'[s]), Dispatching(pc'[u], sent'[u]),
               SpentBy(job'[s], sent'[s]) = SpentBy(job'[u], sent'[u])
        PROVE  s = u
    <3>1. CASE s = r /\ u # r
      BY <1>1, <2>1, <2>2, <3>1
    <3>2. CASE s # r /\ u = r
      BY <1>1, <2>1, <2>2, <3>2
    <3>3. CASE s # r /\ u # r
      BY <1>1, <2>2, <3>3 DEF LiveInv, NoTicketIsSpentTwice
    <3> QED BY <3>1, <3>2, <3>3
  <2> QED BY <2>2 DEF NoTicketIsSpentTwice
<1>4. clock' \in 0 .. MaxClock
  BY DEF LiveInv
<1> QED BY <1>1, <1>2, <1>3, <1>4 DEF LiveInv, TicketsKeep

(* A step that leaves the licences, or takes one, or settles one. *)
LEMMA LicenceStays ==
    ASSUME LiveInv, UNCHANGED <<holder, used>>
    PROVE  License!LicenseTypeOK'
BY DEF LiveInv, License!LicenseTypeOK

(* A run that ends or dies: what it holds of its ticket goes with it. *)
LEMMA EndPreserves ==
    ASSUME LiveInv, TicketsKeep, NEW r \in Run, NEW code \in {"refused", "error", "inconclusive"},
           End(r, code),
           code = "refused" => sent[r] = << >>,
           UNCHANGED <<sent, clock>>, UNCHANGED <<holder, used>>
    PROVE  LiveInv'
<1>1. RunOK(tickets', pc[r], job[r], exit[r], sent[r])
  BY OthersStay
<1>2. RunOK(tickets', "ended", NoJob, code, sent[r])
  <2>1. LocalsOK("ended", NoJob)
    BY NoJobOK DEF LocalsOK, Working
  <2>2. RequestsOK(tickets', "ended", NoJob, sent[r])
    BY <1>1 DEF RunOK, RequestsOK, PastGate
  <2>3. EvidenceOK("ended", NoJob, sent[r]) /\ ExitOK("ended", NoJob, code, sent[r])
    BY NoJobOK DEF EvidenceOK, ExitOK, Codes
  <2> QED BY <2>1, <2>2, <2>3 DEF RunOK
<1>3. Dispatching("ended", sent[r]) =>
          Dispatching(pc[r], sent[r]) /\ SpentBy(NoJob, sent[r]) = SpentBy(job[r], sent[r])
  BY DEF Dispatching, SpentBy
<1>4. /\ pc' = [pc EXCEPT ![r] = "ended"] /\ job' = [job EXCEPT ![r] = NoJob]
      /\ exit' = [exit EXCEPT ![r] = code] /\ sent' = [sent EXCEPT ![r] = sent[r]]
  BY DEF End, Goto, LiveInv
<1>5. License!LicenseTypeOK'
  BY LicenceStays
<1> QED BY <1>2, <1>3, <1>4, <1>5, RunStep

LEMMA CrashPreserves ==
    ASSUME LiveInv, NEW r \in Run, Crash(r)
    PROVE  LiveInv'
<1>1. TicketsKeep
  BY TicketsStay DEF Crash, authorities
<1>2. RunOK(tickets', pc[r], job[r], exit[r], sent[r]) /\ exit[r] = "none"
  BY <1>1, OthersStay DEF Crash, RunOK, ExitOK
<1>3. RunOK(tickets', "crashed", NoJob, exit[r], sent[r])
  <2>1. LocalsOK("crashed", NoJob)
    BY NoJobOK DEF LocalsOK, Working
  <2>2. RequestsOK(tickets', "crashed", NoJob, sent[r])
    BY <1>2 DEF RunOK, RequestsOK, PastGate
  <2>3. EvidenceOK("crashed", NoJob, sent[r]) /\ ExitOK("crashed", NoJob, exit[r], sent[r])
    BY <1>2 DEF EvidenceOK, ExitOK, Codes
  <2> QED BY <2>1, <2>2, <2>3 DEF RunOK
<1>4. Dispatching("crashed", sent[r]) =>
          Dispatching(pc[r], sent[r]) /\ SpentBy(NoJob, sent[r]) = SpentBy(job[r], sent[r])
  BY DEF Dispatching, SpentBy
<1>5. /\ pc' = [pc EXCEPT ![r] = "crashed"] /\ job' = [job EXCEPT ![r] = NoJob]
      /\ exit' = [exit EXCEPT ![r] = exit[r]] /\ sent' = [sent EXCEPT ![r] = sent[r]]
      /\ UNCHANGED clock
  BY DEF Crash, Goto, LiveInv, authorities
<1>6. License!LicenseTypeOK'
  BY LicenceStays DEF Crash, authorities
<1> QED BY <1>1, <1>3, <1>4, <1>5, <1>6, RunStep

(* What is known of a run at its place. *)
LEMMA AtPlace ==
    ASSUME LiveInv, NEW r \in Run
    PROVE  /\ RunOK(tickets, pc[r], job[r], exit[r], sent[r])
           /\ pc[r] \notin {"sent", "settle", "return", "ended", "crashed"} => sent[r] = << >>
           /\ pc[r] # "ended" => exit[r] = "none"
           /\ pc[r] \in Working =>
                 TicketOf(r) \in Ticket /\ RowOK(TicketOf(r), tickets[TicketOf(r)])
BY DEF LiveInv, RunOK, RequestsOK, ExitOK, LocalsOK, TicketOf

LEMMA StoreFailsPreserves ==
    ASSUME LiveInv, NEW r \in Run, StoreFails(r)
    PROVE  LiveInv'
<1>1. TicketsKeep /\ UNCHANGED <<sent, clock>> /\ UNCHANGED <<holder, used>>
  BY TicketsStay DEF StoreFails, authorities
<1>2. PICK code \in FaultExits(pc[r]) : End(r, code)
  BY DEF StoreFails
<1>3. code \in {"refused", "error"} /\ (code = "refused" => sent[r] = << >>)
  BY <1>2, AtPlace DEF FaultExits
<1> QED BY <1>1, <1>2, <1>3, EndPreserves

LEMMA StartRefusedPreserves ==
    ASSUME LiveInv, NEW r \in Run, StartRefused(r)
    PROVE  LiveInv'
<1>1. TicketsKeep /\ UNCHANGED <<sent, clock>> /\ UNCHANGED <<holder, used>>
  BY TicketsStay DEF StartRefused, authorities
<1>2. sent[r] = << >>
  BY AtPlace DEF StartRefused
<1>3. End(r, "refused") \/ End(r, "error") \/ End(r, "inconclusive")
  BY DEF StartRefused
<1> QED BY <1>1, <1>2, <1>3, EndPreserves

(* A run moves to another place, with other locals, and neither ends nor   *)
(* sends nor takes a ticket that it did not have.                          *)
LEMMA Advance ==
    ASSUME LiveInv, TicketsKeep, NEW r \in Run, NEW place, NEW j,
           pc[r] # "ended",
           place \in Working, place # "sent", place # "handle",
           Goto(r, place), job' = [job EXCEPT ![r] = j],
           UNCHANGED <<exit, sent, clock>>, License!LicenseTypeOK',
           sent[r] # << >> => place \in {"settle", "return"},
           LocalsOK(place, j), EvidenceOK(place, j, sent[r]),
           place \in PastGate =>
               /\ Approved(tickets'[j.signed.fields.ticket])
               /\ LookOK(tickets'[j.signed.fields.ticket], place, j)
    PROVE  LiveInv'
<1>1. RunOK(tickets', pc[r], job[r], exit[r], sent[r]) /\ exit[r] = "none"
  BY OthersStay, AtPlace
<1>2. RequestsOK(tickets', place, j, sent[r])
  BY <1>1 DEF RunOK, RequestsOK
<1>3. ExitOK(place, j, exit[r], sent[r])
  BY <1>1 DEF ExitOK, Codes
<1>4. RunOK(tickets', place, j, exit[r], sent[r])
  BY <1>2, <1>3 DEF RunOK
<1>5. Dispatching(place, sent[r]) =>
          Dispatching(pc[r], sent[r]) /\ SpentBy(j, sent[r]) = SpentBy(job[r], sent[r])
  BY DEF Dispatching, SpentBy
<1>6. pc' = [pc EXCEPT ![r] = place] /\ UNCHANGED clock
  BY DEF Goto
<1>7. exit' = [exit EXCEPT ![r] = exit[r]] /\ sent' = [sent EXCEPT ![r] = sent[r]]
  BY DEF LiveInv
<1> DEFINE code == exit[r]
           requests == sent[r]
<1>8. RunOK(tickets', place, j, code, requests)
  BY <1>4
<1>9. exit' = [exit EXCEPT ![r] = code] /\ sent' = [sent EXCEPT ![r] = requests]
  BY <1>7
<1>10. Dispatching(place, requests) =>
          Dispatching(pc[r], sent[r]) /\ SpentBy(j, requests) = SpentBy(job[r], sent[r])
  BY <1>5
<1> HIDE DEF code, requests
<1> QED BY <1>6, <1>8, <1>9, <1>10, RunStep

LEMMA StartPreserves ==
    ASSUME LiveInv, NEW r \in Run, Start(r)
    PROVE  LiveInv'
<1> PICK t \in Ticket, i \in Intent, a \in UNION {Artifacts(x) : x \in Ticket}, client \in Clients :
          /\ a \in Artifacts(t)
          /\ EarlyChecks(a.fields, a, i)
          /\ ClientAccepted(client.retries, client.injected)
          /\ job' = [job EXCEPT ![r] =
                [NoJob EXCEPT !.signed = a, !.retries = Normalized(client.retries)]]
  <2>1. \E t \in Ticket, i \in Intent : \E a \in Artifacts(t), client \in Clients :
          /\ tickets[t].status # "absent"
          /\ EarlyChecks(a.fields, a, i)
          /\ \E o \in Options : Composable(o)
          /\ ClientAccepted(client.retries, client.injected)
          /\ job' = [job EXCEPT ![r] =
                [NoJob EXCEPT !.signed = a, !.retries = Normalized(client.retries)]]
    BY DEF Start
  <2> QED BY <2>1, Zenon
<1> DEFINE j == [NoJob EXCEPT !.signed = a, !.retries = Normalized(client.retries)]
<1>1. /\ pc[r] = "idle" /\ Goto(r, "read") /\ UNCHANGED <<authorities, exit, sent, clock>>
      /\ job' = [job EXCEPT ![r] = j]
  BY DEF Start
<1>2. /\ JobLike(j) /\ j.signed = a /\ j.calls = 0
      /\ j.retries = Normalized(client.retries)
  BY DEF NoJob, JobLike
<1>3. AttemptsPermitted(j.retries) = 1
  BY <1>2, ClientsSendOnce
<1>4. Vetted(a) /\ a.fields.ticket = t
  BY ArtifactShape DEF EarlyChecks, Vetted
<1>5. TicketsKeep /\ License!LicenseTypeOK'
  BY <1>1, TicketsStay, LicenceStays DEF authorities
<1> HIDE DEF j
<1>6. LocalsOK("read", j)
  BY <1>2, <1>3, <1>4 DEF LocalsOK
<1>7. EvidenceOK("read", j, sent[r])
  BY DEF EvidenceOK
<1>8. sent[r] = << >>
  BY <1>1, AtPlace
<1> QED BY <1>1, <1>5, <1>6, <1>7, <1>8, Advance DEF Working, PastGate

(* A run moves to a place that asks nothing of its locals but these. *)
LEMMA Proceed ==
    ASSUME LiveInv, TicketsKeep, NEW r \in Run, NEW place \in {"grant", "gate"},
           pc[r] \in {"read", "grant"}, Goto(r, place),
           UNCHANGED <<job, exit, sent, clock>>, UNCHANGED <<holder, used>>
    PROVE  LiveInv'
<1>1. LocalsOK(place, job[r]) /\ sent[r] = << >>
  BY AtPlace DEF RunOK, LocalsOK, Working
<1>2. EvidenceOK(place, job[r], sent[r])
  BY DEF EvidenceOK
<1>3. job' = [job EXCEPT ![r] = job[r]]
  BY DEF LiveInv
<1>4. License!LicenseTypeOK'
  BY LicenceStays
<1> QED BY <1>1, <1>2, <1>3, <1>4, Advance DEF Working, PastGate

LEMMA ReadTicketPreserves ==
    ASSUME LiveInv, NEW r \in Run, ReadTicket(r)
    PROVE  LiveInv'
<1> DEFINE t == TicketOf(r)
           row == Read(tickets[t])
<1>1. /\ pc[r] = "read" /\ tickets' = [tickets EXCEPT ![t] = row]
      /\ UNCHANGED <<sent, clock>> /\ UNCHANGED <<holder, used>>
      /\ \/ Goto(r, "grant") /\ UNCHANGED <<job, exit>>
         \/ Goto(r, "gate") /\ UNCHANGED <<job, exit>>
         \/ End(r, "refused")
  BY DEF ReadTicket
<1>2. t \in Ticket /\ RowOK(t, tickets[t]) /\ sent[r] = << >>
  BY <1>1, AtPlace DEF Working
<1>3. RowOK(t, row) /\ Keeps(tickets[t], row)
  BY <1>2, ReadKeeps
<1> HIDE DEF t, row
<1>4. TicketsKeep
  BY <1>1, <1>2, <1>3, TicketMoves
<1> QED BY <1>1, <1>2, <1>4, Proceed, EndPreserves

LEMMA GrantPreserves ==
    ASSUME LiveInv, NEW r \in Run, Grant(r)
    PROVE  LiveInv'
<1> DEFINE t == TicketOf(r)
           row == tickets[t]
<1>1. pc[r] = "grant" /\ UNCHANGED <<sent, clock>> /\ UNCHANGED <<holder, used>>
  BY DEF Grant
<1>2. /\ t \in Ticket /\ RowOK(t, row) /\ sent[r] = << >>
      /\ Vetted(job[r].signed)
  BY <1>1, AtPlace DEF Working, RunOK, LocalsOK
<1>3. ASSUME NEW decider,
             row.status = "pending", Binds(job[r].signed.fields, t, row, Target),
             tickets' = [tickets EXCEPT ![t] =
                 [row EXCEPT !.status = "granted", !.signed = job[r].signed, !.decider = decider]],
             Goto(r, "gate"), UNCHANGED <<job, exit>>
      PROVE  LiveInv'
  <2> DEFINE new == [row EXCEPT !.status = "granted", !.signed = job[r].signed,
                                !.decider = decider]
  <2>2. RowLike(new) /\ new.status = "granted" /\ new.intent = row.intent
        /\ new.plan = row.plan /\ new.signed = job[r].signed
    BY <1>2 DEF RowOK, RowLike
  <2>3. tickets' = [tickets EXCEPT ![t] = new]
    BY <1>3
  <2> HIDE DEF new
  <2>4. RowOK(t, new)
    BY <1>2, <1>3, <2>2 DEF RowOK, Binds, Decided
  <2>5. Keeps(row, new)
    BY <1>3 DEF Keeps, Approved, Spent, Decided
  <2> HIDE DEF t
  <2>6. TicketsKeep
    BY <1>2, <2>3, <2>4, <2>5, TicketMoves
  <2> QED BY <1>1, <1>3, <2>6, Proceed
<1>4. ASSUME tickets' = [tickets EXCEPT ![t] = Read(row)], End(r, "error")
      PROVE  LiveInv'
  <2>1. RowOK(t, Read(row)) /\ Keeps(row, Read(row))
    BY <1>2, ReadKeeps
  <2> HIDE DEF t
  <2>2. TicketsKeep
    BY <1>2, <1>4, <2>1, TicketMoves
  <2> QED BY <1>1, <1>2, <1>4, <2>2, EndPreserves
<1> QED BY <1>3, <1>4 DEF Grant, GrantAccepts

-----------------------------------------------------------------------------
(* The gate. *)

LEMMA StoredKeepsSigner ==
    ASSUME NEW t, NEW row, Vetted(row.signed)
    PROVE  /\ StoredApproval(t, row, Target).fields.signer = row.signed.fields.signer
           /\ StoredApproval(t, row, Target).fields.issued = row.signed.fields.issued
<1> DEFINE f == row.signed.fields
<1>1. DOMAIN f = {"ticket", "resource", "action", "plan", "intent", "deadline", "executor",
                  "account", "nonce", "issued", "signer"}
  BY DEF Vetted, FieldsLike
<1> HIDE DEF f
<1>2. LET g == [f EXCEPT !.ticket = t, !.resource = Target, !.action = "stop",
                         !.plan = row.plan, !.intent = row.intent]
      IN  g.signer = f.signer /\ g.issued = f.issued
  BY <1>1
<1> QED BY <1>2 DEF StoredApproval, f

LEMMA PassGatePreserves ==
    ASSUME LiveInv, NEW r \in Run, PassGate(r)
    PROVE  LiveInv'
<1> DEFINE t == TicketOf(r)
           row == Read(tickets[t])
<1>1. /\ pc[r] = "gate" /\ tickets' = [tickets EXCEPT ![t] = row]
      /\ UNCHANGED <<sent, clock>> /\ UNCHANGED <<holder, used>>
      /\ \/ /\ TicketRefusal(r, row, TRUE) = "none"
            /\ Goto(r, "observe")
            /\ job' = [job EXCEPT ![r].activity = clock]
            /\ UNCHANGED exit
         \/ End(r, "refused")
  BY DEF PassGate
<1>2. t \in Ticket /\ RowOK(t, tickets[t]) /\ sent[r] = << >>
  BY <1>1, AtPlace DEF Working
<1>3. RowOK(t, row) /\ Keeps(tickets[t], row)
  BY <1>2, ReadKeeps
<1>4. TicketsKeep /\ tickets'[t] = row
  <2> HIDE DEF t, row
  <2> QED BY <1>1, <1>2, <1>3, TicketMoves
<1>5. ASSUME TicketRefusal(r, row, TRUE) = "none"
      PROVE  Approved(row) /\ SignedBefore(row, clock)
  <2> DEFINE verification == IF row.status = "granted" THEN Verify(t, row) ELSE "none"
  <2>1. row.status = "granted" /\ verification = "none"
    <3> DEFINE request == BuildRequest(job[r].signed.fields, clock)
               coordinator == CoordinatorOf(TRUE)
               intent == row.intent
    <3>1. Gate(request, coordinator, row, Target, verification, intent) = "none"
      BY <1>5 DEF TicketRefusal
    <3> HIDE DEF row, verification, request, coordinator, intent
    <3>2. ASSUME NEW q, NEW c, NEW w, NEW v, NEW n, Gate(q, c, w, Target, v, n) = "none"
          PROVE  w.status = "granted" /\ v = "none"
      BY <3>2, GatePasses
    <3> QED BY ONLY <3>1, <3>2
  <2> DEFINE stored == StoredApproval(t, row, Target)
  <2>2. VerifyApproval(stored, row.decider, Policy, BoundTo(stored.fields.nonce), clock) = "none"
    BY <2>1 DEF Verify
  <2>3. /\ ~SignerForbidden(stored, row.decider, Policy)
        /\ ~(stored.fields.issued > clock + AllowedSkew)
    BY <2>2, VerifiedMeans
  <2>4. /\ stored.fields.signer = row.signed.fields.signer
        /\ stored.fields.issued = row.signed.fields.issued
        /\ row.signed.fields.issued \in Nat
    BY <1>3, <2>1, StoredKeepsSigner DEF RowOK, Decided, Vetted
  <2> HIDE DEF stored, row
  <2>5. Approved(row)
    BY <2>1, <2>3, <2>4 DEF Approved, SignerForbidden, Decided
  <2>6. SignedBefore(row, clock)
    BY <2>3, <2>4, LiveStopAssumption DEF SignedBefore, LiveInv
  <2> QED BY <2>5, <2>6
<1>6. ASSUME Goto(r, "observe"), job' = [job EXCEPT ![r].activity = clock], UNCHANGED exit,
             Approved(row), SignedBefore(row, clock)
      PROVE  LiveInv'
  <2> DEFINE j == [job[r] EXCEPT !.activity = clock]
  <2>1. LocalsOK(pc[r], job[r])
    BY AtPlace DEF RunOK
  <2>2. /\ JobLike(j) /\ j.signed = job[r].signed /\ j.calls = job[r].calls
        /\ j.retries = job[r].retries /\ j.activity = clock
    BY <2>1 DEF LocalsOK, JobLike
  <2>3. job' = [job EXCEPT ![r] = j]
    BY <1>6
  <2>4. clock \in Nat
    BY LiveStopAssumption DEF LiveInv
  <2> HIDE DEF j
  <2>5. LocalsOK("observe", j)
    BY <1>1, <2>1, <2>2 DEF LocalsOK, Working
  <2>6. EvidenceOK("observe", j, sent[r])
    BY <2>2, <2>4 DEF EvidenceOK
  <2>7. /\ Approved(tickets'[j.signed.fields.ticket])
        /\ LookOK(tickets'[j.signed.fields.ticket], "observe", j)
    BY <1>4, <1>6, <2>2, <2>4 DEF TicketOf, LookOK
  <2>8. License!LicenseTypeOK'
    BY <1>1, LicenceStays
  <2> QED BY <1>1, <1>2, <1>4, <1>6, <2>3, <2>5, <2>6, <2>7, <2>8, Advance DEF Working, PastGate
<1> HIDE DEF t, row
<1> QED BY <1>1, <1>2, <1>4, <1>5, <1>6, EndPreserves

LEMMA ObservedNow ==
    ASSUME NEW pages, NEW now, ~ObserveInstance(pages, now).failed
    PROVE  ObserveInstance(pages, now).at = now
BY DEF ObserveInstance, ObservationFailed

LEMMA ObservePreserves ==
    ASSUME LiveInv, NEW r \in Run, Observe(r)
    PROVE  LiveInv'
<1>1. /\ pc[r] = "observe" /\ UNCHANGED <<sent, clock>> /\ UNCHANGED <<holder, used>>
      /\ TicketsKeep /\ UNCHANGED tickets
  BY TicketsStay DEF Observe, authorities
<1>2. sent[r] = << >>
  BY <1>1, AtPlace
<1>3. ASSUME NEW o, ~o.failed, o.at = clock, Goto(r, "freshness"),
             job' = [job EXCEPT ![r].observation = o], UNCHANGED exit
      PROVE  LiveInv'
  <2> DEFINE j == [job[r] EXCEPT !.observation = o]
  <2>1. RunOK(tickets, pc[r], job[r], exit[r], sent[r])
    BY AtPlace
  <2>2. /\ JobLike(j) /\ j.signed = job[r].signed /\ j.calls = job[r].calls
        /\ j.retries = job[r].retries /\ j.activity = job[r].activity /\ j.observation = o
    BY <2>1 DEF RunOK, LocalsOK, JobLike
  <2>3. job' = [job EXCEPT ![r] = j]
    BY <1>3
  <2>4. clock \in Nat
    BY LiveStopAssumption DEF LiveInv
  <2> HIDE DEF j
  <2>5. LocalsOK("freshness", j)
    BY <1>1, <2>1, <2>2 DEF RunOK, LocalsOK, Working
  <2>6. EvidenceOK("freshness", j, sent[r])
    BY <1>3, <2>2, <2>4 DEF EvidenceOK
  <2>7. /\ Approved(tickets'[j.signed.fields.ticket])
        /\ LookOK(tickets'[j.signed.fields.ticket], "freshness", j)
    BY <1>1, <2>1, <2>2 DEF RunOK, RequestsOK, PastGate, LookOK
  <2>8. License!LicenseTypeOK'
    BY <1>1, LicenceStays
  <2> QED BY <1>1, <1>2, <1>3, <2>3, <2>5, <2>6, <2>7, <2>8, Advance DEF Working, PastGate
<1>4. \/ \E answer \in DescribeAnswers :
            LET o == ObserveInstance(answer, clock)
            IN  /\ ~o.failed /\ Goto(r, "freshness")
                /\ job' = [job EXCEPT ![r].observation = o] /\ UNCHANGED exit
      \/ End(r, "refused")
  BY DEF Observe
<1> QED BY <1>1, <1>2, <1>3, <1>4, ObservedNow, EndPreserves

LEMMA CollectedOfRequest ==
    ASSUME NEW fields, NEW collected
    PROVE  BuildRequest(fields, collected).snapshot.collected = collected
BY DEF BuildRequest

LEMMA PassFreshnessPreserves ==
    ASSUME LiveInv, NEW r \in Run, PassFreshness(r)
    PROVE  LiveInv'
<1>1. /\ pc[r] = "freshness" /\ UNCHANGED <<sent, clock>> /\ UNCHANGED <<holder, used>>
      /\ TicketsKeep /\ UNCHANGED tickets
  BY TicketsStay DEF PassFreshness, authorities
<1>2. sent[r] = << >> /\ RunOK(tickets, pc[r], job[r], exit[r], sent[r])
  BY <1>1, AtPlace
<1> DEFINE request == BuildRequest(job[r].signed.fields, job[r].activity)
           refusal == PreflightGate(request, CoordinatorOf(TRUE), job[r].observation, clock)
<1>3. \/ /\ refusal = "none" /\ Goto(r, "reserve") /\ UNCHANGED exit
         /\ job' = [job EXCEPT ![r].activity = 0, ![r].observation = ObservationFailed,
                               ![r].look = [at |-> job[r].observation.at, checked |-> clock]]
      \/ End(r, "refused")
  BY DEF PassFreshness
<1>4. ASSUME refusal = "none", Goto(r, "reserve"), UNCHANGED exit,
             job' = [job EXCEPT ![r].activity = 0, ![r].observation = ObservationFailed,
                                ![r].look = [at |-> job[r].observation.at, checked |-> clock]]
      PROVE  LiveInv'
  <2> DEFINE at == job[r].observation.at
             j == [job[r] EXCEPT !.activity = 0, !.observation = ObservationFailed,
                                 !.look = [at |-> at, checked |-> clock]]
             row == tickets[job[r].signed.fields.ticket]
             collected == request.snapshot.collected
             oldest == CoordinatorOf(TRUE).max_age
             began == job[r].activity
  <2>1. ~(at > clock) /\ ~(at < collected) /\ ~(clock > at + oldest)
    <3> HIDE DEF request
    <3> QED BY <1>4, PreflightPassesMeans
  <2>2. oldest = MaxAge /\ collected = began
    BY CollectedOfRequest DEF CoordinatorOf
  <2>3. /\ at \in Nat /\ began \in Nat /\ clock \in Nat
        /\ Approved(row) /\ SignedBefore(row, began)
        /\ row.signed.fields.issued \in Nat
    <3>1. /\ at \in Nat /\ began \in Nat /\ clock \in Nat
          /\ Approved(row) /\ SignedBefore(row, began)
      BY <1>1, <1>2, LiveStopAssumption
         DEF LiveInv, RunOK, RequestsOK, EvidenceOK, LookOK, PastGate
    <3>2. RowOK(job[r].signed.fields.ticket, row)
      BY <1>1, AtPlace DEF Working, TicketOf
    <3> QED BY <3>1, <3>2 DEF RowOK, Approved, Vetted
  <2>4. /\ JobLike(j) /\ j.signed = job[r].signed /\ j.calls = job[r].calls
        /\ j.retries = job[r].retries /\ j.look = [at |-> at, checked |-> clock]
    BY <1>2 DEF RunOK, LocalsOK, JobLike
  <2>5. job' = [job EXCEPT ![r] = j]
    BY <1>4
  <2> HIDE DEF j, at, request, collected, oldest, began
  <2>6. clock \in at .. at + MaxAge /\ SignedBefore(row, at)
    <3>1. at <= clock /\ clock <= at + MaxAge /\ began <= at
      BY <2>1, <2>2, <2>3, LiveStopAssumption
    <3>2. SignedBefore(row, at)
      BY <2>3, <3>1, LiveStopAssumption DEF SignedBefore
    <3> QED BY <2>3, <3>1, <3>2, LiveStopAssumption
  <2>7. LookOK(row, "reserve", j)
    BY <2>3, <2>4, <2>6 DEF LookOK
  <2>8. EvidenceOK("reserve", j, sent[r]) /\ LocalsOK("reserve", j)
    BY <1>1, <1>2, <2>4 DEF EvidenceOK, RunOK, LocalsOK, Working
  <2>9. /\ Approved(tickets'[j.signed.fields.ticket])
        /\ LookOK(tickets'[j.signed.fields.ticket], "reserve", j)
    BY <1>1, <2>3, <2>4, <2>7
  <2>10. License!LicenseTypeOK'
    BY <1>1, LicenceStays
  <2> QED BY <1>1, <1>2, <1>4, <2>5, <2>8, <2>9, <2>10, Advance DEF Working, PastGate
<1> QED BY <1>1, <1>2, <1>3, <1>4, EndPreserves

-----------------------------------------------------------------------------
(* The claim, the spending and the crossing. *)

LEMMA ReservePreserves ==
    ASSUME LiveInv, NEW r \in Run, Reserve(r)
    PROVE  LiveInv'
<1> DEFINE t == TicketOf(r)
           i == tickets[t].intent
<1>1. /\ pc[r] = "reserve" /\ UNCHANGED <<sent, clock>> /\ TicketsKeep /\ UNCHANGED tickets
  BY TicketsStay DEF Reserve
<1>2. sent[r] = << >> /\ RunOK(tickets, pc[r], job[r], exit[r], sent[r]) /\ t \in Ticket
  BY <1>1, AtPlace DEF Working
<1>3. ASSUME License!Acquire(i, t), Goto(r, "consume"), UNCHANGED <<job, exit>>
      PROVE  LiveInv'
  <2>1. LocalsOK("consume", job[r]) /\ EvidenceOK("consume", job[r], sent[r])
    BY <1>1, <1>2 DEF RunOK, LocalsOK, EvidenceOK, Working
  <2>2. /\ Approved(tickets'[job[r].signed.fields.ticket])
        /\ LookOK(tickets'[job[r].signed.fields.ticket], "consume", job[r])
    BY <1>1, <1>2 DEF RunOK, RequestsOK, PastGate, LookOK
  <2>3. License!LicenseTypeOK'
    BY <1>2, <1>3 DEF LiveInv, License!LicenseTypeOK, License!Acquire
  <2>4. job' = [job EXCEPT ![r] = job[r]]
    BY <1>3 DEF LiveInv
  <2> QED BY <1>1, <1>2, <1>3, <2>1, <2>2, <2>3, <2>4, Advance DEF Working, PastGate
<1> QED BY <1>1, <1>2, <1>3, EndPreserves DEF Reserve

LEMMA ConsumePreserves ==
    ASSUME LiveInv, NEW r \in Run, Consume(r)
    PROVE  LiveInv'
<1> DEFINE t == TicketOf(r)
           row == tickets[t]
<1>1. /\ pc[r] = "consume" /\ UNCHANGED <<sent, clock>> /\ UNCHANGED <<holder, used>>
      /\ t \in Ticket /\ RowOK(t, row) /\ sent[r] = << >>
      /\ RunOK(tickets, pc[r], job[r], exit[r], sent[r]) /\ Approved(row)
  BY AtPlace DEF Consume, Working, RunOK, RequestsOK, PastGate, TicketOf
<1>2. ASSUME Read(row).status = "granted",
             tickets' = [tickets EXCEPT ![t].status = "consumed"],
             Goto(r, "handle"), UNCHANGED <<job, exit>>
      PROVE  LiveInv'
  <2>1. row.status = "granted"
    BY <1>1, <1>2, ReadKeeps
  <2> DEFINE new == [row EXCEPT !.status = "consumed"]
  <2>2. /\ RowLike(new) /\ new.status = "consumed" /\ new.signed = row.signed
        /\ new.intent = row.intent /\ new.plan = row.plan /\ new.decider = row.decider
    BY <1>1 DEF RowOK, RowLike
  <2>3. tickets' = [tickets EXCEPT ![t] = new]
    BY <1>2 DEF LiveInv
  <2> HIDE DEF new
  <2>4. RowOK(t, new) /\ Keeps(row, new)
    BY <1>1, <2>1, <2>2 DEF RowOK, Keeps, Approved, Spent, Decided, Binds
  <2>5. Approved(new) /\ Spent(new) /\ LookOK(new, "handle", job[r])
    BY <1>1, <2>2, <2>4 DEF Keeps, Spent, RunOK, RequestsOK, PastGate, LookOK, SignedBefore,
                            TicketOf
  <2>6. ~Spent(row)
    BY <2>1 DEF Spent
  <2> HIDE DEF t
  <2>7. TicketsKeep /\ tickets'[t] = new
    BY <1>1, <2>3, <2>4, TicketMoves
  <2>8. LocalsOK("handle", job[r]) /\ EvidenceOK("handle", job[r], sent[r])
    BY <1>1 DEF RunOK, LocalsOK, EvidenceOK, Working
  <2>9. RequestsOK(tickets', "handle", job[r], sent[r])
    BY <1>1, <2>5, <2>7 DEF RunOK, RequestsOK, TicketOf, t
  <2>10. ExitOK("handle", job[r], exit[r], sent[r])
    BY <1>1, AtPlace DEF ExitOK, Codes
  <2>11. Dispatching("handle", sent[r]) => ~Spent(tickets[SpentBy(job[r], sent[r])])
    BY <1>1, <2>6 DEF SpentBy, TicketOf, t
  <2>12. /\ pc' = [pc EXCEPT ![r] = "handle"] /\ job' = [job EXCEPT ![r] = job[r]]
         /\ exit' = [exit EXCEPT ![r] = exit[r]] /\ sent' = [sent EXCEPT ![r] = sent[r]]
    BY <1>1, <1>2 DEF Goto, LiveInv
  <2>13. License!LicenseTypeOK'
    BY <1>1, LicenceStays
  <2>14. RunOK(tickets', "handle", job[r], exit[r], sent[r])
    BY <2>8, <2>9, <2>10 DEF RunOK, Working
  <2> QED BY <1>1, <2>7, <2>11, <2>12, <2>13, <2>14, RunStep
<1>3. ASSUME tickets' = [tickets EXCEPT ![t] = Read(row)], End(r, "refused")
      PROVE  LiveInv'
  <2>1. RowOK(t, Read(row)) /\ Keeps(row, Read(row))
    BY <1>1, ReadKeeps
  <2> HIDE DEF t
  <2>2. TicketsKeep
    BY <1>1, <1>3, <2>1, TicketMoves
  <2> QED BY <1>1, <1>3, <2>2, EndPreserves
<1> QED BY <1>2, <1>3 DEF Consume

LEMMA HandleWithoutSendingPreserves ==
    ASSUME LiveInv, NEW r \in Run, HandleWithoutSending(r)
    PROVE  LiveInv'
<1>1. /\ pc[r] = "handle" /\ UNCHANGED <<exit, sent, clock>> /\ UNCHANGED <<holder, used>>
      /\ TicketsKeep /\ Goto(r, "settle") /\ sent[r] = << >>
      /\ RunOK(tickets, pc[r], job[r], exit[r], sent[r])
  BY TicketsStay, AtPlace DEF HandleWithoutSending, authorities
<1> PICK d \in {"not_dispatched", "unknown"} :
      job' = [job EXCEPT ![r].calls = 1, ![r].evidence = d, ![r].look = NoLook]
  BY DEF HandleWithoutSending
<1> DEFINE j == [job[r] EXCEPT !.calls = 1, !.evidence = d, !.look = NoLook]
<1>2. /\ JobLike(j) /\ j.signed = job[r].signed /\ j.calls = 1
      /\ j.retries = job[r].retries /\ j.evidence = d
  BY <1>1 DEF RunOK, LocalsOK, JobLike
<1>3. job' = [job EXCEPT ![r] = j]
  BY DEF LiveInv
<1> HIDE DEF j
<1>4. LocalsOK("settle", j)
  BY <1>1, <1>2 DEF RunOK, LocalsOK, Working
<1>5. EvidenceOK("settle", j, sent[r])
  BY <1>2 DEF EvidenceOK
<1>6. License!LicenseTypeOK'
  BY <1>1, LicenceStays
<1> QED BY <1>1, <1>3, <1>4, <1>5, <1>6, Advance DEF Working, PastGate

(* A run that has sent a request has a client that sends no other. *)
LEMMA SendsFirst ==
    ASSUME LiveInv, NEW r \in Run, Send(r)
    PROVE  pc[r] = "handle" /\ sent[r] = << >>
<1>1. CASE pc[r] = "sent" /\ Len(sent[r]) < AttemptsPermitted(job[r].retries)
  <2>1. AttemptsPermitted(job[r].retries) = 1 /\ sent[r] # << >> /\ sent[r] \in Seq(Requests)
    BY <1>1 DEF LiveInv, RunOK, LocalsOK, RequestsOK
  <2>2. Len(sent[r]) \in Nat /\ Len(sent[r]) # 0
    BY <2>1, EmptySeq, LenProperties
  <2> QED BY <1>1, <2>1, <2>2
<1> QED BY <1>1, AtPlace DEF Send

LEMMA SendPreserves ==
    ASSUME LiveInv, NEW r \in Run, Send(r)
    PROVE  LiveInv'
<1>1. /\ UNCHANGED <<exit, clock>> /\ UNCHANGED <<holder, used>> /\ UNCHANGED tickets
      /\ TicketsKeep /\ Goto(r, "sent") /\ job' = [job EXCEPT ![r].calls = 1]
      /\ RunOK(tickets, pc[r], job[r], exit[r], sent[r])
  BY TicketsStay, AtPlace DEF Send, authorities
<1>2. pc[r] = "handle" /\ sent[r] = << >>
  BY SendsFirst
<1>3. TicketOf(r) \in Ticket
  BY <1>2, AtPlace DEF Working
<1>4. PICK reached \in BOOLEAN :
        sent' = [sent EXCEPT ![r] =
            Append(@, [ticket |-> TicketOf(r), reached |-> reached, time |-> clock])]
  BY DEF Send
<1> DEFINE request == [ticket |-> TicketOf(r), reached |-> reached, time |-> clock]
           requests == <<request>>
           j == [job[r] EXCEPT !.calls = 1]
<1>5. request \in Requests /\ request.ticket = TicketOf(r)
  BY <1>3 DEF Requests, LiveInv
<1>6. sent' = [sent EXCEPT ![r] = requests] /\ job' = [job EXCEPT ![r] = j]
  BY <1>1, <1>2, <1>4 DEF LiveInv
<1>7. JobLike(j) /\ j.signed = job[r].signed /\ j.calls = 1 /\ j.retries = job[r].retries
  BY <1>1 DEF RunOK, LocalsOK, JobLike
<1> HIDE DEF request, j
<1>8. requests \in Seq(Requests) /\ Len(requests) = 1 /\ requests # << >> /\ requests[1] = request
  BY <1>5
<1> HIDE DEF requests
<1>9. Approved(tickets[TicketOf(r)]) /\ Spent(tickets[TicketOf(r)])
  BY <1>1, <1>2 DEF RunOK, RequestsOK, PastGate, TicketOf
<1>10. RunOK(tickets', "sent", j, exit[r], requests)
  <2>1. LocalsOK("sent", j)
    BY <1>1, <1>2, <1>7 DEF RunOK, LocalsOK, Working
  <2>2. RequestsOK(tickets', "sent", j, requests)
    BY <1>1, <1>5, <1>8, <1>9 DEF RequestsOK, PastGate
  <2>3. EvidenceOK("sent", j, requests)
    BY <1>7 DEF EvidenceOK
  <2>4. ExitOK("sent", j, exit[r], requests)
    BY <1>2, AtPlace DEF ExitOK, Codes
  <2> QED BY <2>1, <2>2, <2>3, <2>4 DEF RunOK, Working
<1>11. Dispatching(pc[r], sent[r]) /\ SpentBy(j, requests) = SpentBy(job[r], sent[r])
  BY <1>2, <1>5, <1>8 DEF Dispatching, SpentBy, TicketOf
<1>12. /\ pc' = [pc EXCEPT ![r] = "sent"] /\ exit' = [exit EXCEPT ![r] = exit[r]]
       /\ License!LicenseTypeOK'
  BY <1>1, LicenceStays DEF Goto, LiveInv
<1> QED BY <1>1, <1>6, <1>10, <1>11, <1>12, RunStep

LEMMA AnswerPreserves ==
    ASSUME LiveInv, NEW r \in Run, Answer(r)
    PROVE  LiveInv'
<1>1. /\ pc[r] = "sent" /\ UNCHANGED <<exit, sent, clock>> /\ UNCHANGED <<holder, used>>
      /\ TicketsKeep /\ Goto(r, "settle")
      /\ RunOK(tickets, pc[r], job[r], exit[r], sent[r])
  BY TicketsStay, AtPlace DEF Answer, authorities
<1> PICK d \in Answers(r) : job' = [job EXCEPT ![r].evidence = d, ![r].look = NoLook]
  BY DEF Answer
<1> DEFINE j == [job[r] EXCEPT !.evidence = d, !.look = NoLook]
<1>2. /\ JobLike(j) /\ j.signed = job[r].signed /\ j.calls = job[r].calls
      /\ j.retries = job[r].retries /\ j.evidence = d
  BY <1>1 DEF RunOK, LocalsOK, JobLike
<1>3. job' = [job EXCEPT ![r] = j]
  BY DEF LiveInv
<1> HIDE DEF j
<1>4. LocalsOK("settle", j)
  BY <1>1, <1>2 DEF RunOK, LocalsOK, Working
<1>5. d = "accepted" => ReachedAWS(sent[r])
  <2>1. sent[r] \in Seq(Requests) /\ sent[r] # << >> /\ Len(sent[r]) <= 1
    BY <1>1 DEF RunOK, RequestsOK
  <2>2. DOMAIN sent[r] = {1}
    BY <2>1
  <2> QED BY <2>1, <2>2 DEF Answers, ReachedAWS
<1>6. EvidenceOK("settle", j, sent[r])
  BY <1>1, <1>2, <1>5 DEF EvidenceOK, RunOK
<1>7. License!LicenseTypeOK'
  BY <1>1, LicenceStays
<1> QED BY <1>1, <1>3, <1>4, <1>6, <1>7, Advance DEF Working, PastGate

(* No verdict is a refusal, and only what was accepted is a success. *)
LEMMA VerdictsMean ==
    ASSUME NEW disposition, NEW v \in Verdicts(disposition)
    PROVE  /\ v.outcome # "refused"
           /\ v.outcome = "verified_success" => disposition = "accepted"
<1> PICK key \in RejectionKeys, state \in ObservedStates : v = Classify(disposition, key, state)
  BY DEF Verdicts
<1>1. \A outcome, class : Verdict(outcome, class).outcome = outcome
  BY DEF Verdict
<1>2. FailClosed.outcome = "unknown"
  BY <1>1 DEF FailClosed
<1>3. ClassifyAccepted(state).outcome \in
         {"verified_success", "partially_verified", "failed", "unknown"}
  <2>1. CASE Verification(state) = "success"
    BY <1>1, <2>1 DEF ClassifyAccepted
  <2>2. CASE Verification(state) = "partially_verified"
    BY <1>1, <2>2 DEF ClassifyAccepted
  <2>3. CASE Verification(state) = "failed" /\ PostStateClass(state) # "unclassified"
    BY <1>1, <2>3 DEF ClassifyAccepted
  <2>4. CASE /\ Verification(state) \notin {"success", "partially_verified"}
             /\ ~(Verification(state) = "failed" /\ PostStateClass(state) # "unclassified")
    BY <1>2, <2>4 DEF ClassifyAccepted
  <2> QED BY <2>1, <2>2, <2>3, <2>4
<1>4. CASE disposition = "not_dispatched"
  BY <1>1, <1>4 DEF Classify
<1>5. CASE disposition = "rejected"
  BY <1>1, <1>5 DEF Classify
<1>6. CASE disposition = "accepted"
  BY <1>3, <1>6 DEF Classify
<1>7. CASE disposition \notin {"not_dispatched", "rejected", "accepted"}
  BY <1>2, <1>7 DEF Classify
<1> QED BY <1>4, <1>5, <1>6, <1>7

LEMMA SettlePreserves ==
    ASSUME LiveInv, NEW r \in Run, Settle(r)
    PROVE  LiveInv'
<1>1. /\ pc[r] = "settle" /\ UNCHANGED <<exit, sent, clock>> /\ TicketsKeep
      /\ Goto(r, "return") /\ RunOK(tickets, pc[r], job[r], exit[r], sent[r])
  BY TicketsStay, AtPlace DEF Settle
<1>2. ASSUME NEW outcome, job' = [job EXCEPT ![r].outcome = outcome],
             outcome # "refused",
             outcome = "verified_success" => job[r].evidence = "accepted",
             License!LicenseTypeOK'
      PROVE  LiveInv'
  <2> DEFINE j == [job[r] EXCEPT !.outcome = outcome]
  <2>1. /\ JobLike(j) /\ j.signed = job[r].signed /\ j.calls = job[r].calls
        /\ j.retries = job[r].retries /\ j.outcome = outcome
    BY <1>1 DEF RunOK, LocalsOK, JobLike
  <2>2. job' = [job EXCEPT ![r] = j]
    BY <1>2 DEF LiveInv
  <2> HIDE DEF j
  <2>3. LocalsOK("return", j)
    BY <1>1, <2>1 DEF RunOK, LocalsOK, Working
  <2>4. EvidenceOK("return", j, sent[r])
    BY <1>1, <1>2, <2>1 DEF EvidenceOK, RunOK
  <2> QED BY <1>1, <1>2, <2>2, <2>3, <2>4, Advance DEF Working, PastGate
<1> DEFINE i == tickets[TicketOf(r)].intent
<1>3. ASSUME NEW v \in Verdicts(job[r].evidence),
             License!GiveBack(i) \/ License!Spend(i),
             job' = [job EXCEPT ![r].outcome = v.outcome]
      PROVE  LiveInv'
  <2>1. License!LicenseTypeOK'
    BY <1>3 DEF LiveInv, License!LicenseTypeOK, License!GiveBack, License!Spend
  <2> DEFINE outcome == v.outcome
  <2>2. outcome # "refused" /\ (outcome = "verified_success" => job[r].evidence = "accepted")
    BY VerdictsMean
  <2>3. job' = [job EXCEPT ![r].outcome = outcome]
    BY <1>3
  <2> HIDE DEF outcome
  <2> QED BY <1>2, <2>1, <2>2, <2>3
<1>4. ASSUME job' = [job EXCEPT ![r].outcome = "unknown"], UNCHANGED <<holder, used>>
      PROVE  LiveInv'
  BY <1>2, <1>4, LicenceStays
<1> QED BY <1>3, <1>4 DEF Settle

(* What the witness of a run has is one record for each request. *)
LEMMA RecordsCount ==
    ASSUME NEW r, sent[r] \in Seq(Requests)
    PROVE  Records(r) \in Seq({DispatchRecord(1, n, AttemptsPermitted(job[r].retries), <<Target>>)
                                  : n \in DOMAIN sent[r]})
           /\ Len(Records(r)) = Len(sent[r])
<1> DEFINE record(n) == DispatchRecord(1, n, AttemptsPermitted(job[r].retries), <<Target>>)
           S == {record(n) : n \in DOMAIN sent[r]}
<1>1. DOMAIN sent[r] = 1 .. Len(sent[r]) /\ Len(sent[r]) \in Nat
  BY LenProperties
<1>2. Records(r) = [n \in 1 .. Len(sent[r]) |-> record(n)]
  BY <1>1 DEF Records
<1>3. \A n \in 1 .. Len(sent[r]) : record(n) \in S
  BY <1>1
<1> HIDE DEF record, S
<1>4. Records(r) \in Seq(S) /\ Len(Records(r)) = Len(sent[r])
  BY <1>1, <1>2, <1>3
<1> QED BY <1>4 DEF S, record

LEMMA ReturnPreserves ==
    ASSUME LiveInv, NEW r \in Run, Return(r)
    PROVE  LiveInv'
<1>1. /\ pc[r] = "return" /\ Goto(r, "ended") /\ UNCHANGED <<sent, clock>>
      /\ UNCHANGED <<holder, used>> /\ TicketsKeep
      /\ RunOK(tickets', pc[r], job[r], exit[r], sent[r])
  <2>1. TicketsKeep
    BY TicketsStay DEF Return, authorities
  <2> QED BY <2>1, OthersStay DEF Return, authorities
<1> PICK armed \in BOOLEAN :
      /\ exit' = [exit EXCEPT ![r] =
            IF AssertSingleDispatch(r, armed) = "none" THEN ExitCodeFor(job[r].outcome)
            ELSE AssertSingleDispatch(r, armed)]
      /\ job' = [job EXCEPT ![r] = [NoJob EXCEPT !.armed = armed, !.retries = job[r].retries]]
  BY DEF Return
<1> DEFINE raised == AssertSingleDispatch(r, armed)
           code == IF raised = "none" THEN ExitCodeFor(job[r].outcome) ELSE raised
           j == [NoJob EXCEPT !.armed = armed, !.retries = job[r].retries]
<1>2. JobLike(j) /\ j.calls = 0 /\ j.retries = job[r].retries /\ j.armed = armed
  BY DEF NoJob, JobLike
<1>raised. raised \in {"none", "error"}
  BY <1>1 DEF AssertSingleDispatch, RunOK, EvidenceOK
<1>3. code \in {"success", "inconclusive", "error"}
  BY <1>1, <1>raised DEF ExitCodeFor, RunOK, EvidenceOK
<1>4. code = "success" => ReachedAWS(sent[r])
  BY <1>1, <1>raised DEF ExitCodeFor, RunOK, EvidenceOK
<1>5. ASSUME armed, raised = "none"
      PROVE  sent[r] # << >>
  <2>1. SingleDispatch(Records(r))
    BY <1>1, <1>5 DEF AssertSingleDispatch, RunOK, EvidenceOK
  <2>2. Len(Records(r)) # 0
    BY <2>1 DEF SingleDispatch, Violations
  <2>3. Len(sent[r]) # 0
    BY <1>1, <2>2, RecordsCount DEF RunOK, RequestsOK
  <2> QED BY <2>3
<1>6. code \in {"success", "inconclusive"} /\ armed => sent[r] # << >>
  BY <1>5, <1>raised
<1>7. exit' = [exit EXCEPT ![r] = code] /\ job' = [job EXCEPT ![r] = j]
  OBVIOUS
<1> HIDE DEF code, j
<1>8. LocalsOK("ended", j)
  BY <1>1, <1>2 DEF RunOK, LocalsOK, Working
<1>9. RequestsOK(tickets', "ended", j, sent[r])
  BY <1>1 DEF RunOK, RequestsOK, PastGate
<1>10. EvidenceOK("ended", j, sent[r])
  BY DEF EvidenceOK
<1>11. ExitOK("ended", j, code, sent[r])
  BY <1>2, <1>3, <1>4, <1>6 DEF ExitOK, Codes
<1>12. RunOK(tickets', "ended", j, code, sent[r])
  BY <1>8, <1>9, <1>10, <1>11 DEF RunOK
<1>13. Dispatching("ended", sent[r]) =>
          Dispatching(pc[r], sent[r]) /\ SpentBy(j, sent[r]) = SpentBy(job[r], sent[r])
  BY DEF Dispatching, SpentBy
<1> DEFINE requests == sent[r]
<1>14. /\ pc' = [pc EXCEPT ![r] = "ended"] /\ sent' = [sent EXCEPT ![r] = requests]
       /\ License!LicenseTypeOK' /\ UNCHANGED clock
  BY <1>1, LicenceStays DEF Goto, LiveInv
<1>15. /\ RunOK(tickets', "ended", j, code, requests)
       /\ Dispatching("ended", requests) =>
             Dispatching(pc[r], sent[r]) /\ SpentBy(j, requests) = SpentBy(job[r], sent[r])
  BY <1>12, <1>13
<1> DEFINE place == "ended"
<1>16. /\ pc' = [pc EXCEPT ![r] = place] /\ RunOK(tickets', place, j, code, requests)
       /\ Dispatching(place, requests) =>
             Dispatching(pc[r], sent[r]) /\ SpentBy(j, requests) = SpentBy(job[r], sent[r])
  BY <1>14, <1>15
<1> HIDE DEF requests, place
<1> QED BY <1>1, <1>7, <1>14, <1>16, RunStep

-----------------------------------------------------------------------------
(* The steps of no run. *)

LEMMA NoRunMoves ==
    ASSUME LiveInv, TicketsKeep, UNCHANGED <<pc, job, exit, sent>>, UNCHANGED <<holder, used>>,
           clock' \in 0 .. MaxClock
    PROVE  LiveInv'
<1>1. \A r \in Run : RunOK(tickets', pc'[r], job'[r], exit'[r], sent'[r])
  BY OthersStay
<1>2. NoTicketIsSpentTwice'
  BY DEF LiveInv, NoTicketIsSpentTwice
<1>3. License!LicenseTypeOK'
  BY LicenceStays
<1> QED BY <1>1, <1>2, <1>3 DEF LiveInv, TicketsKeep

LEMMA PreparePreserves ==
    ASSUME LiveInv, NEW t \in Ticket, Prepare(t)
    PROVE  LiveInv'
<1> PICK i \in Intent :
      tickets' = [tickets EXCEPT ![t] =
          [Absent EXCEPT !.status = "pending", !.intent = i, !.plan = t, !.prepared = clock]]
  BY DEF Prepare
<1> DEFINE row == [Absent EXCEPT !.status = "pending", !.intent = i, !.plan = t,
                                 !.prepared = clock]
<1>1. RowLike(row) /\ row.status = "pending" /\ row.intent = i
  BY DEF Absent, RowLike
<1>2. tickets' = [tickets EXCEPT ![t] = row]
  OBVIOUS
<1> HIDE DEF row
<1>3. RowOK(t, row)
  BY <1>1 DEF RowOK, Decided
<1>4. Keeps(tickets[t], row)
  BY DEF Prepare, Keeps, Approved, Spent, Decided
<1>5. TicketsKeep
  BY <1>2, <1>3, <1>4, TicketMoves
<1>6. /\ UNCHANGED <<pc, job, exit, sent>> /\ UNCHANGED <<holder, used>>
      /\ clock' \in 0 .. MaxClock
  BY DEF Prepare, LiveInv
<1> QED BY <1>5, <1>6, NoRunMoves

LEMMA TickPreserves == LiveInv /\ Tick => LiveInv'
<1> SUFFICES ASSUME LiveInv, Tick PROVE LiveInv'
  OBVIOUS
<1>1. /\ UNCHANGED <<pc, job, exit, sent>> /\ UNCHANGED <<holder, used>>
      /\ clock' \in 0 .. MaxClock /\ UNCHANGED tickets
  BY DEF Tick, authorities
<1> QED BY <1>1, TicketsStay, NoRunMoves

LEMMA StutterPreserves == LiveInv /\ UNCHANGED liveVars => LiveInv'
<1> SUFFICES ASSUME LiveInv, UNCHANGED liveVars PROVE LiveInv'
  OBVIOUS
<1>1. /\ UNCHANGED <<pc, job, exit, sent>> /\ UNCHANGED <<holder, used>>
      /\ clock' \in 0 .. MaxClock /\ UNCHANGED tickets
  BY DEF liveVars, authorities, LiveInv
<1> QED BY <1>1, TicketsStay, NoRunMoves

LEMMA InitEstablishes == LiveInit => LiveInv
<1> SUFFICES ASSUME LiveInit PROVE LiveInv
  OBVIOUS
<1>1. \A t \in Ticket : RowOK(t, tickets[t])
  <2> TAKE t \in Ticket
  <2>1. RowLike(Absent) /\ Absent.status = "absent" /\ Absent.intent = "none"
    BY DEF Absent, RowLike
  <2>2. tickets[t] = Absent
    BY DEF LiveInit
  <2> QED BY <2>1, <2>2 DEF RowOK, Decided
<1>2. \A r \in Run : RunOK(tickets, pc[r], job[r], exit[r], sent[r])
  <2> TAKE r \in Run
  <2>1. pc[r] = "idle" /\ job[r] = NoJob /\ exit[r] = "none" /\ sent[r] = << >>
    BY DEF LiveInit
  <2>2. LocalsOK("idle", NoJob)
    BY NoJobOK DEF LocalsOK, Working
  <2>3. << >> \in Seq(Requests) /\ Len(<< >>) = 0
    OBVIOUS
  <2>4. RequestsOK(tickets, "idle", NoJob, << >>)
    BY <2>3 DEF RequestsOK, PastGate
  <2>5. EvidenceOK("idle", NoJob, << >>) /\ ExitOK("idle", NoJob, "none", << >>)
    BY DEF EvidenceOK, ExitOK, Codes
  <2> QED BY <2>1, <2>2, <2>4, <2>5 DEF RunOK
<1>3. NoTicketIsSpentTwice
  BY DEF LiveInit, NoTicketIsSpentTwice, Dispatching
<1>4. License!LicenseTypeOK
  BY DEF LiveInit, License!LicenseInit, License!LicenseTypeOK
<1>5. clock \in 0 .. MaxClock
  BY LiveStopAssumption DEF LiveInit
<1>6. /\ tickets = [t \in Ticket |-> tickets[t]] /\ job = [r \in Run |-> job[r]]
      /\ pc = [r \in Run |-> pc[r]] /\ exit = [r \in Run |-> exit[r]]
      /\ sent = [r \in Run |-> sent[r]]
  BY DEF LiveInit
<1> QED BY <1>1, <1>2, <1>3, <1>4, <1>5, <1>6 DEF LiveInv

LEMMA NextPreserves == LiveInv /\ [LiveNext]_liveVars => LiveInv'
<1> SUFFICES ASSUME LiveInv, [LiveNext]_liveVars PROVE LiveInv'
  OBVIOUS
<1>1. ASSUME NEW r \in Run, Step(r) PROVE LiveInv'
  BY <1>1, StartRefusedPreserves, StartPreserves, ReadTicketPreserves, GrantPreserves,
     PassGatePreserves, ObservePreserves, PassFreshnessPreserves, ReservePreserves,
     ConsumePreserves, HandleWithoutSendingPreserves, SendPreserves, AnswerPreserves,
     SettlePreserves, ReturnPreserves, StoreFailsPreserves, CrashPreserves DEF Step
<1> QED BY <1>1, PreparePreserves, TickPreserves, StutterPreserves DEF LiveNext

(* What holds of every run of the live path, whatever its deployment: what *)
(* execute_live_stop knows at each of its steps.                           *)
THEOREM LiveInvariant == LiveSpec => []LiveInv
BY InitEstablishes, NextPreserves, PTL DEF LiveSpec

-----------------------------------------------------------------------------
(* What follows. *)

(* Every variable keeps its type. *)
THEOREM LiveTypeCorrect == LiveSpec => []LiveTypeOK
<1>1. LiveInv => LiveTypeOK
  <2> SUFFICES ASSUME LiveInv PROVE LiveTypeOK
    OBVIOUS
  <2>1. \A t \in Ticket :
          /\ tickets[t].status \in {"absent", "pending", "granted", "consumed", "expired"}
          /\ tickets[t].intent \in Intent \cup {"none"}
    BY DEF LiveInv, RowOK, Decided
  <2>2. exit \in [Run -> Codes]
    BY DEF LiveInv, RunOK, ExitOK
  <2>3. \A r \in Run : job[r].calls \in {0, 1}
    BY DEF LiveInv, RunOK, LocalsOK
  <2> QED BY <2>1, <2>2, <2>3 DEF LiveInv, LiveTypeOK
<1> QED BY <1>1, LiveInvariant, PTL

(* A request of a run is its first and only one. *)
LEMMA CallsAreFirst ==
    ASSUME LiveInv, NEW c \in Calls
    PROVE  /\ c[1] \in Run /\ c = <<c[1], 1>> /\ sent[c[1]] # << >> /\ Len(sent[c[1]]) = 1
           /\ sent[c[1]][1] \in Requests /\ CallOf(c) = sent[c[1]][1]
<1>1. c \in Run \X (1 .. 3) /\ c[2] \in DOMAIN sent[c[1]]
  BY DEF Calls
<1>2. c[1] \in Run /\ c = <<c[1], c[2]>>
  BY <1>1
<1>3. sent[c[1]] \in Seq(Requests) /\ Len(sent[c[1]]) <= 1
  BY <1>2 DEF LiveInv, RunOK, RequestsOK
<1>4. c[2] = 1 /\ Len(sent[c[1]]) = 1
  <2> DEFINE requests == sent[c[1]]
             k == c[2]
             length == Len(requests)
  <2>1. length \in Nat /\ DOMAIN requests = 1 .. length /\ length <= 1 /\ k \in DOMAIN requests
    BY <1>1, <1>3, LenProperties
  <2> HIDE DEF requests, k, length
  <2>2. k = 1 /\ length = 1
    BY <2>1
  <2> QED BY <2>2 DEF requests, k, length
<1>5. sent[c[1]][1] \in Requests
  BY <1>3, <1>4
<1> QED BY <1>2, <1>3, <1>4, <1>5 DEF CallOf

(* However often an artifact is presented, one request leaves under its    *)
(* ticket: for any number of runs, tickets and intents.                    *)
THEOREM OneRequestPerArtifactAlways == LiveSpec => []OneRequestPerArtifact
<1>1. LiveInv => OneRequestPerArtifact
  <2> SUFFICES ASSUME LiveInv, NEW c \in Calls, NEW d \in Calls,
                      CallOf(c).ticket = CallOf(d).ticket
               PROVE  c = d
    BY DEF OneRequestPerArtifact
  <2>1. /\ c[1] \in Run /\ d[1] \in Run /\ c = <<c[1], 1>> /\ d = <<d[1], 1>>
        /\ sent[c[1]] # << >> /\ sent[d[1]] # << >>
        /\ sent[c[1]][1].ticket = sent[d[1]][1].ticket
    BY CallsAreFirst
  <2>2. c[1] = d[1]
    BY <2>1 DEF LiveInv, NoTicketIsSpentTwice, Dispatching, SpentBy
  <2> QED BY <2>1, <2>2
<1> QED BY <1>1, LiveInvariant, PTL

(* The row of a decided ticket gives back the artifact that granted it. *)
LEMMA StoredIsTheArtifact ==
    ASSUME NEW t, NEW row, Vetted(row.signed), Binds(row.signed.fields, t, row, Target)
    PROVE  VerifySignedApproval(StoredApproval(t, row, Target), row.signed.fields.signer)
<1> DEFINE f == row.signed.fields
           g == [f EXCEPT !.ticket = t, !.resource = Target, !.action = "stop",
                          !.plan = row.plan, !.intent = row.intent]
<1>1. /\ FieldsLike(f) /\ f.ticket = t /\ f.resource = Target /\ f.action = "stop"
      /\ f.plan = row.plan /\ f.intent = row.intent
  BY DEF Vetted, Binds
<1>2. g = f
  BY <1>1 DEF FieldsLike
<1>3. StoredApproval(t, row, Target) = [fields |-> f, signature |-> row.signed.signature]
  BY <1>2 DEF StoredApproval
<1> QED BY <1>3 DEF Vetted, VerifySignedApproval

(* A granted ticket is one whose artifact verifies, and is rebuilt as such *)
(* from its row.                                                           *)
THEOREM GrantedArtifactsVerifyAlways == LiveSpec => []GrantedArtifactsVerify
<1>1. LiveInv => GrantedArtifactsVerify
  <2> SUFFICES ASSUME LiveInv, NEW t \in Ticket,
                      tickets[t].status \in {"granted", "consumed", "expired"}
               PROVE  /\ tickets[t].signed.fields.signer \in Policy.keys
                      /\ VerifySignedApproval(StoredApproval(t, tickets[t], Target),
                                              tickets[t].signed.fields.signer)
    BY DEF GrantedArtifactsVerify
  <2>1. Vetted(tickets[t].signed) /\ Binds(tickets[t].signed.fields, t, tickets[t], Target)
    BY DEF LiveInv, RowOK, Decided
  <2> QED BY <2>1, StoredIsTheArtifact DEF Vetted
<1> QED BY <1>1, LiveInvariant, PTL

(* A request leaves only under a spent ticket that the approver signed for *)
(* this intent.                                                            *)
THEOREM DispatchIsApprovedAlways == LiveSpec => []DispatchIsApproved
<1>1. LiveInv => DispatchIsApproved
  <2> SUFFICES ASSUME LiveInv, NEW c \in Calls
               PROVE  LET row == tickets[CallOf(c).ticket]
                      IN  /\ row.status = "consumed"
                          /\ {row.signed.fields.signer, row.decider} \cap Policy.operators = {}
                          /\ row.signed = SignApproval(row.signed.fields, "approver")
                          /\ row.signed.fields.intent = row.intent
    BY DEF DispatchIsApproved
  <2> DEFINE t == CallOf(c).ticket
             row == tickets[t]
  <2>1. t \in Ticket /\ Approved(row) /\ Spent(row)
    BY CallsAreFirst DEF Requests, LiveInv, RunOK, RequestsOK
  <2>2. Vetted(row.signed) /\ Binds(row.signed.fields, t, row, Target)
    BY <2>1 DEF LiveInv, RowOK, Approved
  <2> HIDE DEF row, t
  <2>3. {row.signed.fields.signer, row.decider} \cap Policy.operators = {}
    BY <2>1 DEF Approved
  <2>4. row.signed.fields.signer = "approver"
    BY <2>2, <2>3 DEF Vetted, Policy
  <2>5. row.signed = SignApproval(row.signed.fields, "approver")
    BY <2>2, <2>4 DEF Vetted, SignedLike, VerifySignedApproval, SignApproval
  <2> QED BY <2>1, <2>2, <2>3, <2>5 DEF Spent, Binds, row, t
<1> QED BY <1>1, LiveInvariant, PTL

(* Nothing seen before the approver signed is acted on, and nothing that   *)
(* the gate found too old or dated ahead: whatever the clocks do, and      *)
(* whichever run granted the ticket.                                       *)
THEOREM RequestsRestOnALaterLookAlways == LiveSpec => RequestsRestOnALaterLook
<1> DEFINE Rests(r) == LET look == job[r].look
                           approval == tickets[TicketOf(r)].signed.fields
                       IN  /\ approval.issued <= look.at + AllowedSkew
                           /\ look.checked \in look.at .. look.at + MaxAge
           A == \A r \in Run : sent'[r] # sent[r] => Rests(r)
<1>1. LiveInv /\ [LiveNext]_liveVars => [A]_sent
  <2> SUFFICES ASSUME LiveInv, LiveNext, NEW r \in Run, sent'[r] # sent[r] PROVE Rests(r)
    BY DEF liveVars
  <2>1. Send(r)
    <3>1. PICK x \in Run : Send(x)
      BY DEF LiveNext, Step, StartRefused, Start, ReadTicket, Grant, PassGate, Observe,
             PassFreshness, Reserve, Consume, HandleWithoutSending, Answer, Settle, Return,
             StoreFails, Crash, Prepare, Tick
    <3>2. CASE x # r
      BY <3>1, <3>2 DEF Send, LiveInv
    <3> QED BY <3>1, <3>2
  <2>2. pc[r] = "handle"
    BY <2>1, SendsFirst
  <2> QED BY <2>2 DEF LiveInv, RunOK, RequestsOK, PastGate, LookOK, SignedBefore, TicketOf
<1> HIDE DEF A
<1>2. LiveSpec => [][A]_sent
  BY <1>1, LiveInvariant, PTL DEF LiveSpec
<1> QED BY <1>2 DEF A, RequestsRestOnALaterLook

(* A sequence of at most one element that is not empty has one. *)
LEMMA OneRequest ==
    ASSUME LiveInv, NEW r \in Run, sent[r] # << >>
    PROVE  Len(sent[r]) = 1
<1>1. sent[r] \in Seq(Requests) /\ Len(sent[r]) <= 1
  BY DEF LiveInv, RunOK, RequestsOK
<1> DEFINE length == Len(sent[r])
<1>2. length \in Nat /\ length # 0 /\ length <= 1
  BY <1>1, LenProperties, EmptySeq
<1> HIDE DEF length
<1>3. length = 1
  BY <1>2
<1> QED BY <1>3 DEF length

(* The exit codes say what left the host. *)
THEOREM ExitCodesAreHonestAlways == LiveSpec => []ExitCodesAreHonest
<1>1. LiveInv => ExitCodesAreHonest
  BY OneRequest DEF LiveInv, RunOK, ExitOK, ReachedAWS, ExitCodesAreHonest
<1> QED BY <1>1, LiveInvariant, PTL

(* Under a witness, a run that reports any outcome sent one request. *)
THEOREM ReportedRunsSentOnceAlways == LiveSpec => []ReportedRunsSentOnce
<1>1. LiveInv => ReportedRunsSentOnce
  BY OneRequest DEF LiveInv, RunOK, ExitOK, ReportedRunsSentOnce
<1> QED BY <1>1, LiveInvariant, PTL

-----------------------------------------------------------------------------
(* What reconciliation says, of any evidence. *)

LEMMA OutcomesMean ==
    ASSUME NEW evidence, NEW run
    PROVE  /\ Reconcile(evidence, run) = "no_dispatch_observed" => run.attempts = 0
           /\ Reconcile(evidence, run) = "confirmed" => AllChecksPass(evidence, run)
BY DEF Reconcile

(* What passes every check is one event at least. *)
LEMMA SomethingWasSeen ==
    ASSUME NEW evidence, NEW run, AllChecksPass(evidence, run)
    PROVE  evidence.events # {}
<1>1. Cardinality(Matched(evidence, run)) = 1
  BY DEF AllChecksPass, AwsCount
<1>2. Matched(evidence, run) # {}
  BY <1>1, FS_EmptySet
<1> QED BY <1>2 DEF Matched, Scoped

(* What was stated of a run counts its requests. *)
LEMMA StatedCounts ==
    ASSUME LiveInv, NEW r \in Run, NEW window
    PROVE  StatedOf(r, window).attempts = Len(sent[r])
BY RecordsCount DEF LiveInv, RunOK, RequestsOK, StatedOf

(* However late CloudTrail is, no second attempt is licensed for a run     *)
(* that handed a request to the sender.                                    *)
THEOREM LicensedRetryIsSafeAlways == LiveSpec => []LicensedRetryIsSafe
<1>1. LiveInv => LicensedRetryIsSafe
  <2> SUFFICES ASSUME LiveInv, NEW r \in Reconcilable, sent[r] # << >>,
                      NEW report \in Reports(r), RetryPermissible(report.outcome)
               PROVE  FALSE
    BY DEF LicensedRetryIsSafe
  <2>1. r \in Run
    BY DEF Reconcilable
  <2> PICK d \in Deliveries, w \in WindowsOf(r) : report = ReportOf(r, d, w)
    BY DEF Reports
  <2>2. report.outcome = Reconcile(ReadStopEvents(d, w, "auditor", TRUE), StatedOf(r, w))
    BY DEF ReportOf
  <2>3. StatedOf(r, w).attempts = 0
    BY <2>2, OutcomesMean DEF RetryPermissible
  <2> QED BY <2>1, <2>3, StatedCounts, OneRequest
<1> QED BY <1>1, LiveInvariant, PTL

(* A confirmed run sent one request, and nobody else's stop of the target  *)
(* has been delivered of the window.                                       *)
THEOREM ConfirmationIsSoundAlways == LiveSpec => []ConfirmationIsSound
<1>1. LiveInv => ConfirmationIsSound
  <2> SUFFICES ASSUME LiveInv, NEW r \in Reconcilable, NEW report \in Reports(r),
                      report.outcome = "confirmed"
               PROVE  /\ Len(sent[r]) = 1
                      /\ \A e \in report.delivered :
                            InWindow(e, report.window) =>
                                e.requested = {Target} /\ e.principal = Principal
    BY DEF ConfirmationIsSound
  <2>1. r \in Run
    BY DEF Reconcilable
  <2> PICK d \in Deliveries, w \in WindowsOf(r) : report = ReportOf(r, d, w)
    BY DEF Reports
  <2>2. /\ report.outcome = Reconcile(ReadStopEvents(d, w, "auditor", TRUE), StatedOf(r, w))
        /\ report.delivered = d /\ report.window = w
    BY DEF ReportOf
  <2> DEFINE evidence == ReadStopEvents(d, w, "auditor", TRUE)
             stated == StatedOf(r, w)
  <2>3. evidence.available /\ AllChecksPass(evidence, stated)
    <3>1. Reconcile(evidence, stated) = "confirmed"
      BY <2>2
    <3>2. evidence.events # {} => evidence.available
      BY DEF ReadStopEvents, Unavailable
    <3> HIDE DEF evidence, stated
    <3> QED BY <3>1, <3>2, OutcomesMean, SomethingWasSeen
  <2>4. stated.attempts = 1
    BY <2>3 DEF AllChecksPass, WitnessAgreement
  <2>5. Len(sent[r]) = 1
    BY <2>1, <2>4, StatedCounts
  <2>6. /\ stated.target = Target /\ stated.principal = Principal
        /\ stated.window = w
    BY DEF StatedOf
  <2>7. ASSUME NEW e \in d, InWindow(e, w)
        PROVE  e.requested = {Target} /\ e.principal = Principal
    <3>1. /\ e.stop /\ e.requested = {Target} /\ ~e.read_only
      <4>1. e \in Recorded \/ e \in OtherStops
        BY DEF Deliveries, kSubset
      <4> QED BY <4>1 DEF Recorded, OtherStops
    <3>2. NormalizeEvent(e) \in evidence.events
      BY <2>3, <2>7, <3>1 DEF ReadStopEvents, StopRecords, Unavailable
    <3>3. /\ NormalizeEvent(e).targets = {Target} /\ NormalizeEvent(e).time = e.time
          /\ NormalizeEvent(e).principal = e.principal /\ ~NormalizeEvent(e).read_only
      BY <3>1 DEF NormalizeEvent, InstanceIds
    <3> HIDE DEF evidence, stated
    <3> DEFINE n == NormalizeEvent(e)
    <3>4. n \in Scoped(evidence, stated)
      BY <2>6, <2>7, <3>2, <3>3 DEF Scoped, ForTarget, InWindow
    <3>5. n \in Matched(evidence, stated)
      BY <2>3, <3>4 DEF AllChecksPass, PrincipalAttribution
    <3> QED BY <2>6, <3>1, <3>3, <3>5 DEF Matched, ByPrincipal
  <2> QED BY <2>2, <2>5, <2>7
<1> QED BY <1>1, LiveInvariant, PTL
=============================================================================
