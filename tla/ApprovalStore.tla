--------------------------- MODULE ApprovalStore ---------------------------
(***************************************************************************)
(* The durable approval authority (approval.py, approval_ledger.py): one   *)
(* SQLite file of tickets, of the events that record their history, and of *)
(* the nonces of the signed artifacts that granted them.                   *)
(*                                                                         *)
(* Approvers, operators and coordinators are `Client`s.  A transition is   *)
(* three steps, as in the code: `_transition` reads the ticket on one      *)
(* connection, lets an expiry that is due be recorded in a transaction of  *)
(* its own and gates the move; reads the clock again to stamp it; and only *)
(* then opens the write transaction whose compare-and-swap may find the    *)
(* ticket changed.  `request` is what a client holds in between.  Time     *)
(* passes between any two steps.                                           *)
(***************************************************************************)
EXTENDS Naturals, FiniteSets

CONSTANTS
    Ticket,             \* ticket ids
    Client,             \* threads or processes that use the store
    Nonce,              \* nonces of signed approval artifacts
    DecisionTTL,        \* how long a PENDING ticket may be decided
    ExecutionTTL,       \* the longest window a grant may authorize
    MaxClock,           \* bound: the last moment a run looks at
    ClockMayStepBack    \* TRUE: the wall clock may be set back

ASSUME TTLAssumption == DecisionTTL \in Nat /\ ExecutionTTL \in Nat
ASSUME MaxClockAssumption == MaxClock \in Nat
ASSUME ApprovalClockAssumption == ClockMayStepBack \in BOOLEAN
ASSUME NonceAssumption == "none" \notin Nonce
ASSUME TicketAssumption == "none" \notin Ticket

VARIABLES
    tickets,    \* the ticket table, by ticket id
    events,     \* the ticket_event table
    nonces,     \* the approval_nonce table
    request,    \* request[c]: the transition c has gated but not yet written
    clock       \* the wall clock; 0 is no moment, it stands for SQL NULL

approvalVars == <<tickets, events, nonces, request, clock>>

-----------------------------------------------------------------------------
(* Vocabulary. *)

TerminalStatuses == {"denied", "expired", "consumed", "revoked"}
Statuses == {"absent", "pending", "granted"} \cup TerminalStatuses

LegalApprovalTransitions(status) ==
    CASE status = "pending" -> {"granted", "denied", "expired", "revoked"}
      [] status = "granted" -> {"consumed", "expired", "revoked"}
      [] OTHER              -> {}

(* A ticket id with no row is the ticket "absent". *)
TicketRow ==
    [status : Statuses, revision : Nat, created_at : Nat, decided_at : Nat,
     execution_deadline : Nat, nonce : Nonce \cup {"none"}]

Absent == [status |-> "absent", revision |-> 0, created_at |-> 0,
           decided_at |-> 0, execution_deadline |-> 0, nonce |-> "none"]

Event == [ticket_id : Ticket, revision : Nat, status : Statuses]

NonceRow == [nonce : Nonce, ticket_id : Ticket]

(* A transition under way: the ticket it read and when it was gated, what  *)
(* a signed artifact asks for (no window and no nonce without one), and    *)
(* the moment it is stamped with, 0 before that.                           *)
Request ==
    [ticket_id : Ticket \cup {"none"}, read : TicketRow, status : Statuses,
     window : Nat, nonce : Nonce \cup {"none"}, gated_at : Nat, moment : Nat]

(* A client that is not inside a transition. *)
NoRequest == [ticket_id |-> "none", read |-> Absent, status |-> "absent",
              window |-> 0, nonce |-> "none", gated_at |-> 0, moment |-> 0]

Waiting(c) == request[c].ticket_id # "none"

Issued(t) == tickets[t].status # "absent"

-----------------------------------------------------------------------------
(* Expiry. *)

(* Mutant: a decision window that has not opened yet is not looked at.     *)
DueAfterDecisionWindow(k) ==
    \/ k.status = "pending" /\ clock > k.created_at + DecisionTTL
    \/ k.status = "granted" /\ clock > k.execution_deadline

(* _due_reason: has the ticket run out of time at the current moment? *)
Due(k) ==
    \/ /\ k.status = "pending"
       /\ clock < k.created_at \/ clock > k.created_at + DecisionTTL
    \/ k.status = "granted" /\ clock > k.execution_deadline

(* _apply: the successor of a ticket; decided_at is written once, and the  *)
(* window and nonce of a grant are facts every later state keeps.          *)
Successor(k, status, deadline, nonce, moment) ==
    [status |-> status,
     revision |-> k.revision + 1,
     created_at |-> k.created_at,
     decided_at |-> IF k.decided_at = 0 THEN moment ELSE k.decided_at,
     execution_deadline |-> IF status = "granted" THEN deadline
                            ELSE k.execution_deadline,
     nonce |-> IF status = "granted" THEN nonce ELSE k.nonce]

(* Mutant: the event of a write repeats the revision before it. *)
WithEventOfPreviousRevision(t, k) ==
    events \cup {[ticket_id |-> t, status |-> k.status,
                  revision |-> IF k.revision = 0 THEN 0 ELSE k.revision - 1]}

(* _append_event: the row that goes with a write of ticket t. *)
WithEvent(t, k) ==
    events \cup {[ticket_id |-> t, revision |-> k.revision, status |-> k.status]}

Write(t, k) ==
    /\ tickets' = [tickets EXCEPT ![t] = k]
    /\ events' = WithEvent(t, k)

(* _record_due_expiry, which every read and every transition starts with:  *)
(* under the write lock the row is read again and expires if it is due.    *)
RecordDueExpiry(t) ==
    /\ Due(tickets[t])
    /\ Write(t, Successor(tickets[t], "expired", 0, "none", clock))
    /\ UNCHANGED <<nonces, request, clock>>

-----------------------------------------------------------------------------
(* Operations. *)

(* create_ticket: a new id only, PENDING at revision 0 with its event. *)
CreateTicket(t) ==
    /\ ~Issued(t)
    /\ Write(t, [status |-> "pending", revision |-> 0, created_at |-> clock,
                 decided_at |-> 0, execution_deadline |-> 0, nonce |-> "none"])
    /\ UNCHANGED <<nonces, request, clock>>

(* The reads and gates of _transition.  A due ticket is expired, not       *)
(* moved; the move must be in the table.                                   *)
GateTransition(c, t, status, window, nonce) ==
    /\ ~Waiting(c)
    /\ ~Due(tickets[t])
    /\ status \in LegalApprovalTransitions(tickets[t].status)
    /\ request' = [request EXCEPT ![c] =
                     [ticket_id |-> t, read |-> tickets[t], status |-> status,
                      window |-> window, nonce |-> nonce,
                      gated_at |-> clock, moment |-> 0]]
    /\ UNCHANGED <<tickets, events, nonces, clock>>

Grant(c, t) == GateTransition(c, t, "granted", 0, "none")

(* A grant from a signed artifact that names ticket t.  An artifact that   *)
(* names another ticket, resource, action, plan or intent is refused.      *)
GrantSigned(c, t, window, nonce) == GateTransition(c, t, "granted", window, nonce)

Deny(c, t) == GateTransition(c, t, "denied", 0, "none")

Expire(c, t) == GateTransition(c, t, "expired", 0, "none")

Revoke(c, t) == GateTransition(c, t, "revoked", 0, "none")

(* consume: redeems the ticket at exactly the revision the caller names;   *)
(* one that names another revision is refused, and nothing changes.        *)
Consume(c, t, revision) ==
    /\ tickets[t].revision = revision
    /\ GateTransition(c, t, "consumed", 0, "none")

(* signed_grant_changes: the window of a signed artifact is still open and *)
(* within the store's ceiling.                                             *)
Admissible(r) ==
    r.nonce # "none" => r.window > clock /\ r.window <= clock + ExecutionTTL

(* The moment a transition is stamped with, which is what its decision     *)
(* time, its execution window and its event record.                        *)
Stamp(c) ==
    /\ Waiting(c)
    /\ request[c].moment = 0
    /\ Admissible(request[c])
    /\ request' = [request EXCEPT ![c].moment = clock]
    /\ UNCHANGED <<tickets, events, nonces, clock>>

(* The row a stamped request writes.  An unsigned grant opens the store's  *)
(* own execution window.                                                   *)
Written(r) ==
    Successor(r.read, r.status,
              IF r.nonce = "none" THEN r.moment + ExecutionTTL ELSE r.window,
              r.nonce, r.moment)

(* Mutant: WHERE ticket_id = ? alone. *)
MatchesTicketId(r) == TRUE

(* _commit_update: UPDATE ... WHERE ticket_id = ? AND revision = ? *)
Matches(r) == tickets[r.ticket_id].revision = r.read.revision

(* Mutant: later transitions, and unsigned grants, record a nonce too. *)
NonceOfEveryWrite(r) ==
    {[nonce |-> Written(r).nonce, ticket_id |-> r.ticket_id]}

(* The nonce a request records: only a grant from an artifact has one. *)
NoncesOf(r) ==
    IF r.nonce = "none" THEN {}
    ELSE {[nonce |-> r.nonce, ticket_id |-> r.ticket_id]}

(* Mutant: the nonce column has no UNIQUE constraint. *)
AnyNonce(r) == TRUE

(* approval_nonce.nonce is UNIQUE. *)
FreshNonce(r) == \A a \in NoncesOf(r), b \in nonces : a.nonce # b.nonce

(* The end of _transition: row, event and nonce in one transaction. *)
Commit(c) ==
    /\ Waiting(c)
    /\ request[c].moment # 0
    /\ Matches(request[c])
    /\ FreshNonce(request[c])
    /\ Write(request[c].ticket_id, Written(request[c]))
    /\ nonces' = nonces \cup NoncesOf(request[c])
    /\ request' = [request EXCEPT ![c] = NoRequest]
    /\ UNCHANGED clock

(* The artifact's window is refused, the compare-and-swap matched no row,  *)
(* the nonce was used before, the write lock or the commit failed, or the  *)
(* client crashed: nothing of the transaction remains.                     *)
Abandon(c) ==
    /\ Waiting(c)
    /\ request' = [request EXCEPT ![c] = NoRequest]
    /\ UNCHANGED <<tickets, events, nonces, clock>>

Tick ==
    /\ clock < MaxClock
    /\ clock' = clock + 1
    /\ UNCHANGED <<tickets, events, nonces, request>>

StepClockBack ==
    /\ ClockMayStepBack
    /\ \E m \in 1 .. MaxClock : m < clock /\ clock' = m
    /\ UNCHANGED <<tickets, events, nonces, request>>

ApprovalInit ==
    /\ tickets = [t \in Ticket |-> Absent]
    /\ events = {}
    /\ nonces = {}
    /\ request = [c \in Client |-> NoRequest]
    /\ clock = 1

Transition(c, t) ==
    \/ Grant(c, t)
    \/ \E d \in 2 .. MaxClock, n \in Nonce : GrantSigned(c, t, d, n)
    \/ Deny(c, t)
    \/ Expire(c, t)
    \/ Revoke(c, t)
    \/ Consume(c, t, tickets[t].revision)

ApprovalNext ==
    \/ \E t \in Ticket : CreateTicket(t) \/ RecordDueExpiry(t)
    \/ \E c \in Client :
          \/ \E t \in Ticket : Transition(c, t)
          \/ Stamp(c)
          \/ Commit(c)
          \/ Abandon(c)
    \/ Tick
    \/ StepClockBack

ApprovalSpec == ApprovalInit /\ [][ApprovalNext]_approvalVars

-----------------------------------------------------------------------------
(* Properties. *)

(* Every variable holds a value of the type the tables and the code give it. *)
ApprovalTypeOK ==
    /\ tickets \in [Ticket -> TicketRow]
    /\ events \subseteq Event
    /\ nonces \subseteq NonceRow
    /\ request \in [Client -> Request]
    /\ clock \in Nat \ {0}

(* What verify() demands: a ticket at revision r has exactly one event for *)
(* each revision 0 .. r, and the last one records the status the ticket    *)
(* has; no committed transition is without its evidence, whoever raced.    *)
HistoryIsComplete ==
    \A t \in Ticket :
        LET history == {e \in events : e.ticket_id = t}
        IN  /\ \A d, e \in history : d.revision = e.revision => d = e
            /\ {e.revision : e \in history} =
                   IF Issued(t) THEN 0 .. tickets[t].revision ELSE {}
            /\ \A e \in history :
                   e.revision = tickets[t].revision => e.status = tickets[t].status

(* Ticket and nonce tables agree, and no artifact grants two tickets: what *)
(* lookup_nonce() tells the execution gate is the ticket that carries it.  *)
NonceBindsGrant ==
    /\ \A a, b \in nonces : a.nonce = b.nonce => a = b
    /\ nonces = {[nonce |-> tickets[t].nonce, ticket_id |-> t] :
                    t \in {u \in Ticket : tickets[u].nonce # "none"}}

(* No approval opens an execution window longer than the store's ceiling,  *)
(* signed or not.                                                          *)
WindowIsBounded ==
    \A t \in Ticket :
        tickets[t].execution_deadline <= tickets[t].decided_at + ExecutionTTL

(* A ticket moves along the table only, one revision at a time, and a      *)
(* terminal ticket never moves: of two racing redemptions, or a redemption *)
(* and a revocation, one is refused.  A ticket that nobody asked to expire *)
(* expires only once it is due.  (Whoever asks may end a granted ticket    *)
(* early, which approval.py:15 and 104-106 deny: expire() looks at the     *)
(* table alone.)                                                           *)
TicketsFollowTheTable ==
    [][\A t \in Ticket :
          tickets'[t] # tickets[t] =>
              \/ ~Issued(t) /\ tickets'[t].status = "pending"
              \/ /\ tickets'[t].status \in LegalApprovalTransitions(tickets[t].status)
                 /\ tickets'[t].revision = tickets[t].revision + 1
                 /\ tickets'[t].status = "expired" =>
                       \/ Due(tickets[t])
                       \/ \E c \in Client : /\ request[c].ticket_id = t
                                            /\ request[c].status = "expired"]_tickets

Decided(t) == tickets[t].status = "pending" /\ tickets'[t].status \in {"granted", "denied"}

Redeemed(t) == tickets'[t].status = "consumed" /\ tickets[t].status # "consumed"

(* Every decision, and every redemption, is made by a client that found    *)
(* the ticket inside its window, also on a host whose clock was set back,  *)
(* and that decides on the very row it saw: what happens between its look  *)
(* and its write may make it late, but never about another ticket state.   *)
DecidersSawAnOpenWindow ==
    [][\A t \in Ticket :
          /\ Decided(t) => \E c \in Client :
                /\ request[c].ticket_id = t
                /\ request[c].read = tickets[t]
                /\ request[c].gated_at \in
                      tickets[t].created_at .. tickets[t].created_at + DecisionTTL
          /\ Redeemed(t) => \E c \in Client :
                /\ request[c].ticket_id = t
                /\ request[c].read = tickets[t]
                /\ request[c].gated_at <= tickets[t].execution_deadline]_tickets

-----------------------------------------------------------------------------
(* The inductive invariant behind the properties above. *)

(* A ticket that nobody has decided has no decision time, window or nonce. *)
UndecidedIsBlank ==
    \A t \in Ticket :
        /\ ~Issued(t) => tickets[t] = Absent
        /\ tickets[t].status = "pending" =>
              /\ tickets[t].decided_at = 0
              /\ tickets[t].execution_deadline = 0
              /\ tickets[t].nonce = "none"

(* What a client gated stays right as long as the revision it read is the  *)
(* ticket's: it read this very row, inside its window, and the move it     *)
(* gated is in the table; once stamped, its window is within the ceiling.  *)
GatedOn(r) ==
    /\ Issued(r.ticket_id)
    /\ r.read.revision <= tickets[r.ticket_id].revision
    /\ Matches(r) => r.read = tickets[r.ticket_id]
    /\ r.status \in LegalApprovalTransitions(r.read.status)
    /\ r.read.status = "pending" =>
          r.gated_at \in r.read.created_at .. r.read.created_at + DecisionTTL
    /\ r.read.status = "granted" => r.gated_at <= r.read.execution_deadline
    /\ r.nonce # "none" =>
          /\ r.status = "granted"
          /\ r.moment # 0 => r.window <= r.moment + ExecutionTTL

RequestsAreGated == \A c \in Client : Waiting(c) => GatedOn(request[c])

ApprovalInv ==
    /\ ApprovalTypeOK
    /\ UndecidedIsBlank
    /\ RequestsAreGated
    /\ HistoryIsComplete
    /\ NonceBindsGrant
    /\ WindowIsBounded

(* A store that was in use before: opened with what earlier clients left. *)
ResumedSpec == ApprovalInv /\ [][ApprovalNext]_approvalVars
=============================================================================
