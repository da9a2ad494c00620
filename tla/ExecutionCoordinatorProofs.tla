--------------------- MODULE ExecutionCoordinatorProofs ---------------------
(***************************************************************************)
(* Theorems about ExecutionCoordinator, for any number of processes,       *)
(* intents and tickets, with crashes and failing writes.                   *)
(*                                                                         *)
(* The argument: what the two authorities guarantee of their own tables    *)
(* is taken from the theorems about them (the instances LP and SP), so     *)
(* that here only what crosses them is proved.  A step of one execution    *)
(* writes no row but its own, unspends no ticket, takes nothing from the   *)
(* audit trail and sends for its own row only; so the other executions     *)
(* keep their invariant (lemma OthersKeepTheirs), whatever the step was,   *)
(* and what remains is what each step does for its own execution.          *)
(***************************************************************************)
EXTENDS ExecutionCoordinator, SequenceTheorems, TLAPS

LP == INSTANCE ExecutionLedgerProofs WITH
    Caller <- Process, Worker <- Process, WorkerOf <- [p \in Process |-> p],
    Revision <- Nat, ClockMayStepBack <- FALSE,
    Recorded <- {"refused", "not_executed", "verified_success",
                 "partially_verified", "failed", "unknown"}

SP == INSTANCE ApprovalStoreProofs WITH
    Client <- Process \cup {Operator}, Nonce <- {}, DecisionTTL <- MaxClock,
    ClockMayStepBack <- FALSE

Client == Process \cup {Operator}

(* What the modules of the two authorities assume of their constants holds *)
(* of the constants they are given here.                                   *)
LEMMA AuthoritiesAreInstantiated ==
    /\ [p \in Process |-> p] \in [Process -> Process]
    /\ Nat \subseteq Nat
    /\ FALSE \in BOOLEAN
    /\ MaxClock \in Nat /\ ExecutionTTL \in Nat
    /\ "none" \notin {} /\ "none" \notin Ticket
BY BoundsAssumption, GrantAssumption

-----------------------------------------------------------------------------
(* What the ledger guarantees. *)

LEMMA LedgerInvariants ==
    /\ Ledger!LedgerInv <=> LP!LedgerInv
    /\ Ledger!LedgerInv' <=> LP!LedgerInv'
BY Zenon
DEF Ledger!LedgerInv, LP!LedgerInv, Ledger!TypeOK, LP!TypeOK,
    Ledger!RevisionCountsSteps, LP!RevisionCountsSteps,
    Ledger!CallsAreGated, LP!CallsAreGated,
    Ledger!OnlyTheLastBlocks, LP!OnlyTheLastBlocks,
    Ledger!OneBlockingRowPerIntent, LP!OneBlockingRowPerIntent,
    Ledger!OneRowPerPair, LP!OneRowPerPair,
    Ledger!VerifyAccepts, LP!VerifyAccepts,
    Ledger!LineageAccepted, LP!LineageAccepted,
    Ledger!ReattemptsAreExplained, LP!ReattemptsAreExplained,
    Ledger!Reservation, LP!Reservation, Ledger!Call, LP!Call,
    Ledger!States, LP!States, Ledger!OpenStates, LP!OpenStates,
    Ledger!TerminalStates, LP!TerminalStates,
    Ledger!Outcomes, LP!Outcomes, Ledger!Classes, LP!Classes,
    Ledger!None, LP!None, Ledger!Idle, LP!Idle, Ledger!Matches, LP!Matches,
    Ledger!LegalTransitions, LP!LegalTransitions,
    Ledger!Justified, LP!Justified, Ledger!LegalClasses, LP!LegalClasses,
    Ledger!RetryableClasses, LP!RetryableClasses, Ledger!Blocks, LP!Blocks,
    Ledger!PermitsReexecution, LP!PermitsReexecution,
    Ledger!RowsOf, LP!RowsOf

LEMMA LedgerTable ==
    ASSUME Ledger!LedgerInv
    PROVE  /\ Len(rows) \in Nat
           /\ DOMAIN rows = 1 .. Len(rows)
           /\ \A n \in DOMAIN rows :
                 /\ rows[n] \in Ledger!Reservation
                 /\ rows[n].intent_key \in Intent
                 /\ rows[n].ticket_id \in Ticket
                 /\ rows[n].ticket_revision \in Nat
                 /\ rows[n].worker_id \in Process
                 /\ rows[n].state \in {"reserved", "attempted", "resolved", "unresolved"}
<1>1. LP!TypeOK
  BY LedgerInvariants DEF LP!LedgerInv
<1>2. LP!Reservation = Ledger!Reservation
  BY DEF LP!Reservation, Ledger!Reservation, LP!States, Ledger!States,
         LP!OpenStates, Ledger!OpenStates, LP!TerminalStates,
         Ledger!TerminalStates, LP!Outcomes, Ledger!Outcomes, LP!Classes,
         Ledger!Classes, LP!None, Ledger!None
<1>3. /\ Len(rows) \in Nat
      /\ DOMAIN rows = 1 .. Len(rows)
      /\ \A n \in DOMAIN rows : rows[n] \in Ledger!Reservation
  BY <1>1, <1>2, LP!TableIsAFunction
<1>4. QED
  BY <1>3 DEF Ledger!Reservation, Ledger!States, Ledger!OpenStates,
              Ledger!TerminalStates

(* reserve inserts a row at the end, and is no transition.                 *)
LEMMA LedgerReserve ==
    ASSUME Ledger!LedgerInv, NEW p \in Process, NEW i \in Intent,
           NEW t \in Ticket, NEW v \in Nat, Ledger!Reserve(p, i, t, v)
    PROVE  /\ Ledger!LedgerInv'
           /\ call' = call
           /\ Len(rows') = Len(rows) + 1
           /\ DOMAIN rows' = 1 .. Len(rows) + 1
           /\ \A n \in DOMAIN rows : rows'[n] = rows[n]
           /\ rows'[Len(rows) + 1].intent_key = i
           /\ rows'[Len(rows) + 1].ticket_id = t
           /\ rows'[Len(rows) + 1].ticket_revision = v
           /\ rows'[Len(rows) + 1].worker_id = p
           /\ rows'[Len(rows) + 1].state = "reserved"
<1>1. LP!LedgerInv /\ LP!TypeOK
  BY LedgerInvariants DEF LP!LedgerInv
<1>2. LP!Reserve(p, i, t, v)
  BY Zenon DEF Ledger!Reserve, LP!Reserve, Ledger!Idle, LP!Idle, Ledger!Pair, LP!Pair,
         Ledger!BlockingPriors, LP!BlockingPriors, Ledger!RowsOf, LP!RowsOf,
         Ledger!Blocks, LP!Blocks, Ledger!Predecessors, LP!Predecessors,
         Ledger!NewestReattemptable, LP!NewestReattemptable,
         Ledger!ReattemptablePriors, LP!ReattemptablePriors,
         Ledger!PermitsReexecution, LP!PermitsReexecution,
         Ledger!OpenStates, LP!OpenStates,
         Ledger!RetryableClasses, LP!RetryableClasses, Ledger!None, LP!None
<1>3. PICK s \in LP!Predecessors(i) :
        /\ rows' \in Seq(LP!Reservation)
        /\ DOMAIN rows' = 1 .. Len(rows) + 1
        /\ \A n \in DOMAIN rows : rows'[n] = rows[n]
        /\ rows'[Len(rows) + 1] = LP!NewRow(p, i, t, v, s)
  BY <1>1, <1>2, LP!ReserveInserts, AuthoritiesAreInstantiated
<1>4. Len(rows') = Len(rows) + 1
  <2>1. Len(rows) \in Nat
    BY LedgerTable
  <2>2. Len(rows') \in Nat /\ DOMAIN rows' = 1 .. Len(rows')
    BY <1>3, LenProperties
  <2>3. QED
    BY <1>3, <2>1, <2>2
<1>5. Ledger!LedgerInv'
  BY <1>1, <1>2, LP!ReserveKeepsInv, LedgerInvariants, AuthoritiesAreInstantiated
<1>6. QED
  BY <1>3, <1>4, <1>5 DEF LP!NewRow, Ledger!Reserve

(* The first half of a transition leaves the table alone, and notes the    *)
(* move and the row it is for.                                             *)
LEMMA LedgerMark ==
    ASSUME Ledger!LedgerInv, NEW p \in Process, NEW n, Ledger!MarkAttempted(p, n)
    PROVE  /\ Ledger!LedgerInv'
           /\ rows' = rows
           /\ \A q \in Process : q # p => call'[q] = call[q]
           /\ call'[p].row = n
           /\ call'[p].state = "attempted"
           /\ call'[p].reexecution_class = Ledger!None
<1>1. LP!LedgerInv /\ call \in [Process -> LP!Call]
  BY LedgerInvariants DEF LP!LedgerInv, LP!TypeOK
<1>2. LP!MarkAttempted(p, n) /\ n \in DOMAIN rows
  BY DEF Ledger!MarkAttempted, LP!MarkAttempted, Ledger!Gate, LP!Gate,
         Ledger!Idle, LP!Idle, Ledger!LegalTransitions, LP!LegalTransitions,
         Ledger!None, LP!None
<1>3. LP!LedgerInv'
  BY <1>1, <1>2, LP!MarkAttemptedKeepsInv, AuthoritiesAreInstantiated
<1>4. QED
  BY <1>1, <1>3, LedgerInvariants DEF Ledger!MarkAttempted, Ledger!Gate

LEMMA LedgerRecord ==
    ASSUME Ledger!LedgerInv, NEW p \in Process, NEW n,
           NEW o \in Ledger!Outcomes, NEW k \in Ledger!Classes,
           Ledger!RecordOutcome(p, n, o, k)
    PROVE  /\ Ledger!LedgerInv'
           /\ rows' = rows
           /\ \A q \in Process : q # p => call'[q] = call[q]
           /\ call'[p].row = n
           /\ call'[p].state \in Ledger!TerminalStates
           /\ call'[p].outcome = o
           /\ call'[p].reexecution_class = k
<1>1. LP!LedgerInv /\ call \in [Process -> LP!Call]
  BY LedgerInvariants DEF LP!LedgerInv, LP!TypeOK
<1>2. LP!RecordOutcome(p, n, o, k) /\ n \in DOMAIN rows
  BY DEF Ledger!RecordOutcome, LP!RecordOutcome, Ledger!Gate, LP!Gate,
         Ledger!Idle, LP!Idle, Ledger!LegalTransitions, LP!LegalTransitions,
         Ledger!LegalClasses, LP!LegalClasses, Ledger!Classes, LP!Classes
<1>3. o \in LP!Outcomes /\ k \in LP!Classes
  BY DEF Ledger!Outcomes, LP!Outcomes, Ledger!Classes, LP!Classes
<1>4. LP!LedgerInv'
  BY <1>1, <1>2, <1>3, LP!RecordOutcomeKeepsInv, AuthoritiesAreInstantiated
<1>5. QED
  BY <1>1, <1>4, LedgerInvariants
  DEF Ledger!RecordOutcome, Ledger!Gate, Ledger!TerminalStates

(* The second half writes the row that was gated: an open one, of this     *)
(* worker, and only its state, outcome and basis.                          *)
LEMMA LedgerCommit ==
    ASSUME Ledger!LedgerInv, NEW p \in Process, Ledger!Commit(p)
    PROVE  LET n == call[p].row
           IN  /\ Ledger!LedgerInv'
               /\ \A q \in Process : q # p => call'[q] = call[q]
               /\ call'[p] = Ledger!NoCall
               /\ n \in DOMAIN rows
               /\ rows[n].state \in Ledger!OpenStates
               /\ DOMAIN rows' = DOMAIN rows
               /\ \A m \in DOMAIN rows : m # n => rows'[m] = rows[m]
               /\ rows'[n].intent_key = rows[n].intent_key
               /\ rows'[n].ticket_id = rows[n].ticket_id
               /\ rows'[n].ticket_revision = rows[n].ticket_revision
               /\ rows'[n].worker_id = rows[n].worker_id
               /\ rows'[n].state = call[p].state
               /\ rows'[n].outcome = call[p].outcome
               /\ rows'[n].reexecution_class = call[p].reexecution_class
<1>1. /\ LP!LedgerInv /\ LP!TypeOK /\ LP!CallsAreGated
      /\ call \in [Process -> LP!Call]
  BY LedgerInvariants DEF LP!LedgerInv, LP!TypeOK
<1>2. LP!Commit(p)
  BY DEF Ledger!Commit, LP!Commit, Ledger!Idle, LP!Idle, Ledger!Matches,
         LP!Matches, Ledger!Updated, LP!Updated, Ledger!NoCall, LP!NoCall,
         Ledger!None, LP!None
<1> DEFINE n == call[p].row
<1>3. /\ n \in DOMAIN rows
      /\ rows[n].state \in LP!OpenStates
      /\ DOMAIN rows' = DOMAIN rows
      /\ rows'[n] = LP!Updated(rows[n], call[p])
      /\ \A m \in DOMAIN rows : m # n => rows'[m] = rows[m]
  BY <1>1, <1>2, LP!CommitUpdates, AuthoritiesAreInstantiated
<1>4. LP!LedgerInv'
  BY <1>1, <1>2, LP!CommitKeepsInv, AuthoritiesAreInstantiated
<1>5. /\ \A q \in Process : q # p => call'[q] = call[q]
      /\ call'[p] = Ledger!NoCall
  BY <1>1 DEF Ledger!Commit
<1>6. /\ rows'[n].intent_key = rows[n].intent_key
      /\ rows'[n].ticket_id = rows[n].ticket_id
      /\ rows'[n].ticket_revision = rows[n].ticket_revision
      /\ rows'[n].worker_id = rows[n].worker_id
      /\ rows'[n].state = call[p].state
      /\ rows'[n].outcome = call[p].outcome
      /\ rows'[n].reexecution_class = call[p].reexecution_class
  BY <1>3 DEF LP!Updated
<1>7. LP!OpenStates = Ledger!OpenStates
  BY DEF LP!OpenStates, Ledger!OpenStates
<1>8. QED
  BY <1>3, <1>4, <1>5, <1>6, <1>7, LedgerInvariants

(* A transaction that ends without a write leaves nothing behind. *)
LEMMA LedgerDrop ==
    ASSUME Ledger!LedgerInv, NEW p \in Process, UNCHANGED <<rows, now>>,
           call' = [call EXCEPT ![p] = Ledger!NoCall]
    PROVE  /\ Ledger!LedgerInv'
           /\ \A q \in Process : q # p => call'[q] = call[q]
           /\ Ledger!Idle(p)'
<1>1. LP!LedgerInv /\ call \in [Process -> LP!Call]
  BY LedgerInvariants DEF LP!LedgerInv, LP!TypeOK
<1>2. /\ \A q \in Process : q # p => call'[q] = call[q]
      /\ Ledger!Idle(p)'
      /\ LP!NoCall = Ledger!NoCall
  BY <1>1 DEF Ledger!Idle, Ledger!NoCall, LP!NoCall, Ledger!None, LP!None
<1>3. CASE LP!Abandon(p)
  BY <1>1, <1>2, <1>3, LP!AbandonKeepsInv, LedgerInvariants,
     AuthoritiesAreInstantiated
<1>4. CASE call[p].row = 0
  <2>1. LP!NoCall \in LP!Call
    BY DEF LP!Call, LP!NoCall, LP!States, LP!OpenStates, LP!None
  <2>2. LP!LedgerInv'
    BY <1>1, <1>2, <1>4, <2>1
    DEF LP!LedgerInv, LP!TypeOK, LP!CallsAreGated, LP!Matches, LP!RevisionCountsSteps,
        LP!OneBlockingRowPerIntent, LP!OneRowPerPair, LP!VerifyAccepts,
        LP!LineageAccepted, LP!ReattemptsAreExplained, LP!RowsOf,
        LP!OnlyTheLastBlocks, LP!Idle, LP!NoCall
  <2>3. QED
    BY <1>2, <2>2, LedgerInvariants
<1>5. QED
  BY <1>2, <1>3, <1>4 DEF LP!Abandon, LP!Idle

LEMMA LedgerRests ==
    ASSUME Ledger!LedgerInv, UNCHANGED <<rows, call, now>>
    PROVE  Ledger!LedgerInv'
BY LedgerInvariants, LP!StutterKeepsInv DEF LP!vars
-----------------------------------------------------------------------------
(* What the store guarantees. *)

LEMMA StoreInvariants ==
    /\ Store!ApprovalInv <=> SP!ApprovalInv
    /\ Store!ApprovalInv' <=> SP!ApprovalInv'
BY Zenon
DEF Store!ApprovalInv, SP!ApprovalInv, Store!ApprovalTypeOK, SP!ApprovalTypeOK,
    Store!UndecidedIsBlank, SP!UndecidedIsBlank,
    Store!RequestsAreGated, SP!RequestsAreGated, Store!GatedOn, SP!GatedOn,
    Store!HistoryIsComplete, SP!HistoryIsComplete,
    Store!NonceBindsGrant, SP!NonceBindsGrant,
    Store!WindowIsBounded, SP!WindowIsBounded,
    Store!TicketRow, SP!TicketRow, Store!Statuses, SP!Statuses,
    Store!TerminalStatuses, SP!TerminalStatuses, Store!Event, SP!Event,
    Store!NonceRow, SP!NonceRow, Store!Request, SP!Request,
    Store!Absent, SP!Absent, Store!Waiting, SP!Waiting,
    Store!Issued, SP!Issued, Store!Matches, SP!Matches,
    Store!LegalApprovalTransitions, SP!LegalApprovalTransitions

LEMMA StoreTables ==
    ASSUME Store!ApprovalInv
    PROVE  /\ tickets \in [Ticket -> SP!TicketRow]
           /\ request \in [Client -> SP!Request]
           /\ \A t \in Ticket : tickets[t].revision \in Nat
BY StoreInvariants
DEF SP!ApprovalInv, SP!ApprovalTypeOK, SP!TicketRow, Client

(* What no step of anybody does to the tickets: a spent one is final. *)
SpentStay ==
    \A t \in Ticket : tickets[t].status = "consumed" => tickets'[t] = tickets[t]

LEMMA StoreExpiry ==
    ASSUME Store!ApprovalInv, NEW t \in Ticket, Store!RecordDueExpiry(t)
    PROVE  Store!ApprovalInv' /\ SpentStay /\ request' = request
<1>1. SP!ApprovalInv
  BY StoreInvariants
<1>2. SP!RecordDueExpiry(t)
  BY DEF Store!RecordDueExpiry, SP!RecordDueExpiry, Store!Due, SP!Due,
         Store!Write, SP!Write, Store!Successor, SP!Successor,
         Store!WithEvent, SP!WithEvent
<1>3. SP!ApprovalInv'
  BY <1>1, <1>2, SP!ExpiryPreserves, AuthoritiesAreInstantiated
<1>4. SpentStay
  BY StoreTables DEF Store!RecordDueExpiry, Store!Due, Store!Write, SpentStay
<1>5. QED
  BY <1>3, <1>4, StoreInvariants DEF Store!RecordDueExpiry

(* Gating a move writes nothing; the client holds what it read. *)
LEMMA StoreGate ==
    ASSUME Store!ApprovalInv, NEW c \in Client, NEW t \in Ticket, NEW s,
           Store!GateTransition(c, t, s, 0, "none")
    PROVE  /\ Store!ApprovalInv'
           /\ SpentStay
           /\ UNCHANGED tickets
           /\ \A d \in Client : d # c => request'[d] = request[d]
           /\ request'[c].ticket_id = t
           /\ request'[c].status = s
           /\ request'[c].read = tickets[t]
<1>1. SP!ApprovalInv
  BY StoreInvariants
<1>2. SP!GateTransition(c, t, s, 0, "none")
  BY DEF Store!GateTransition, SP!GateTransition, Store!Due, SP!Due,
         Store!Waiting, SP!Waiting,
         Store!LegalApprovalTransitions, SP!LegalApprovalTransitions
<1>3. SP!ApprovalInv'
  BY <1>1, <1>2, SP!GatePreserves, AuthoritiesAreInstantiated DEF Client
<1>4. QED
  BY <1>3, StoreInvariants, StoreTables DEF Store!GateTransition, SpentStay

LEMMA StoreStamp ==
    ASSUME Store!ApprovalInv, NEW c \in Client, Store!Stamp(c)
    PROVE  /\ Store!ApprovalInv'
           /\ SpentStay
           /\ UNCHANGED tickets
           /\ \A d \in Client : d # c => request'[d] = request[d]
           /\ request'[c].ticket_id = request[c].ticket_id
           /\ request'[c].status = request[c].status
           /\ request'[c].read = request[c].read
<1>1. SP!ApprovalInv
  BY StoreInvariants
<1>2. SP!Stamp(c)
  BY DEF Store!Stamp, SP!Stamp, Store!Waiting, SP!Waiting,
         Store!Admissible, SP!Admissible
<1>3. SP!ApprovalInv'
  BY <1>1, <1>2, SP!StampPreserves, AuthoritiesAreInstantiated DEF Client
<1>4. request' = [request EXCEPT ![c] = [request[c] EXCEPT !.moment = clock]]
  BY DEF Store!Stamp
<1>5. request[c] \in SP!Request
  BY StoreTables
<1>6. /\ [request[c] EXCEPT !.moment = clock].ticket_id = request[c].ticket_id
      /\ [request[c] EXCEPT !.moment = clock].status = request[c].status
      /\ [request[c] EXCEPT !.moment = clock].read = request[c].read
  BY <1>5 DEF SP!Request
<1>7. QED
  BY <1>3, <1>4, <1>6, StoreInvariants, StoreTables DEF Store!Stamp, SpentStay

(* A commit moves the very row that was read, and never a spent one. *)
LEMMA StoreCommit ==
    ASSUME Store!ApprovalInv, NEW c \in Client, Store!Commit(c)
    PROVE  LET t == request[c].ticket_id
           IN  /\ Store!ApprovalInv'
               /\ SpentStay
               /\ \A d \in Client : d # c => request'[d] = request[d]
               /\ request'[c] = Store!NoRequest
               /\ t \in Ticket
               /\ tickets'[t].status = request[c].status
               /\ tickets'[t].revision = request[c].read.revision + 1
<1> DEFINE r == request[c]
           t == r.ticket_id
<1>1. SP!ApprovalInv /\ SP!ApprovalTypeOK
  BY StoreInvariants DEF SP!ApprovalInv
<1>2. SP!Commit(c)
  BY DEF Store!Commit, SP!Commit, Store!Waiting, SP!Waiting,
         Store!Matches, SP!Matches, Store!FreshNonce, SP!FreshNonce,
         Store!NoncesOf, SP!NoncesOf, Store!Write, SP!Write,
         Store!Written, SP!Written, Store!Successor, SP!Successor,
         Store!WithEvent, SP!WithEvent, Store!NoRequest, SP!NoRequest,
         Store!Absent, SP!Absent
<1>3. /\ t \in Ticket
      /\ r.read = tickets[t]
      /\ r.status \in SP!LegalApprovalTransitions(tickets[t].status)
      /\ tickets' = [tickets EXCEPT ![t] = SP!Written(r)]
  BY <1>1, <1>2, SP!CommitMoves, AuthoritiesAreInstantiated DEF Client
<1>4. tickets[t].status \in {"pending", "granted"}
  BY <1>1, <1>3, SP!LegalMove, AuthoritiesAreInstantiated
<1>5. SP!ApprovalInv'
  BY <1>1, <1>2, SP!CommitPreserves, AuthoritiesAreInstantiated DEF Client
<1>6. SP!Written(r).status = r.status /\ SP!Written(r).revision = r.read.revision + 1
  BY DEF SP!Written, SP!Successor
<1>7. SpentStay
  BY <1>3, <1>4, StoreTables DEF SpentStay
<1>8. /\ \A d \in Client : d # c => request'[d] = request[d]
      /\ request'[c] = Store!NoRequest
  BY StoreTables DEF Store!Commit
<1>9. tickets'[t] = SP!Written(r)
  BY <1>3, StoreTables
<1>10. QED
  BY <1>3, <1>5, <1>6, <1>7, <1>8, <1>9, StoreInvariants

LEMMA StoreDrop ==
    ASSUME Store!ApprovalInv, NEW c \in Client,
           UNCHANGED <<tickets, events, nonces, clock>>,
           request' = [request EXCEPT ![c] = Store!NoRequest]
    PROVE  /\ Store!ApprovalInv'
           /\ SpentStay
           /\ \A d \in Client : d # c => request'[d] = request[d]
           /\ ~Store!Waiting(c)'
<1>1. SP!ApprovalInv
  BY StoreInvariants
<1>2. /\ Store!NoRequest \in SP!Request
      /\ Store!NoRequest.ticket_id = "none"
  BY DEF Store!NoRequest, Store!Absent, SP!Request, SP!TicketRow, SP!Statuses
<1>3. SP!ApprovalInv'
  BY <1>1, <1>2, SP!RequestPreserves, AuthoritiesAreInstantiated DEF Client
<1>4. QED
  BY <1>2, <1>3, StoreInvariants, StoreTables DEF SpentStay, Store!Waiting

LEMMA StoreTick ==
    ASSUME Store!ApprovalInv, Store!Tick
    PROVE  Store!ApprovalInv' /\ SpentStay /\ request' = request
<1>1. SP!ApprovalInv
  BY StoreInvariants
<1>2. clock' \in Nat \ {0}
  BY <1>1 DEF Store!Tick, SP!ApprovalInv, SP!ApprovalTypeOK
<1>3. UNCHANGED <<tickets, events, nonces, request>>
  BY DEF Store!Tick
<1>4. SP!ApprovalInv'
  BY <1>1, <1>2, <1>3, SP!ClockPreserves, AuthoritiesAreInstantiated
<1>5. QED
  BY <1>3, <1>4, StoreInvariants DEF SpentStay

LEMMA StoreRests ==
    ASSUME Store!ApprovalInv, UNCHANGED storeVars
    PROVE  Store!ApprovalInv' /\ SpentStay /\ request' = request
<1>1. SP!ApprovalInv
  BY StoreInvariants
<1>2. UNCHANGED <<tickets, events, nonces, request, clock>> /\ clock' \in Nat \ {0}
  BY <1>1 DEF storeVars, SP!ApprovalInv, SP!ApprovalTypeOK
<1>3. SP!ApprovalInv'
  BY <1>1, <1>2, SP!ClockPreserves, AuthoritiesAreInstantiated
<1>4. QED
  BY <1>2, <1>3, StoreInvariants DEF SpentStay
-----------------------------------------------------------------------------
(* What a step of one execution cannot do to the others. *)

LocalTypeOK ==
    /\ pc \in [Process -> Places]
    /\ job \in [Process -> Job]
    /\ intents \in [Process -> SUBSET Intent]
    /\ sent \in Seq(Sending)
    /\ audit \subseteq AuditRecord

(* A step of p, or of nobody: p's locals and transactions change only,     *)
(* p's own rows, and what is sent for them.                                *)
OnlyFor(p) ==
    /\ \A q \in Process : q # p =>
          /\ pc'[q] = pc[q] /\ job'[q] = job[q]
          /\ call'[q] = call[q] /\ request'[q] = request[q]
    /\ \A n \in DOMAIN rows :
          /\ n \in DOMAIN rows'
          /\ rows[n].worker_id # p => rows'[n] = rows[n]
    /\ SpentStay
    /\ audit \subseteq audit'
    /\ \A k \in DOMAIN sent' :
          \/ k \in DOMAIN sent /\ sent'[k] = sent[k]
          \/ sent'[k].row \in DOMAIN rows /\ rows[sent'[k].row].worker_id = p

LEMMA InvariantParts ==
    ASSUME CoordinatorInv
    PROVE  /\ Ledger!LedgerInv /\ Store!ApprovalInv
           /\ LocalTypeOK
           /\ \A p \in Process : /\ RowFollows(p) /\ TransactionsFollow(p)
                                 /\ EffectsFollow(p) /\ TrailFollows(p)
           /\ ClaimsArePaid /\ RequestsFollowClaims
           /\ SettlementIsAudited /\ PostIsCorroborated
BY DEF CoordinatorInv, CoordinatorTypeOK, LocalTypeOK, ExecutionInv

LEMMA SpentStayPaid ==
    ASSUME CoordinatorInv, SpentStay, NEW n \in DOMAIN rows, Paid(rows[n]),
           NEW r, r.ticket_id = rows[n].ticket_id,
           r.ticket_revision = rows[n].ticket_revision
    PROVE  Paid(r)'
BY InvariantParts, LedgerTable DEF Paid, SpentStay

LEMMA OthersKeepTheirs ==
    ASSUME CoordinatorInv, NEW p, OnlyFor(p), NEW q \in Process, q # p
    PROVE  ExecutionInv(q)'
<1>1. /\ RowFollows(q) /\ TransactionsFollow(q)
      /\ EffectsFollow(q) /\ TrailFollows(q)
  BY InvariantParts
<1>2. /\ pc'[q] = pc[q] /\ job'[q] = job[q]
      /\ call'[q] = call[q] /\ request'[q] = request[q]
      /\ audit \subseteq audit'
      /\ SpentStay
  BY DEF OnlyFor
<1>3. /\ Unmarked \subseteq Claimed /\ Marked \subseteq Claimed
      /\ {"consuming", "mark", "marking", "handle", "attempt", "result",
           "record", "recording", "post"} \subseteq Claimed
  BY DEF Claimed, Unmarked, Marked
<1>4. pc[q] \in Claimed =>
        /\ job[q].row \in DOMAIN rows
        /\ job[q].row \in DOMAIN rows'
        /\ rows'[job[q].row] = rows[job[q].row]
        /\ RowOf(q)' = RowOf(q)
  BY <1>1, <1>2 DEF RowFollows, RowOf, OnlyFor
<1>5. pc[q] \in Claimed =>
        \A k \in DOMAIN sent' : sent'[k].row = job[q].row =>
           k \in DOMAIN sent /\ sent'[k] = sent[k]
  BY <1>1 DEF RowFollows, RowOf, OnlyFor
<1>6. pc[q] \in Claimed /\ Acted(job[q].row)' => Acted(job[q].row)
  BY <1>2, <1>5 DEF Acted
<1>7. RowFollows(q)'
  <2>1. CASE pc[q] \in Claimed
    BY <1>1, <1>2, <1>4, <2>1 DEF RowFollows
  <2>2. CASE pc[q] \notin Claimed
    BY <1>1, <1>2, <1>3, <2>2 DEF RowFollows
  <2>3. QED
    BY <2>1, <2>2
<1>8. TransactionsFollow(q)'
  BY <1>1, <1>2, <1>3, <1>4
  DEF TransactionsFollow, ReservedRevision, Ledger!Idle, Store!Waiting
<1>9. EffectsFollow(q)'
  <2>1. pc[q] \in {"mark", "marking"} => Paid(RowOf(q))'
    BY <1>1, <1>2, <1>3, <1>4, SpentStayPaid DEF EffectsFollow, RowOf
  <2>2. pc[q] = "handle" => \A n \in DOMAIN sent' : sent'[n].row # job[q].row
    BY <1>1, <1>3, <1>5 DEF EffectsFollow
  <2>3. QED
    BY <1>1, <1>2, <1>3, <1>6, <2>1, <2>2 DEF EffectsFollow
<1>10. TrailFollows(q)'
  BY <1>1, <1>2 DEF TrailFollows, HasAudited
<1>11. QED
  BY <1>7, <1>8, <1>9, <1>10 DEF ExecutionInv

Corroborated(a) ==
    a.stage = "post" /\ a.outcome # "unknown" =>
        \E n \in DOMAIN rows :
            /\ rows[n].worker_id = a.process /\ rows[n].ticket_id = a.ticket
            /\ rows[n].state = "resolved" /\ rows[n].outcome = a.outcome

(* A step that writes no row and sends nothing keeps what relates the      *)
(* tables, if what it audits is so.                                        *)
LEMMA TablesRest ==
    ASSUME CoordinatorInv, UNCHANGED <<rows, sent>>, SpentStay,
           audit \subseteq audit', \A a \in audit' \ audit : Corroborated(a)
    PROVE  /\ ClaimsArePaid' /\ RequestsFollowClaims'
           /\ SettlementIsAudited' /\ PostIsCorroborated'
<1>1. ClaimsArePaid'
  BY InvariantParts, SpentStayPaid DEF ClaimsArePaid
<1>2. RequestsFollowClaims'
  BY InvariantParts DEF RequestsFollowClaims, SentFor
<1>3. SettlementIsAudited'
  BY InvariantParts DEF SettlementIsAudited, Audited
<1>4. PostIsCorroborated'
  BY InvariantParts DEF PostIsCorroborated, Corroborated
<1>5. QED
  BY <1>1, <1>2, <1>3, <1>4

LEMMA PartsMakeTheInvariant ==
    ASSUME CoordinatorInv, NEW p, OnlyFor(p),
           Ledger!LedgerInv', Store!ApprovalInv', LocalTypeOK',
           p \in Process => ExecutionInv(p)',
           ClaimsArePaid', RequestsFollowClaims', SettlementIsAudited',
           PostIsCorroborated'
    PROVE  CoordinatorInv'
<1>1. \A q \in Process : ExecutionInv(q)'
  BY OthersKeepTheirs
<1>2. Ledger!TypeOK' /\ Store!ApprovalTypeOK'
  BY DEF Ledger!LedgerInv, Store!ApprovalInv
<1>3. QED
  BY <1>1, <1>2 DEF CoordinatorInv, CoordinatorTypeOK, LocalTypeOK

(* A step of p that touches neither authority: p goes from one place to    *)
(* the next, with what it holds, and may write to the audit store.         *)
LEMMA LocalStep ==
    ASSUME CoordinatorInv, NEW p \in Process, NEW place \in Places,
           NEW j \in Job,
           pc' = [pc EXCEPT ![p] = place],
           job' = [job EXCEPT ![p] = j],
           intents' \in [Process -> SUBSET Intent],
           audit \subseteq audit', audit' \subseteq AuditRecord,
           \A a \in audit' \ audit : Corroborated(a),
           UNCHANGED <<ledgerVars, storeVars, sent>>,
           ExecutionInv(p)'
    PROVE  CoordinatorInv'
<1>1. UNCHANGED <<rows, call, now, request, sent>>
  BY DEF ledgerVars, storeVars
<1>2. /\ Ledger!LedgerInv' /\ Store!ApprovalInv' /\ SpentStay
      /\ LocalTypeOK
  BY <1>1, InvariantParts, LedgerRests, StoreRests
<1>3. LocalTypeOK'
  BY <1>1, <1>2 DEF LocalTypeOK
<1>4. OnlyFor(p)
  BY <1>1, <1>2 DEF OnlyFor, LocalTypeOK
<1>5. /\ ClaimsArePaid' /\ RequestsFollowClaims'
      /\ SettlementIsAudited' /\ PostIsCorroborated'
  BY <1>1, <1>2, TablesRest
<1>6. QED
  BY <1>2, <1>3, <1>4, <1>5, PartsMakeTheInvariant
-----------------------------------------------------------------------------
(* The steps that touch neither authority. *)

LEMMA JobVocabulary ==
    /\ NoJob \in Job
    /\ NoJob.recorded = FALSE
    /\ Places = {"idle", "pre", "capture", "reserve", "consume", "consuming",
                 "mark", "marking", "handle", "sent", "attempt", "result",
                 "record", "recording", "post", "dead"}
    /\ Running = Places \ {"idle", "dead"}
    /\ Claimed = {"consume", "consuming", "mark", "marking", "handle", "sent",
                  "attempt", "result", "record", "recording", "post"}
    /\ Unmarked = {"consume", "consuming", "mark", "marking"}
    /\ Marked = {"handle", "sent", "attempt", "result", "record", "recording"}
    /\ "unknown" \in Ledger!Outcomes
BY DEF NoJob, Job, Places, Running, Claimed, Unmarked, Marked, FailClosed,
       Verdict, Ledger!Outcomes, Ledger!Classes, Dispositions

(* Every verdict can be recorded, and one reached from an acceptance, or   *)
(* from no evidence, never says that the request was not carried out.      *)
LEMMA VerdictsAreTyped ==
    ASSUME NEW d, NEW v \in Verdicts(d)
    PROVE  /\ v \in [outcome : Ledger!Outcomes, class : Ledger!Classes]
           /\ d \in {"accepted", "unknown"} => v.class \in EffectClasses
<1>1. PICK key \in RejectionKeys, state \in ObservedStates :
         v = Classify(d, key, state)
  BY DEF Verdicts
<1>2. CASE d = "not_dispatched"
  BY <1>1, <1>2
  DEF Classify, Verdict, Ledger!Outcomes, Ledger!Classes
<1>3. CASE d = "rejected"
  BY <1>1, <1>3
  DEF Classify, Verdict, RejectionClass, Ledger!Outcomes, Ledger!Classes
<1>4. CASE d = "accepted"
  <2>1. Classify(d, key, state) = ClassifyAccepted(state)
    BY <1>4 DEF Classify
  <2>2. PostStateClass(state) \in
          {"post_state_not_reached", "post_state_unreachable", "unclassified"}
    BY DEF PostStateClass
  <2>3. \/ v = Verdict("verified_success", "effect_achieved")
        \/ v = Verdict("partially_verified", "effect_achieved")
        \/ /\ v = Verdict("failed", PostStateClass(state))
           /\ PostStateClass(state) # "unclassified"
        \/ v = Verdict("unknown", "outcome_unknown")
    BY <1>1, <2>1 DEF ClassifyAccepted, FailClosed
  <2>4. QED
    BY <2>2, <2>3 DEF Verdict, EffectClasses, Ledger!Outcomes, Ledger!Classes
<1>5. CASE d \notin {"not_dispatched", "rejected", "accepted"}
  BY <1>1, <1>5
  DEF Classify, FailClosed, Verdict, EffectClasses, Ledger!Outcomes,
      Ledger!Classes
<1>6. QED
  BY <1>2, <1>3, <1>4, <1>5

LEMMA LocalTypes ==
    ASSUME CoordinatorInv, NEW p \in Process
    PROVE  /\ pc \in [Process -> Places] /\ job \in [Process -> Job]
           /\ intents \in [Process -> SUBSET Intent]
           /\ audit \subseteq AuditRecord
           /\ pc[p] \in Places /\ job[p] \in Job /\ intents[p] \subseteq Intent
BY InvariantParts DEF LocalTypeOK

(* An execution that is over, in whatever way, holds nothing. *)
LEMMA OverIsSound ==
    ASSUME NEW p \in Process, pc'[p] \in {"idle", "dead"}, job'[p] = NoJob,
           Ledger!Idle(p)', ~Store!Waiting(p)'
    PROVE  ExecutionInv(p)'
BY JobVocabulary
DEF ExecutionInv, RowFollows, TransactionsFollow, EffectsFollow, TrailFollows

LEMMA NothingHeld ==
    ASSUME CoordinatorInv, NEW p \in Process,
           UNCHANGED <<call, request>>
    PROVE  /\ pc[p] \notin {"marking", "recording"} => Ledger!Idle(p)'
           /\ pc[p] # "consuming" => ~Store!Waiting(p)'
BY InvariantParts DEF TransactionsFollow, Ledger!Idle, Store!Waiting

(* execute ends here, with a result or by an exception; what was written   *)
(* to the audit store meanwhile is corroborated.                           *)
LEMMA ReturnKeepsInv ==
    ASSUME CoordinatorInv, NEW p \in Process,
           pc[p] \notin {"marking", "recording", "consuming"}, Return(p),
           UNCHANGED <<ledgerVars, storeVars, intents, sent>>,
           audit \subseteq audit', audit' \subseteq AuditRecord,
           \A a \in audit' \ audit : Corroborated(a)
    PROVE  CoordinatorInv'
<1>1. /\ pc' = [pc EXCEPT ![p] = "idle"]
      /\ job' = [job EXCEPT ![p] = NoJob]
  BY DEF Return, Goto
<1>2. pc'[p] = "idle" /\ job'[p] = NoJob /\ intents' \in [Process -> SUBSET Intent]
  BY <1>1, LocalTypes
<1>3. Ledger!Idle(p)' /\ ~Store!Waiting(p)'
  BY NothingHeld DEF ledgerVars, storeVars
<1>4. ExecutionInv(p)'
  BY <1>2, <1>3, OverIsSound
<1>5. QED
  BY <1>1, <1>2, <1>4, LocalStep, JobVocabulary

LEMMA BeginKeepsInv ==
    ASSUME CoordinatorInv, NEW p \in Process, NEW t \in Ticket, Begin(p, t)
    PROVE  CoordinatorInv'
<1> DEFINE j == [NoJob EXCEPT !.ticket = t]
<1>1. /\ pc[p] = "idle"
      /\ pc' = [pc EXCEPT ![p] = "pre"]
      /\ job' = [job EXCEPT ![p] = j]
      /\ intents' = [intents EXCEPT ![p] = @ \cup {IntentOf[t]}]
      /\ UNCHANGED <<ledgerVars, storeVars, sent, audit>>
  BY DEF Begin, Goto
<1>2. /\ j \in Job /\ j.ticket = t /\ j.recorded = FALSE
      /\ "pre" \in Places
  BY JobVocabulary DEF NoJob, Job
<1> HIDE DEF j
<1>3. pc'[p] = "pre" /\ job'[p] = j /\ intents' \in [Process -> SUBSET Intent]
  BY <1>1, LocalTypes, IntentOfAssumption
<1>4. Ledger!Idle(p)' /\ ~Store!Waiting(p)'
  BY <1>1, NothingHeld DEF ledgerVars, storeVars
<1>5. ExecutionInv(p)'
  BY <1>2, <1>3, <1>4, JobVocabulary
  DEF ExecutionInv, RowFollows, TransactionsFollow, EffectsFollow, TrailFollows
<1>6. audit' \subseteq AuditRecord /\ audit \subseteq audit' /\ audit' \ audit = {}
  BY <1>1, LocalTypes
<1>7. QED
  BY <1>1, <1>2, <1>3, <1>5, <1>6, LocalStep

(* The places between which an execution goes on without the authorities.  *)
Onward == {<<"pre", "capture">>, <<"capture", "reserve">>, <<"handle", "attempt">>,
           <<"sent", "attempt">>, <<"attempt", "result">>, <<"result", "record">>}

(* It keeps its ticket and its row, and holds no transaction. *)
LEMMA SameRow ==
    ASSUME CoordinatorInv, NEW p \in Process,
           UNCHANGED ledgerVars, UNCHANGED storeVars,
           <<pc[p], pc'[p]>> \in Onward,
           job'[p].ticket = job[p].ticket, job'[p].row = job[p].row,
           job'[p].recorded = FALSE
    PROVE  RowFollows(p)' /\ TransactionsFollow(p)'
<1>1. RowFollows(p) /\ rows' = rows
  BY InvariantParts DEF ledgerVars
<1>2. /\ pc[p] \in Running /\ pc'[p] \in Running
      /\ pc'[p] \in Claimed => pc[p] \in Claimed
      /\ pc'[p] \in Marked => pc[p] \in Marked
      /\ pc'[p] \notin Unmarked
      /\ pc[p] \notin {"marking", "recording", "consuming"}
      /\ pc'[p] \notin {"marking", "recording", "consuming"}
  BY JobVocabulary DEF Onward
<1>3. RowFollows(p)'
  BY <1>1, <1>2 DEF RowFollows, RowOf
<1>4. Ledger!Idle(p)' /\ ~Store!Waiting(p)'
  BY <1>2, NothingHeld DEF ledgerVars, storeVars
<1>5. QED
  BY <1>2, <1>3, <1>4 DEF TransactionsFollow

(* What an audit step of p writes. *)
LEMMA AuditWrites ==
    ASSUME CoordinatorInv, NEW p \in Process, pc[p] \in Running,
           NEW stage \in {"pre", "attempt", "result", "post"},
           NEW outcome \in Ledger!Outcomes,
           audit' \in {audit, audit \cup AuditOf(p, stage, outcome)},
           stage # "post" \/ outcome = "unknown"
    PROVE  /\ audit \subseteq audit' /\ audit' \subseteq AuditRecord
           /\ \A a \in audit' \ audit : Corroborated(a)
<1>1. job[p].ticket \in Ticket
  BY InvariantParts DEF RowFollows
<1>2. QED
  BY <1>1, LocalTypes DEF AuditOf, AuditRecord, Corroborated

LEMMA AuditIsWritten ==
    ASSUME NEW p, NEW stage, NEW outcome,
           audit' = audit \cup AuditOf(p, stage, outcome),
           job'[p].ticket = job[p].ticket
    PROVE  HasAudited(p, stage)'
<1> DEFINE a == [stage |-> stage, process |-> p, ticket |-> job[p].ticket,
                 outcome |-> outcome]
<1>1. a \in audit' /\ a.stage = stage /\ a.process = p /\ a.ticket = job'[p].ticket
  BY DEF AuditOf
<1>2. QED
  BY <1>1 DEF HasAudited
LEMMA WritePreKeepsInv ==
    ASSUME CoordinatorInv, NEW p \in Process, WritePre(p)
    PROVE  CoordinatorInv'
<1>1. /\ pc[p] = "pre" /\ pc[p] \in Running
      /\ UNCHANGED <<ledgerVars, storeVars, intents, sent>>
      /\ audit' \in {audit, audit \cup AuditOf(p, "pre", "unknown")}
      /\ \/ Return(p)
         \/ /\ Goto(p, "capture") /\ UNCHANGED job
            /\ audit' = audit \cup AuditOf(p, "pre", "unknown")
  BY JobVocabulary DEF WritePre, Audit
<1>2. /\ audit \subseteq audit' /\ audit' \subseteq AuditRecord
      /\ \A a \in audit' \ audit : Corroborated(a)
  BY <1>1, AuditWrites, JobVocabulary
<1>3. CASE Return(p)
  BY <1>1, <1>2, <1>3, ReturnKeepsInv
<1>4. CASE /\ Goto(p, "capture") /\ UNCHANGED job
           /\ audit' = audit \cup AuditOf(p, "pre", "unknown")
  <2>1. /\ pc' = [pc EXCEPT ![p] = "capture"] /\ pc'[p] = "capture"
        /\ job' = [job EXCEPT ![p] = job[p]] /\ job'[p] = job[p]
        /\ job[p] \in Job /\ intents' \in [Process -> SUBSET Intent]
    BY <1>1, <1>4, LocalTypes DEF Goto
  <2>2. job[p].recorded = FALSE
    BY <1>1, <2>1, InvariantParts DEF RowFollows, Job
  <2>3. RowFollows(p)' /\ TransactionsFollow(p)'
    BY <1>1, <2>1, <2>2, SameRow DEF Onward
  <2>4. HasAudited(p, "pre")'
    BY <1>4, <2>1, AuditIsWritten
  <2>5. ExecutionInv(p)'
    BY <2>1, <2>3, <2>4, JobVocabulary
    DEF ExecutionInv, EffectsFollow, TrailFollows
  <2>6. QED
    BY <1>1, <1>2, <2>1, <2>5, LocalStep, JobVocabulary
<1>5. QED
  BY <1>1, <1>3, <1>4

(* A step of p that only goes on to the next place, with a job that has    *)
(* the same ticket and row.                                                *)
LEMMA GoOnKeepsInv ==
    ASSUME CoordinatorInv, NEW p \in Process, NEW place \in Places, NEW j \in Job,
           UNCHANGED <<ledgerVars, storeVars, intents, sent, audit>>,
           pc' = [pc EXCEPT ![p] = place], job' = [job EXCEPT ![p] = j],
           ExecutionInv(p)'
    PROVE  CoordinatorInv'
<1>1. /\ audit \subseteq audit' /\ audit' \subseteq AuditRecord
      /\ \A a \in audit' \ audit : Corroborated(a)
      /\ intents' \in [Process -> SUBSET Intent]
  BY LocalTypes
<1>2. QED
  BY <1>1, LocalStep

LEMMA CaptureRevisionKeepsInv ==
    ASSUME CoordinatorInv, NEW p \in Process, CaptureRevision(p)
    PROVE  CoordinatorInv'
<1> DEFINE j == [job[p] EXCEPT !.revision = tickets[job[p].ticket].revision]
<1>1. /\ pc[p] = "capture"
      /\ pc' = [pc EXCEPT ![p] = "reserve"]
      /\ UNCHANGED <<ledgerVars, storeVars, intents, sent, audit>>
  BY DEF CaptureRevision, Goto
<1>2. job' = [job EXCEPT ![p] = j]
  BY LocalTypes DEF CaptureRevision
<1>3. job[p] \in Job /\ tickets[job[p].ticket].revision \in Nat
  <2>1. job[p].ticket \in Ticket
    BY <1>1, InvariantParts, JobVocabulary DEF RowFollows
  <2>2. QED
    BY <2>1, InvariantParts, StoreTables, LocalTypes
<1>4. /\ j \in Job
      /\ j.ticket = job[p].ticket /\ j.row = job[p].row
      /\ j.recorded = job[p].recorded
  BY <1>3 DEF Job
<1>5. job[p].recorded = FALSE /\ HasAudited(p, "pre")
  BY <1>1, <1>3, InvariantParts DEF RowFollows, TrailFollows, Job
<1> HIDE DEF j
<1>6. pc'[p] = "reserve" /\ job'[p] = j
  BY <1>1, <1>2, LocalTypes
<1>7. RowFollows(p)' /\ TransactionsFollow(p)'
  BY <1>1, <1>4, <1>5, <1>6, SameRow DEF Onward
<1>8. HasAudited(p, "pre")'
  BY <1>1, <1>4, <1>5, <1>6 DEF HasAudited
<1>9. ExecutionInv(p)'
  BY <1>6, <1>7, <1>8, JobVocabulary DEF ExecutionInv, EffectsFollow, TrailFollows
<1>10. QED
  BY <1>1, <1>2, <1>4, <1>9, GoOnKeepsInv, JobVocabulary

(* reserve or consume is refused: execute returns, the tables stand. *)
LEMMA RefusalKeepsInv ==
    ASSUME CoordinatorInv, NEW p \in Process, ReserveRefused(p) \/ ConsumeRefused(p)
    PROVE  CoordinatorInv'
<1>1. /\ pc[p] \notin {"marking", "recording", "consuming"} /\ Return(p)
      /\ UNCHANGED <<ledgerVars, storeVars, intents, sent, audit>>
  BY DEF ReserveRefused, ConsumeRefused
<1>2. /\ audit \subseteq audit' /\ audit' \subseteq AuditRecord
      /\ \A a \in audit' \ audit : Corroborated(a)
  BY <1>1, LocalTypes
<1>3. QED
  BY <1>1, <1>2, ReturnKeepsInv

(* Between the boundary and the classification the execution only learns   *)
(* what the handler reports.                                               *)
LEMMA EvidenceKeepsInv ==
    ASSUME CoordinatorInv, NEW p \in Process, pc[p] \in {"handle", "sent"},
           NEW d \in Dispositions,
           Acted(job[p].row) => d \in {"accepted", "unknown"},
           job' = [job EXCEPT ![p].evidence = d], Goto(p, "attempt"),
           UNCHANGED <<ledgerVars, storeVars, intents, sent, audit>>
    PROVE  CoordinatorInv'
<1> DEFINE j == [job[p] EXCEPT !.evidence = d]
<1>1. /\ pc' = [pc EXCEPT ![p] = "attempt"] /\ pc'[p] = "attempt"
      /\ job' = [job EXCEPT ![p] = j] /\ job'[p] = j
      /\ job[p] \in Job
  BY LocalTypes DEF Goto
<1>2. /\ j \in Job
      /\ j.ticket = job[p].ticket /\ j.row = job[p].row
      /\ j.recorded = job[p].recorded /\ j.evidence = d
  BY <1>1 DEF Job
<1>3. job[p].recorded = FALSE /\ HasAudited(p, "pre")
  BY <1>1, InvariantParts, JobVocabulary DEF RowFollows, TrailFollows, Job
<1> HIDE DEF j
<1>4. RowFollows(p)' /\ TransactionsFollow(p)'
  BY <1>1, <1>2, <1>3, SameRow DEF Onward
<1>5. EffectsFollow(p)'
  BY <1>1, <1>2 DEF EffectsFollow, Acted
<1>6. TrailFollows(p)'
  BY <1>1, <1>2, <1>3 DEF TrailFollows, HasAudited
<1>7. ExecutionInv(p)'
  BY <1>4, <1>5, <1>6 DEF ExecutionInv
<1>8. QED
  BY <1>1, <1>2, <1>7, GoOnKeepsInv, JobVocabulary

LEMMA HandleWithoutSendingKeepsInv ==
    ASSUME CoordinatorInv, NEW p \in Process, HandleWithoutSending(p)
    PROVE  CoordinatorInv'
<1>1. PICK d \in {"not_dispatched", "unknown"} :
         job' = [job EXCEPT ![p].evidence = d]
  BY DEF HandleWithoutSending
<1>2. ~Acted(job[p].row)
  BY InvariantParts DEF HandleWithoutSending, EffectsFollow, Acted
<1>3. QED
  BY <1>1, <1>2, EvidenceKeepsInv DEF HandleWithoutSending, Dispositions

LEMMA AnswerKeepsInv ==
    ASSUME CoordinatorInv, NEW p \in Process, Answer(p)
    PROVE  CoordinatorInv'
<1>1. PICK d \in Answers(Acted(job[p].row)) :
         job' = [job EXCEPT ![p].evidence = d]
  BY DEF Answer
<1>2. d \in Dispositions /\ (Acted(job[p].row) => d \in {"accepted", "unknown"})
  BY DEF Answers, Dispositions
<1>3. QED
  BY <1>1, <1>2, EvidenceKeepsInv DEF Answer

LEMMA WriteAttemptKeepsInv ==
    ASSUME CoordinatorInv, NEW p \in Process, WriteAttempt(p)
    PROVE  CoordinatorInv'
<1>1. /\ pc[p] = "attempt" /\ pc[p] \in Running
      /\ UNCHANGED <<ledgerVars, storeVars, intents, sent>>
      /\ audit' \in {audit, audit \cup AuditOf(p, "attempt", "unknown")}
      /\ \/ Return(p)
         \/ /\ Goto(p, "result") /\ UNCHANGED job
            /\ audit' = audit \cup AuditOf(p, "attempt", "unknown")
  BY JobVocabulary DEF WriteAttempt, Audit
<1>2. /\ audit \subseteq audit' /\ audit' \subseteq AuditRecord
      /\ \A a \in audit' \ audit : Corroborated(a)
  BY <1>1, AuditWrites, JobVocabulary
<1>3. CASE Return(p)
  BY <1>1, <1>2, <1>3, ReturnKeepsInv
<1>4. CASE /\ Goto(p, "result") /\ UNCHANGED job
           /\ audit' = audit \cup AuditOf(p, "attempt", "unknown")
  <2>1. /\ pc' = [pc EXCEPT ![p] = "result"] /\ pc'[p] = "result"
        /\ job' = [job EXCEPT ![p] = job[p]] /\ job'[p] = job[p]
        /\ job[p] \in Job /\ intents' \in [Process -> SUBSET Intent]
    BY <1>1, <1>4, LocalTypes DEF Goto
  <2>2. job[p].recorded = FALSE /\ HasAudited(p, "pre")
    BY <1>1, <2>1, InvariantParts, JobVocabulary DEF RowFollows, TrailFollows, Job
  <2>3. RowFollows(p)' /\ TransactionsFollow(p)'
    BY <1>1, <2>1, <2>2, SameRow DEF Onward
  <2>4. HasAudited(p, "attempt")' /\ HasAudited(p, "pre")'
    BY <1>2, <1>4, <2>1, <2>2, AuditIsWritten DEF HasAudited
  <2>5. EffectsFollow(p)'
    BY <1>1, <2>1, InvariantParts DEF EffectsFollow, Acted
  <2>6. ExecutionInv(p)'
    BY <2>1, <2>3, <2>4, <2>5 DEF ExecutionInv, TrailFollows
  <2>7. QED
    BY <1>1, <1>2, <2>1, <2>6, LocalStep, JobVocabulary
<1>5. QED
  BY <1>1, <1>3, <1>4

(* The classification of the evidence keeps it honest. *)
LEMMA WriteResultKeepsInv ==
    ASSUME CoordinatorInv, NEW p \in Process, WriteResult(p)
    PROVE  CoordinatorInv'
<1>1. PICK v \in Verdicts(job[p].evidence) :
        /\ audit' \in {audit, audit \cup AuditOf(p, "result", "unknown")}
        /\ \/ Return(p)
           \/ /\ Goto(p, "record")
              /\ job' = [job EXCEPT ![p].verdict = v]
              /\ audit' = audit \cup AuditOf(p, "result", "unknown")
        /\ UNCHANGED <<ledgerVars, storeVars, intents, sent>>
  BY DEF WriteResult, Audit
<1>2. pc[p] = "result" /\ pc[p] \in Running
  BY JobVocabulary DEF WriteResult
<1>3. /\ audit \subseteq audit' /\ audit' \subseteq AuditRecord
      /\ \A a \in audit' \ audit : Corroborated(a)
  BY <1>1, <1>2, AuditWrites, JobVocabulary
<1>4. CASE Return(p)
  BY <1>1, <1>2, <1>3, <1>4, ReturnKeepsInv
<1>5. CASE /\ Goto(p, "record")
           /\ job' = [job EXCEPT ![p].verdict = v]
           /\ audit' = audit \cup AuditOf(p, "result", "unknown")
  <2> DEFINE j == [job[p] EXCEPT !.verdict = v]
  <2>1. /\ pc' = [pc EXCEPT ![p] = "record"] /\ pc'[p] = "record"
        /\ job' = [job EXCEPT ![p] = j] /\ job'[p] = j
        /\ job[p] \in Job /\ intents' \in [Process -> SUBSET Intent]
    BY <1>1, <1>5, LocalTypes DEF Goto
  <2>2. /\ v \in [outcome : Ledger!Outcomes, class : Ledger!Classes]
        /\ job[p].evidence \in {"accepted", "unknown"} => v.class \in EffectClasses
    BY VerdictsAreTyped
  <2>3. /\ j \in Job
        /\ j.ticket = job[p].ticket /\ j.row = job[p].row
        /\ j.recorded = job[p].recorded /\ j.verdict = v
    BY <2>1, <2>2 DEF Job
  <2>4. /\ job[p].recorded = FALSE
        /\ HasAudited(p, "pre") /\ HasAudited(p, "attempt")
    BY <1>2, <2>1, InvariantParts, JobVocabulary DEF RowFollows, TrailFollows, Job
  <2> HIDE DEF j
  <2>5. RowFollows(p)' /\ TransactionsFollow(p)'
    BY <1>1, <1>2, <2>1, <2>3, <2>4, SameRow DEF Onward
  <2>6. HasAudited(p, "result")'
    BY <1>5, <2>1, <2>3, AuditIsWritten
  <2>7. HasAudited(p, "pre")' /\ HasAudited(p, "attempt")'
    BY <1>3, <2>1, <2>3, <2>4 DEF HasAudited
  <2>8. EffectsFollow(p)'
    <3>1. Acted(job[p].row) => job[p].evidence \in {"accepted", "unknown"}
      BY <1>2, InvariantParts DEF EffectsFollow
    <3>2. Acted(job[p].row)' <=> Acted(job[p].row)
      BY <1>1, <2>1, <2>3 DEF Acted
    <3>3. QED
      BY <2>1, <2>2, <2>3, <3>1, <3>2 DEF EffectsFollow
  <2>9. ExecutionInv(p)'
    BY <2>1, <2>5, <2>6, <2>7, <2>8 DEF ExecutionInv, TrailFollows
  <2>10. QED
    BY <1>1, <1>3, <2>1, <2>3, <2>9, LocalStep, JobVocabulary
<1>6. QED
  BY <1>1, <1>4, <1>5

(* POST repeats only what the row of the execution says. *)
LEMMA WritePostKeepsInv ==
    ASSUME CoordinatorInv, NEW p \in Process, WritePost(p)
    PROVE  CoordinatorInv'
<1>1. /\ pc[p] = "post" /\ pc[p] \in Running /\ pc[p] \in Claimed
      /\ UNCHANGED <<ledgerVars, storeVars, intents, sent>>
      /\ audit' \in {audit, audit \cup AuditOf(p, "post", Reported(p))}
      /\ Return(p)
  BY JobVocabulary DEF WritePost, Audit
<1>2. job[p] \in Job /\ job[p].ticket \in Ticket /\ RowFollows(p)
  BY <1>1, LocalTypes, InvariantParts DEF RowFollows
<1>3. Reported(p) \in Ledger!Outcomes
  BY <1>2, JobVocabulary DEF Reported, Job
<1>4. Reported(p) # "unknown" =>
        /\ job[p].row \in DOMAIN rows
        /\ RowOf(p).worker_id = p /\ RowOf(p).ticket_id = job[p].ticket
        /\ RowOf(p).state = "resolved" /\ RowOf(p).outcome = Reported(p)
  <2>1. ASSUME Reported(p) # "unknown"
        PROVE  /\ job[p].row \in DOMAIN rows
               /\ RowOf(p).worker_id = p /\ RowOf(p).ticket_id = job[p].ticket
               /\ RowOf(p).state \in Ledger!TerminalStates
               /\ RowOf(p).outcome = Reported(p)
    BY <1>1, <1>2, <2>1 DEF Reported, RowFollows
  <2>2. \A n \in DOMAIN rows : rows[n].state = "unresolved" => rows[n].outcome = "unknown"
    BY InvariantParts
    DEF Ledger!LedgerInv, Ledger!VerifyAccepts, Ledger!Justified
  <2>3. QED
    BY <2>1, <2>2 DEF RowOf, Ledger!TerminalStates
<1>5. /\ audit \subseteq audit' /\ audit' \subseteq AuditRecord
      /\ \A a \in audit' \ audit : Corroborated(a)
  BY <1>1, <1>2, <1>3, <1>4, LocalTypes
  DEF AuditOf, AuditRecord, Corroborated, RowOf
<1>6. QED
  BY <1>1, <1>5, ReturnKeepsInv
-----------------------------------------------------------------------------
(* The steps that use the ledger. *)

(* A claim is a new row, at the end of the table, that nobody else works on. *)
LEMMA ReserveKeepsInv ==
    ASSUME CoordinatorInv, NEW p \in Process, Reserve(p)
    PROVE  CoordinatorInv'
<1> DEFINE t == job[p].ticket
           v == job[p].revision
           i == IntentOf[t]
           N == Len(rows) + 1
           j == [job[p] EXCEPT !.row = N]
<1>1. /\ pc[p] = "reserve" /\ pc[p] \in Running
      /\ Ledger!Reserve(p, i, t, v)
      /\ pc' = [pc EXCEPT ![p] = "consume"]
      /\ UNCHANGED <<storeVars, intents, sent, audit>>
  BY JobVocabulary DEF Reserve, Goto
<1>2. job[p] \in Job /\ t \in Ticket /\ i \in Intent /\ v \in Nat
  BY <1>1, LocalTypes, InvariantParts, IntentOfAssumption DEF RowFollows, Job
<1>3. /\ Ledger!LedgerInv'
      /\ call' = call
      /\ Len(rows') = N
      /\ DOMAIN rows' = 1 .. N
      /\ \A n \in DOMAIN rows : rows'[n] = rows[n]
      /\ rows'[N].intent_key = i /\ rows'[N].ticket_id = t
      /\ rows'[N].worker_id = p /\ rows'[N].state = "reserved"
  BY <1>1, <1>2, InvariantParts, LedgerReserve
<1>4. /\ Len(rows) \in Nat /\ DOMAIN rows = 1 .. Len(rows)
      /\ N \in DOMAIN rows' /\ N \notin DOMAIN rows
      /\ \A n \in DOMAIN rows' : n \in DOMAIN rows \/ n = N
      /\ \A n \in DOMAIN rows : n \in DOMAIN rows'
  BY <1>3, LedgerTable, InvariantParts
<1>5. Store!ApprovalInv' /\ SpentStay /\ request' = request /\ tickets' = tickets
  BY <1>1, InvariantParts, StoreRests DEF storeVars
<1>6. job' = [job EXCEPT ![p] = j]
  BY <1>1, <1>3, LocalTypes DEF Reserve
<1>7. /\ j \in Job /\ j.row = N /\ j.ticket = t /\ j.recorded = job[p].recorded
  BY <1>2, <1>4 DEF Job
<1>8. job[p].recorded = FALSE /\ HasAudited(p, "pre")
  BY <1>1, <1>2, InvariantParts DEF RowFollows, TrailFollows, Job
<1> HIDE DEF j, N
<1>9. pc'[p] = "consume" /\ job'[p] = j
  BY <1>1, <1>6, LocalTypes
<1>10. LocalTypeOK'
  BY <1>1, <1>6, <1>7, JobVocabulary, InvariantParts DEF LocalTypeOK
<1>11. OnlyFor(p)
  BY <1>1, <1>3, <1>4, <1>5, <1>6, LocalTypes DEF OnlyFor
<1>12. ExecutionInv(p)'
  <2>1. RowFollows(p)'
    BY <1>2, <1>3, <1>4, <1>7, <1>8, <1>9, JobVocabulary DEF RowFollows, RowOf
  <2>2. TransactionsFollow(p)'
    BY <1>1, <1>3, <1>5, <1>9, NothingHeld DEF TransactionsFollow
  <2>3. EffectsFollow(p)' /\ TrailFollows(p)'
    BY <1>1, <1>7, <1>8, <1>9, JobVocabulary DEF EffectsFollow, TrailFollows, HasAudited
  <2>4. QED
    BY <2>1, <2>2, <2>3 DEF ExecutionInv
<1>13. ClaimsArePaid'
  <2>1. /\ \A n \in DOMAIN rows : rows'[n].intent_key = IntentOf[rows'[n].ticket_id]
        /\ rows'[N].intent_key = IntentOf[rows'[N].ticket_id]
    BY <1>3, InvariantParts DEF ClaimsArePaid
  <2>2. \A n \in DOMAIN rows : rows'[n].state # "reserved" => Paid(rows[n])'
    BY <1>3, <1>5, InvariantParts DEF ClaimsArePaid, Paid
  <2>3. rows'[N].state = "reserved"
    BY <1>3
  <2>4. QED
    BY <1>4, <2>1, <2>2, <2>3 DEF ClaimsArePaid
<1>14. RequestsFollowClaims'
  <2>1. \A n \in DOMAIN sent : sent[n].row \in DOMAIN rows
    BY InvariantParts DEF RequestsFollowClaims
  <2>2. /\ sent' = sent
        /\ \A n \in DOMAIN sent : SentFor(n)' = SentFor(n)
    BY <1>1, <1>3, <2>1 DEF SentFor
  <2>3. QED
    BY <1>4, <2>1, <2>2, InvariantParts DEF RequestsFollowClaims
<1>15. SettlementIsAudited'
  <2>1. ASSUME NEW n \in DOMAIN rows', rows'[n].state \in Ledger!TerminalStates
        PROVE  n \in DOMAIN rows /\ rows'[n] = rows[n]
    BY <1>3, <1>4, <2>1 DEF Ledger!TerminalStates
  <2>2. audit' = audit
    BY <1>1
  <2>3. QED
    BY <2>1, <2>2, InvariantParts DEF SettlementIsAudited, Audited
<1>16. PostIsCorroborated'
  BY <1>1, <1>3, <1>4, InvariantParts DEF PostIsCorroborated
<1>17. QED
  BY <1>3, <1>5, <1>10, <1>11, <1>12, <1>13, <1>14, <1>15, <1>16,
     PartsMakeTheInvariant

(* The first half of a transition: p holds the move of its execution. *)
LEMMA GateKeepsInv ==
    ASSUME CoordinatorInv, NEW p \in Process, NEW place \in Places,
           pc' = [pc EXCEPT ![p] = place],
           Ledger!LedgerInv', rows' = rows,
           \A q \in Process : q # p => call'[q] = call[q],
           UNCHANGED <<storeVars, job, intents, sent, audit>>,
           ExecutionInv(p)'
    PROVE  CoordinatorInv'
<1>1. Store!ApprovalInv' /\ SpentStay /\ request' = request
  BY InvariantParts, StoreRests
<1>2. LocalTypeOK'
  BY InvariantParts DEF LocalTypeOK
<1>3. OnlyFor(p)
  BY <1>1, LocalTypes DEF OnlyFor
<1>4. /\ ClaimsArePaid' /\ RequestsFollowClaims'
      /\ SettlementIsAudited' /\ PostIsCorroborated'
  BY <1>1, TablesRest
<1>5. QED
  BY <1>1, <1>2, <1>3, <1>4, PartsMakeTheInvariant

LEMMA MarkKeepsInv ==
    ASSUME CoordinatorInv, NEW p \in Process, Mark(p)
    PROVE  CoordinatorInv'
<1>1. /\ pc[p] = "mark" /\ pc[p] \in Claimed
      /\ Ledger!MarkAttempted(p, job[p].row)
      /\ pc' = [pc EXCEPT ![p] = "marking"] /\ pc'[p] = "marking"
      /\ UNCHANGED <<storeVars, job, intents, sent, audit>>
  BY JobVocabulary, LocalTypes DEF Mark, Goto
<1>2. /\ Ledger!LedgerInv' /\ rows' = rows
      /\ \A q \in Process : q # p => call'[q] = call[q]
      /\ call'[p].row = job[p].row
      /\ call'[p].state = "attempted"
      /\ call'[p].reexecution_class = Ledger!None
  BY <1>1, InvariantParts, LedgerMark
<1>3. tickets' = tickets /\ request' = request
  BY <1>1 DEF storeVars
<1>4. /\ RowFollows(p) /\ TransactionsFollow(p)
      /\ EffectsFollow(p) /\ TrailFollows(p)
  BY InvariantParts
<1>5. RowFollows(p)'
  BY <1>1, <1>2, <1>4, JobVocabulary DEF RowFollows, RowOf
<1>6. TransactionsFollow(p)'
  BY <1>1, <1>2, <1>3, <1>4 DEF TransactionsFollow, Store!Waiting
<1>7. EffectsFollow(p)'
  BY <1>1, <1>2, <1>3, <1>4 DEF EffectsFollow, RowOf, Paid
<1>8. TrailFollows(p)'
  BY <1>1, <1>4, JobVocabulary DEF TrailFollows, HasAudited
<1>9. QED
  BY <1>1, <1>2, <1>5, <1>6, <1>7, <1>8, GateKeepsInv, JobVocabulary
  DEF ExecutionInv

LEMMA RecordKeepsInv ==
    ASSUME CoordinatorInv, NEW p \in Process, Record(p)
    PROVE  CoordinatorInv'
<1> DEFINE v == job[p].verdict
<1>1. /\ pc[p] = "record" /\ pc[p] \in Claimed
      /\ Ledger!RecordOutcome(p, job[p].row, v.outcome, v.class)
      /\ pc' = [pc EXCEPT ![p] = "recording"] /\ pc'[p] = "recording"
      /\ UNCHANGED <<storeVars, job, intents, sent, audit>>
  BY JobVocabulary, LocalTypes DEF Record, Goto
<1>2. v.outcome \in Ledger!Outcomes /\ v.class \in Ledger!Classes
  BY LocalTypes DEF Job
<1>3. /\ Ledger!LedgerInv' /\ rows' = rows
      /\ \A q \in Process : q # p => call'[q] = call[q]
      /\ call'[p].row = job[p].row
      /\ call'[p].state \in Ledger!TerminalStates
      /\ call'[p].outcome = v.outcome
      /\ call'[p].reexecution_class = v.class
  <2>1. ASSUME NEW o \in Ledger!Outcomes, NEW k \in Ledger!Classes,
               Ledger!RecordOutcome(p, job[p].row, o, k)
        PROVE  /\ Ledger!LedgerInv' /\ rows' = rows
               /\ \A q \in Process : q # p => call'[q] = call[q]
               /\ call'[p].row = job[p].row
               /\ call'[p].state \in Ledger!TerminalStates
               /\ call'[p].outcome = o
               /\ call'[p].reexecution_class = k
    BY <2>1, InvariantParts, LedgerRecord
  <2>2. QED
    BY <1>1, <1>2, <2>1
<1>4. request' = request
  BY <1>1 DEF storeVars
<1>5. /\ RowFollows(p) /\ TransactionsFollow(p)
      /\ EffectsFollow(p) /\ TrailFollows(p)
  BY InvariantParts
<1>6. RowFollows(p)'
  BY <1>1, <1>3, <1>5, JobVocabulary DEF RowFollows, RowOf
<1>7. TransactionsFollow(p)'
  BY <1>1, <1>3, <1>4, <1>5 DEF TransactionsFollow, Store!Waiting
<1>8. EffectsFollow(p)'
  BY <1>1, <1>5 DEF EffectsFollow, Acted
<1>9. TrailFollows(p)'
  BY <1>1, <1>5, JobVocabulary DEF TrailFollows, HasAudited
<1>10. QED
  BY <1>1, <1>3, <1>6, <1>7, <1>8, <1>9, GateKeepsInv, JobVocabulary
  DEF ExecutionInv

(* A transition that ends without its write: the process goes on, or its   *)
(* execution is over.                                                      *)
LEMMA MarkFailsKeepsInv ==
    ASSUME CoordinatorInv, NEW p \in Process, MarkFails(p)
    PROVE  CoordinatorInv'
<1>1. /\ pc[p] \in {"mark", "marking"}
      /\ pc' = [pc EXCEPT ![p] = "idle"] /\ pc'[p] = "idle"
      /\ job' = [job EXCEPT ![p] = NoJob] /\ job'[p] = NoJob
      /\ rows' = rows
      /\ UNCHANGED <<rows, now, storeVars, intents, sent, audit>>
  BY LocalTypes DEF MarkFails, Return, Goto
<1>2. /\ Ledger!LedgerInv' /\ Ledger!Idle(p)'
      /\ \A q \in Process : q # p => call'[q] = call[q]
  <2>1. CASE pc[p] = "mark" /\ UNCHANGED call
    BY <1>1, <2>1, InvariantParts, LedgerRests DEF TransactionsFollow, Ledger!Idle
  <2>2. CASE call' = [call EXCEPT ![p] = Ledger!NoCall]
    BY <1>1, <2>2, InvariantParts, LedgerDrop
  <2>3. QED
    BY <2>1, <2>2 DEF MarkFails
<1>3. Store!ApprovalInv' /\ SpentStay /\ request' = request
  BY <1>1, InvariantParts, StoreRests
<1>4. ~Store!Waiting(p)'
  BY <1>1, <1>3, InvariantParts DEF TransactionsFollow, Store!Waiting
<1>5. ExecutionInv(p)'
  BY <1>1, <1>2, <1>4, OverIsSound
<1>6. LocalTypeOK'
  BY <1>1, InvariantParts, JobVocabulary DEF LocalTypeOK
<1>7. OnlyFor(p)
  BY <1>1, <1>2, <1>3, LocalTypes DEF OnlyFor
<1>8. /\ ClaimsArePaid' /\ RequestsFollowClaims'
      /\ SettlementIsAudited' /\ PostIsCorroborated'
  BY <1>1, <1>3, TablesRest
<1>9. QED
  BY <1>2, <1>3, <1>5, <1>6, <1>7, <1>8, PartsMakeTheInvariant

LEMMA RecordFailsKeepsInv ==
    ASSUME CoordinatorInv, NEW p \in Process, RecordFails(p)
    PROVE  CoordinatorInv'
<1>1. /\ pc[p] \in {"record", "recording"} /\ pc[p] \in Marked /\ pc[p] \in Claimed
      /\ pc' = [pc EXCEPT ![p] = "post"] /\ pc'[p] = "post"
      /\ rows' = rows
      /\ UNCHANGED <<rows, now, storeVars, job, intents, sent, audit>>
  BY LocalTypes, JobVocabulary DEF RecordFails, Goto
<1>2. /\ Ledger!LedgerInv' /\ Ledger!Idle(p)'
      /\ \A q \in Process : q # p => call'[q] = call[q]
  <2>1. CASE pc[p] = "record" /\ UNCHANGED call
    BY <1>1, <2>1, InvariantParts, LedgerRests DEF TransactionsFollow, Ledger!Idle
  <2>2. CASE call' = [call EXCEPT ![p] = Ledger!NoCall]
    BY <1>1, <2>2, InvariantParts, LedgerDrop
  <2>3. QED
    BY <2>1, <2>2 DEF RecordFails
<1>3. request' = request
  BY <1>1 DEF storeVars
<1>4. /\ RowFollows(p) /\ TransactionsFollow(p) /\ TrailFollows(p)
      /\ job[p].recorded \in BOOLEAN
  BY InvariantParts, LocalTypes DEF Job
<1>5. RowFollows(p)'
  BY <1>1, <1>4, JobVocabulary DEF RowFollows, RowOf
<1>6. TransactionsFollow(p)'
  BY <1>1, <1>2, <1>3, <1>4 DEF TransactionsFollow, Store!Waiting
<1>7. EffectsFollow(p)' /\ TrailFollows(p)'
  BY <1>1, <1>4, JobVocabulary DEF EffectsFollow, TrailFollows, HasAudited
<1>8. QED
  BY <1>1, <1>2, <1>5, <1>6, <1>7, GateKeepsInv, JobVocabulary DEF ExecutionInv

(* The second half of a transition writes the row p works on, which nobody *)
(* reported as settled before: the row was open, its approval is spent,    *)
(* what it records of a request is what p has honest evidence for, and it  *)
(* is settled only when p has written its trail.                           *)
LEMMA CommitKeepsTables ==
    ASSUME CoordinatorInv, NEW p \in Process, pc[p] \in {"marking", "recording"},
           Ledger!Commit(p), UNCHANGED <<storeVars, intents, sent, audit>>
    PROVE  /\ Ledger!LedgerInv' /\ Store!ApprovalInv' /\ SpentStay
           /\ ClaimsArePaid' /\ RequestsFollowClaims'
           /\ SettlementIsAudited' /\ PostIsCorroborated'
           /\ Ledger!Idle(p)' /\ ~Store!Waiting(p)'
<1> DEFINE n == job[p].row
<1>1. /\ pc[p] \in Claimed
      /\ RowFollows(p) /\ TransactionsFollow(p)
      /\ EffectsFollow(p) /\ TrailFollows(p)
      /\ call[p].row = n /\ RowOf(p) = rows[n] /\ n \in DOMAIN rows
  BY JobVocabulary, InvariantParts DEF TransactionsFollow, RowFollows, RowOf
<1>2. /\ Ledger!LedgerInv' /\ call'[p] = Ledger!NoCall
      /\ rows[n].state \in Ledger!OpenStates
      /\ DOMAIN rows' = DOMAIN rows
      /\ \A m \in DOMAIN rows : m # n => rows'[m] = rows[m]
      /\ rows'[n].intent_key = rows[n].intent_key
      /\ rows'[n].ticket_id = rows[n].ticket_id
      /\ rows'[n].ticket_revision = rows[n].ticket_revision
      /\ rows'[n].worker_id = rows[n].worker_id
      /\ rows'[n].state = call[p].state
      /\ rows'[n].reexecution_class = call[p].reexecution_class
  BY <1>1, InvariantParts, LedgerCommit
<1>3. /\ \A m \in DOMAIN rows :
            /\ rows'[m].intent_key = rows[m].intent_key
            /\ rows'[m].ticket_id = rows[m].ticket_id
            /\ rows'[m].ticket_revision = rows[m].ticket_revision
            /\ rows'[m].worker_id = rows[m].worker_id
      /\ rows'[n].state \in {"attempted", "resolved", "unresolved"}
      /\ rows'[n].state \in Ledger!TerminalStates => pc[p] = "recording"
  BY <1>1, <1>2 DEF TransactionsFollow, Ledger!TerminalStates
<1>4. Store!ApprovalInv' /\ SpentStay /\ request' = request /\ tickets' = tickets
  BY InvariantParts, StoreRests DEF storeVars
<1>5. ClaimsArePaid'
  <2>1. Paid(rows[n])
    BY <1>1, InvariantParts, JobVocabulary
    DEF EffectsFollow, ClaimsArePaid, RowFollows
  <2>2. \A m \in DOMAIN rows : rows'[m].state # "reserved" => Paid(rows[m])
    BY <1>2, <2>1, InvariantParts DEF ClaimsArePaid
  <2>3. \A m \in DOMAIN rows : rows'[m].state # "reserved" => Paid(rows[m])'
    BY <1>3, <1>4, <2>2 DEF Paid
  <2>4. QED
    BY <1>2, <1>3, <2>3, InvariantParts DEF ClaimsArePaid
<1>6. RequestsFollowClaims'
  <2>1. ASSUME NEW k \in DOMAIN sent
        PROVE  /\ sent[k].row \in DOMAIN rows
               /\ rows'[sent[k].row].state # "reserved"
               /\ sent[k].acted => rows'[sent[k].row].reexecution_class
                                     \in EffectClasses \cup {Ledger!None}
    <3>1. /\ sent[k].row \in DOMAIN rows
          /\ rows[sent[k].row].state # "reserved"
          /\ sent[k].acted => rows[sent[k].row].reexecution_class
                                \in EffectClasses \cup {Ledger!None}
      BY InvariantParts DEF RequestsFollowClaims, SentFor
    <3>2. CASE sent[k].row # n
      BY <1>2, <3>1, <3>2
    <3>3. CASE sent[k].row = n
      <4>1. sent[k].acted => Acted(n)
        BY <3>3 DEF Acted
      <4>2. Acted(n) => call[p].reexecution_class \in EffectClasses \cup {Ledger!None}
        BY <1>1 DEF EffectsFollow, TransactionsFollow
      <4>3. QED
        BY <1>2, <1>3, <3>1, <3>3, <4>1, <4>2
    <3>4. QED
      BY <3>2, <3>3
  <2>2. \A k \in DOMAIN sent : SentFor(k)'.intent_key = SentFor(k).intent_key
    BY <1>3, <2>1 DEF SentFor
  <2>3. QED
    BY <1>2, <2>1, <2>2, InvariantParts DEF RequestsFollowClaims, SentFor
<1>7. SettlementIsAudited'
  <2>1. ASSUME NEW m \in DOMAIN rows, rows'[m].state \in Ledger!TerminalStates,
               NEW stage \in {"pre", "attempt", "result"}
        PROVE  Audited(stage, rows[m])
    <3>1. CASE m # n
      BY <1>2, <2>1, <3>1, InvariantParts DEF SettlementIsAudited
    <3>2. CASE m = n
      BY <1>1, <1>3, <2>1, <3>2, JobVocabulary
      DEF TrailFollows, HasAudited, Audited, RowFollows
    <3>3. QED
      BY <3>1, <3>2
  <2>2. \A m \in DOMAIN rows, stage \in {"pre", "attempt", "result"} :
           Audited(stage, rows[m]) => Audited(stage, rows[m])'
    BY <1>3 DEF Audited
  <2>3. QED
    BY <1>2, <2>1, <2>2 DEF SettlementIsAudited
<1>8. PostIsCorroborated'
  <2>1. \A m \in DOMAIN rows : rows[m].state = "resolved" => rows'[m] = rows[m]
    BY <1>2 DEF Ledger!OpenStates
  <2>2. QED
    BY <1>2, <2>1, InvariantParts DEF PostIsCorroborated
<1>9. Ledger!Idle(p)' /\ ~Store!Waiting(p)'
  BY <1>1, <1>2, <1>4 DEF Ledger!Idle, Ledger!NoCall, TransactionsFollow, Store!Waiting
<1>10. QED
  BY <1>2, <1>4, <1>5, <1>6, <1>7, <1>8, <1>9

LEMMA CommitIsOnlyForItsWorker ==
    ASSUME CoordinatorInv, NEW p \in Process, pc[p] \in {"marking", "recording"},
           Ledger!Commit(p), SpentStay, NEW place \in Places, NEW j \in Job,
           pc' = [pc EXCEPT ![p] = place], job' = [job EXCEPT ![p] = j],
           UNCHANGED <<storeVars, intents, sent, audit>>
    PROVE  OnlyFor(p) /\ LocalTypeOK'
<1>1. /\ job[p].row \in DOMAIN rows /\ rows[job[p].row].worker_id = p
      /\ call[p].row = job[p].row
  BY JobVocabulary, InvariantParts DEF TransactionsFollow, RowFollows, RowOf
<1>2. /\ \A q \in Process : q # p => call'[q] = call[q]
      /\ DOMAIN rows' = DOMAIN rows
      /\ \A m \in DOMAIN rows : m # job[p].row => rows'[m] = rows[m]
  BY <1>1, InvariantParts, LedgerCommit
<1>3. request' = request
  BY DEF storeVars
<1>4. OnlyFor(p)
  BY <1>1, <1>2, <1>3, LocalTypes DEF OnlyFor
<1>5. QED
  BY <1>4, InvariantParts DEF LocalTypeOK

LEMMA CommitMarkKeepsInv ==
    ASSUME CoordinatorInv, NEW p \in Process, CommitMark(p)
    PROVE  CoordinatorInv'
<1>1. /\ pc[p] = "marking" /\ Ledger!Commit(p)
      /\ \/ pc' = [pc EXCEPT ![p] = "handle"] /\ job' = job
         \/ pc' = [pc EXCEPT ![p] = "idle"] /\ job' = [job EXCEPT ![p] = NoJob]
      /\ UNCHANGED <<storeVars, intents, sent, audit>>
  BY DEF CommitMark, Goto, Return
<1>2. /\ Ledger!LedgerInv' /\ Store!ApprovalInv' /\ SpentStay
      /\ ClaimsArePaid' /\ RequestsFollowClaims'
      /\ SettlementIsAudited' /\ PostIsCorroborated'
      /\ Ledger!Idle(p)' /\ ~Store!Waiting(p)'
  BY <1>1, CommitKeepsTables
<1>3. CASE pc' = [pc EXCEPT ![p] = "idle"] /\ job' = [job EXCEPT ![p] = NoJob]
  <2>1. ExecutionInv(p)'
    BY <1>2, <1>3, OverIsSound, LocalTypes
  <2>2. OnlyFor(p) /\ LocalTypeOK'
    BY <1>1, <1>2, <1>3, CommitIsOnlyForItsWorker, JobVocabulary
  <2>3. QED
    BY <1>2, <2>1, <2>2, PartsMakeTheInvariant
<1>4. CASE pc' = [pc EXCEPT ![p] = "handle"] /\ job' = job
  <2> DEFINE n == job[p].row
  <2>1. /\ RowFollows(p) /\ TransactionsFollow(p) /\ TrailFollows(p)
        /\ job[p] \in Job /\ job' = [job EXCEPT ![p] = job[p]] /\ pc'[p] = "handle"
    BY <1>4, InvariantParts, LocalTypes
  <2>2. /\ n \in DOMAIN rows /\ n = call[p].row /\ rows[n].state = "reserved"
        /\ rows[n].worker_id = p /\ rows[n].ticket_id = job[p].ticket
        /\ call[p].state = "attempted" /\ job[p].ticket \in Ticket
        /\ job[p].recorded = FALSE
    BY <1>1, <2>1, JobVocabulary DEF RowFollows, TransactionsFollow, RowOf, Job
  <2>3. /\ n \in DOMAIN rows' /\ rows'[n].state = "attempted"
        /\ rows'[n].worker_id = p /\ rows'[n].ticket_id = job[p].ticket
    BY <1>1, <2>2, InvariantParts, LedgerCommit
  <2>4. RowFollows(p)'
    BY <1>4, <2>1, <2>2, <2>3, JobVocabulary DEF RowFollows, RowOf
  <2>5. TransactionsFollow(p)'
    BY <1>2, <2>1 DEF TransactionsFollow
  <2>6. EffectsFollow(p)'
    <3>1. \A k \in DOMAIN sent : sent[k].row # n
      BY <2>2, InvariantParts DEF RequestsFollowClaims, SentFor
    <3>2. QED
      BY <1>1, <1>4, <2>1, <3>1 DEF EffectsFollow
  <2>7. TrailFollows(p)'
    BY <1>1, <1>4, <2>1, JobVocabulary DEF TrailFollows, HasAudited
  <2>8. OnlyFor(p) /\ LocalTypeOK'
    BY <1>1, <1>2, <1>4, <2>1, CommitIsOnlyForItsWorker, JobVocabulary
  <2>9. QED
    BY <1>2, <2>4, <2>5, <2>6, <2>7, <2>8, PartsMakeTheInvariant DEF ExecutionInv
<1>5. QED
  BY <1>1, <1>3, <1>4

(* What the ledger acknowledges is in the row by then. *)
LEMMA CommitRecordKeepsInv ==
    ASSUME CoordinatorInv, NEW p \in Process, CommitRecord(p)
    PROVE  CoordinatorInv'
<1>1. PICK recorded \in BOOLEAN : job' = [job EXCEPT ![p].recorded = recorded]
  BY DEF CommitRecord
<1> DEFINE n == job[p].row
           j == [job[p] EXCEPT !.recorded = recorded]
<1>2. /\ pc[p] = "recording" /\ Ledger!Commit(p)
      /\ pc' = [pc EXCEPT ![p] = "post"]
      /\ UNCHANGED <<storeVars, intents, sent, audit>>
  BY DEF CommitRecord, Goto
<1>3. /\ Ledger!LedgerInv' /\ Store!ApprovalInv' /\ SpentStay
      /\ ClaimsArePaid' /\ RequestsFollowClaims'
      /\ SettlementIsAudited' /\ PostIsCorroborated'
      /\ Ledger!Idle(p)' /\ ~Store!Waiting(p)'
  BY <1>2, CommitKeepsTables
<1>4. /\ RowFollows(p) /\ TransactionsFollow(p) /\ TrailFollows(p)
      /\ job[p] \in Job
  BY InvariantParts, LocalTypes
<1>5. /\ j \in Job /\ j.ticket = job[p].ticket /\ j.row = n
      /\ j.verdict = job[p].verdict
  BY <1>4 DEF Job
<1>6. job' = [job EXCEPT ![p] = j] /\ pc'[p] = "post"
  BY <1>1, <1>2, LocalTypes
<1> HIDE DEF j
<1>7. job'[p] = j
  BY <1>6, LocalTypes
<1>8. /\ n \in DOMAIN rows /\ n = call[p].row
      /\ rows[n].worker_id = p /\ rows[n].ticket_id = job[p].ticket
      /\ call[p].state \in Ledger!TerminalStates
      /\ call[p].outcome = job[p].verdict.outcome
      /\ job[p].ticket \in Ticket
  BY <1>2, <1>4, JobVocabulary DEF RowFollows, TransactionsFollow, RowOf
<1>9. /\ n \in DOMAIN rows' /\ rows'[n].state \in Ledger!TerminalStates
      /\ rows'[n].outcome = job[p].verdict.outcome
      /\ rows'[n].worker_id = p /\ rows'[n].ticket_id = job[p].ticket
  BY <1>2, <1>8, InvariantParts, LedgerCommit
<1>10. RowFollows(p)'
  BY <1>5, <1>6, <1>7, <1>8, <1>9, JobVocabulary DEF RowFollows, RowOf
<1>11. TransactionsFollow(p)'
  BY <1>3, <1>6 DEF TransactionsFollow
<1>12. EffectsFollow(p)'
  BY <1>6 DEF EffectsFollow
<1>13. TrailFollows(p)'
  BY <1>2, <1>4, <1>5, <1>6, <1>7, JobVocabulary DEF TrailFollows, HasAudited
<1>14. OnlyFor(p) /\ LocalTypeOK'
  BY <1>2, <1>3, <1>5, <1>6, CommitIsOnlyForItsWorker, JobVocabulary
<1>15. QED
  BY <1>3, <1>10, <1>11, <1>12, <1>13, <1>14, PartsMakeTheInvariant DEF ExecutionInv

(* A request that leaves is the first of its row, and its row stands in    *)
(* the way of every later claim of its intent: so it is the last.          *)
LEMMA SendKeepsInv ==
    ASSUME CoordinatorInv, NEW p \in Process, Send(p)
    PROVE  CoordinatorInv'
<1> DEFINE n == job[p].row
           K == Len(sent) + 1
<1>1. PICK acted \in BOOLEAN : sent' = Append(sent, [row |-> n, acted |-> acted])
  BY DEF Send
<1>2. /\ pc[p] = "handle"
      /\ pc' = [pc EXCEPT ![p] = "sent"] /\ pc'[p] = "sent"
      /\ job' = [job EXCEPT ![p] = job[p]] /\ job' = job /\ job[p] \in Job
      /\ UNCHANGED <<rows, call, now, storeVars, intents, audit>>
  BY LocalTypes DEF Send, Goto, ledgerVars
<1>3. /\ Ledger!LedgerInv' /\ Store!ApprovalInv' /\ SpentStay
      /\ request' = request /\ tickets' = tickets
  BY <1>2, InvariantParts, LedgerRests, StoreRests DEF storeVars
<1>4. /\ RowFollows(p) /\ TransactionsFollow(p)
      /\ EffectsFollow(p) /\ TrailFollows(p)
  BY InvariantParts
<1>5. /\ n \in DOMAIN rows /\ rows[n].state = "attempted" /\ rows[n].worker_id = p
      /\ \A k \in DOMAIN sent : sent[k].row # n
  BY <1>2, <1>4, JobVocabulary DEF RowFollows, RowOf, EffectsFollow
<1>6. n \in Nat
  BY <1>2 DEF Job
<1>7. /\ sent \in Seq(Sending) /\ DOMAIN sent = 1 .. Len(sent) /\ Len(sent) \in Nat
      /\ sent' \in Seq(Sending) /\ DOMAIN sent' = 1 .. K
      /\ sent'[K] = [row |-> n, acted |-> acted]
      /\ \A k \in DOMAIN sent : sent'[k] = sent[k]
  BY <1>1, <1>6, InvariantParts, AppendProperties, LenProperties
  DEF LocalTypeOK, Sending
<1>8. \A k \in DOMAIN sent' : k = K \/ k \in DOMAIN sent
  BY <1>7
<1>9. LocalTypeOK'
  BY <1>2, <1>7, InvariantParts, JobVocabulary DEF LocalTypeOK
<1>10. OnlyFor(p)
  BY <1>2, <1>3, <1>5, <1>7, <1>8, LocalTypes DEF OnlyFor
<1>11. ExecutionInv(p)'
  <2>1. RowFollows(p)'
    BY <1>2, <1>4, JobVocabulary DEF RowFollows, RowOf
  <2>2. TransactionsFollow(p)'
    BY <1>2, <1>3, <1>4 DEF TransactionsFollow, Ledger!Idle, Store!Waiting
  <2>3. EffectsFollow(p)' /\ TrailFollows(p)'
    BY <1>2, <1>4, JobVocabulary DEF EffectsFollow, TrailFollows, HasAudited
  <2>4. QED
    BY <2>1, <2>2, <2>3 DEF ExecutionInv
<1>12. RequestsFollowClaims'
  <2>1. rows[n].reexecution_class = Ledger!None
    BY <1>5, InvariantParts
    DEF Ledger!LedgerInv, Ledger!VerifyAccepts, Ledger!Justified, Ledger!OpenStates
  <2>2. \A k \in DOMAIN sent' :
          /\ sent'[k].row \in DOMAIN rows
          /\ rows[sent'[k].row].state # "reserved"
          /\ sent'[k].acted =>
               rows[sent'[k].row].reexecution_class \in EffectClasses \cup {Ledger!None}
    BY <1>5, <1>7, <1>8, <2>1, InvariantParts DEF RequestsFollowClaims, SentFor
  <2>3. ASSUME NEW k \in DOMAIN sent, rows[sent[k].row].intent_key = rows[n].intent_key
        PROVE  sent[k].row < n
    <3>1. sent[k].row \in DOMAIN rows /\ sent[k].row # n
      BY <1>5, InvariantParts DEF RequestsFollowClaims
    <3>2. Ledger!Blocks(rows[n])
      BY <1>5 DEF Ledger!Blocks, Ledger!OpenStates
    <3>3. ~(n < sent[k].row)
      BY <1>5, <2>3, <3>1, <3>2, InvariantParts
      DEF Ledger!LedgerInv, Ledger!OnlyTheLastBlocks, Ledger!RowsOf
    <3>4. sent[k].row \in Nat
      BY <3>1, InvariantParts, LedgerTable
    <3>5. QED
      BY <1>6, <3>1, <3>3, <3>4
  <2>4. ASSUME NEW k \in DOMAIN sent', NEW l \in DOMAIN sent', k < l
        PROVE  /\ sent'[k].row # sent'[l].row
               /\ rows[sent'[k].row].intent_key = rows[sent'[l].row].intent_key =>
                     sent'[k].row < sent'[l].row
    <3>1. k \in DOMAIN sent
      BY <1>7, <2>4
    <3>2. CASE l \in DOMAIN sent
      BY <1>7, <2>4, <3>1, <3>2, InvariantParts DEF RequestsFollowClaims, SentFor
    <3>3. CASE l = K
      BY <1>5, <1>7, <2>3, <3>1, <3>3
    <3>4. QED
      BY <1>8, <3>2, <3>3
  <2>5. QED
    BY <1>2, <2>2, <2>4 DEF RequestsFollowClaims, SentFor
<1>13. ClaimsArePaid' /\ SettlementIsAudited' /\ PostIsCorroborated'
  BY <1>2, <1>3, InvariantParts
  DEF ClaimsArePaid, Paid, SettlementIsAudited, Audited, PostIsCorroborated
<1>14. QED
  BY <1>3, <1>9, <1>10, <1>11, <1>12, <1>13, PartsMakeTheInvariant
-----------------------------------------------------------------------------
(* The steps that use the approval store. *)

(* A step of p, or of somebody who executes nothing, on the store alone. *)
LEMMA StoreStepKeepsInv ==
    ASSUME CoordinatorInv, NEW p, Store!ApprovalInv', SpentStay,
           \A q \in Process : q # p =>
               /\ pc'[q] = pc[q] /\ job'[q] = job[q] /\ request'[q] = request[q],
           pc' \in [Process -> Places], job' \in [Process -> Job],
           UNCHANGED <<ledgerVars, intents, sent, audit>>,
           p \in Process => ExecutionInv(p)'
    PROVE  CoordinatorInv'
<1>1. UNCHANGED <<rows, call, now>>
  BY DEF ledgerVars
<1>2. Ledger!LedgerInv'
  BY <1>1, InvariantParts, LedgerRests
<1>3. LocalTypeOK'
  BY InvariantParts DEF LocalTypeOK
<1>4. OnlyFor(p)
  BY <1>1 DEF OnlyFor
<1>5. /\ ClaimsArePaid' /\ RequestsFollowClaims'
      /\ SettlementIsAudited' /\ PostIsCorroborated'
  BY <1>1, TablesRest
<1>6. QED
  BY <1>2, <1>3, <1>4, <1>5, PartsMakeTheInvariant

(* p holds the redemption of its ticket at the revision its row is bound   *)
(* to, and nothing else has changed for it.                                *)
LEMMA ConsumingFollows ==
    ASSUME CoordinatorInv, NEW p \in Process, pc[p] \in {"consume", "consuming"},
           pc'[p] = "consuming", UNCHANGED <<ledgerVars, job, intents, sent, audit>>,
           request'[p].ticket_id = job[p].ticket,
           request'[p].status = "consumed",
           request'[p].read.revision = ReservedRevision(p)
    PROVE  ExecutionInv(p)'
<1>1. UNCHANGED <<rows, call, now>>
  BY DEF ledgerVars
<1>2. RowFollows(p) /\ TransactionsFollow(p) /\ TrailFollows(p)
  BY InvariantParts
<1>3. RowFollows(p)'
  BY <1>1, <1>2, JobVocabulary DEF RowFollows, RowOf
<1>4. TransactionsFollow(p)'
  BY <1>1, <1>2 DEF TransactionsFollow, Ledger!Idle, ReservedRevision, RowOf
<1>5. EffectsFollow(p)' /\ TrailFollows(p)'
  BY <1>2, JobVocabulary DEF EffectsFollow, TrailFollows, HasAudited
<1>6. QED
  BY <1>3, <1>4, <1>5 DEF ExecutionInv

LEMMA ConsumeKeepsInv ==
    ASSUME CoordinatorInv, NEW p \in Process, Consume(p)
    PROVE  CoordinatorInv'
<1> DEFINE t == job[p].ticket
<1>1. /\ pc[p] = "consume" /\ pc[p] \in Running
      /\ tickets[t].revision = ReservedRevision(p)
      /\ Store!GateTransition(p, t, "consumed", 0, "none")
      /\ pc' = [pc EXCEPT ![p] = "consuming"]
      /\ UNCHANGED <<ledgerVars, job, intents, sent, audit>>
  BY JobVocabulary DEF Consume, Store!Consume, Goto
<1>2. t \in Ticket /\ p \in Client
  BY <1>1, InvariantParts DEF RowFollows, Client
<1>3. /\ Store!ApprovalInv' /\ SpentStay
      /\ \A d \in Client : d # p => request'[d] = request[d]
      /\ request'[p].ticket_id = t
      /\ request'[p].status = "consumed"
      /\ request'[p].read = tickets[t]
  BY <1>1, <1>2, InvariantParts, StoreGate
<1>4. pc'[p] = "consuming"
  BY <1>1, LocalTypes
<1>5. ExecutionInv(p)'
  BY <1>1, <1>3, <1>4, ConsumingFollows
<1>6. /\ pc' \in [Process -> Places] /\ job' \in [Process -> Job]
      /\ \A q \in Process : q # p =>
            pc'[q] = pc[q] /\ job'[q] = job[q] /\ request'[q] = request[q]
  BY <1>1, <1>3, LocalTypes, JobVocabulary DEF Client
<1>7. QED
  BY <1>1, <1>3, <1>5, <1>6, StoreStepKeepsInv

LEMMA StampConsumeKeepsInv ==
    ASSUME CoordinatorInv, NEW p \in Process, StampConsume(p)
    PROVE  CoordinatorInv'
<1>1. /\ pc[p] = "consuming" /\ Store!Stamp(p) /\ p \in Client
      /\ pc' = pc /\ job' = job
      /\ UNCHANGED <<ledgerVars, job, intents, sent, audit>>
  BY DEF StampConsume, localVars, Client
<1>2. /\ Store!ApprovalInv' /\ SpentStay
      /\ \A d \in Client : d # p => request'[d] = request[d]
      /\ request'[p].ticket_id = request[p].ticket_id
      /\ request'[p].status = request[p].status
      /\ request'[p].read = request[p].read
  BY <1>1, InvariantParts, StoreStamp
<1>3. /\ request[p].ticket_id = job[p].ticket
      /\ request[p].status = "consumed"
      /\ request[p].read.revision = ReservedRevision(p)
  BY <1>1, InvariantParts DEF TransactionsFollow
<1>4. ExecutionInv(p)'
  BY <1>1, <1>2, <1>3, ConsumingFollows
<1>5. /\ pc' \in [Process -> Places] /\ job' \in [Process -> Job]
      /\ \A q \in Process : q # p =>
            pc'[q] = pc[q] /\ job'[q] = job[q] /\ request'[q] = request[q]
  BY <1>1, <1>2, LocalTypes DEF Client
<1>6. QED
  BY <1>1, <1>2, <1>4, <1>5, StoreStepKeepsInv

(* The approval is spent at the revision the row of p is bound to. *)
LEMMA CommitConsumeKeepsInv ==
    ASSUME CoordinatorInv, NEW p \in Process, CommitConsume(p)
    PROVE  CoordinatorInv'
<1>1. /\ pc[p] = "consuming" /\ Store!Commit(p) /\ p \in Client
      /\ pc' = [pc EXCEPT ![p] = "mark"] /\ pc'[p] = "mark" /\ job' = job
      /\ UNCHANGED <<rows, call, now, ledgerVars, job, intents, sent, audit>>
  BY LocalTypes DEF CommitConsume, Goto, Client, ledgerVars
<1>2. /\ RowFollows(p) /\ TransactionsFollow(p) /\ TrailFollows(p)
  BY InvariantParts
<1>3. /\ request[p].ticket_id = job[p].ticket
      /\ request[p].status = "consumed"
      /\ request[p].read.revision = RowOf(p).ticket_revision
      /\ RowOf(p).ticket_id = job[p].ticket
  BY <1>1, <1>2, JobVocabulary DEF TransactionsFollow, ReservedRevision, RowFollows
<1>4. /\ Store!ApprovalInv' /\ SpentStay
      /\ \A d \in Client : d # p => request'[d] = request[d]
      /\ request'[p] = Store!NoRequest
      /\ tickets'[job[p].ticket].status = "consumed"
      /\ tickets'[job[p].ticket].revision = RowOf(p).ticket_revision + 1
  BY <1>1, <1>3, InvariantParts, StoreCommit
<1>5. RowFollows(p)'
  BY <1>1, <1>2, JobVocabulary DEF RowFollows, RowOf
<1>6. TransactionsFollow(p)'
  BY <1>1, <1>2, <1>4
  DEF TransactionsFollow, Ledger!Idle, Store!Waiting, Store!NoRequest
<1>7. EffectsFollow(p)'
  BY <1>1, <1>3, <1>4 DEF EffectsFollow, Paid, RowOf
<1>8. TrailFollows(p)'
  BY <1>1, <1>2, JobVocabulary DEF TrailFollows, HasAudited
<1>9. /\ pc' \in [Process -> Places] /\ job' \in [Process -> Job]
      /\ \A q \in Process : q # p =>
            pc'[q] = pc[q] /\ job'[q] = job[q] /\ request'[q] = request[q]
  BY <1>1, <1>4, LocalTypes, JobVocabulary DEF Client
<1>10. QED
  BY <1>1, <1>4, <1>5, <1>6, <1>7, <1>8, <1>9, StoreStepKeepsInv DEF ExecutionInv

LEMMA CommitConsumeFailsKeepsInv ==
    ASSUME CoordinatorInv, NEW p \in Process, CommitConsumeFails(p)
    PROVE  CoordinatorInv'
<1>1. /\ pc[p] = "consuming" /\ p \in Client
      /\ request' = [request EXCEPT ![p] = Store!NoRequest]
      /\ UNCHANGED <<tickets, events, nonces, clock>>
      /\ pc' = [pc EXCEPT ![p] = "idle"] /\ job' = [job EXCEPT ![p] = NoJob]
      /\ pc'[p] = "idle" /\ job'[p] = NoJob
      /\ UNCHANGED <<ledgerVars, intents, sent, audit>>
  BY LocalTypes DEF CommitConsumeFails, Store!Abandon, Return, Goto, Client
<1>2. /\ Store!ApprovalInv' /\ SpentStay /\ ~Store!Waiting(p)'
      /\ \A d \in Client : d # p => request'[d] = request[d]
  BY <1>1, InvariantParts, StoreDrop
<1>3. Ledger!Idle(p)'
  BY <1>1, InvariantParts DEF TransactionsFollow, Ledger!Idle, ledgerVars
<1>4. ExecutionInv(p)'
  BY <1>1, <1>2, <1>3, OverIsSound
<1>5. /\ pc' \in [Process -> Places] /\ job' \in [Process -> Job]
      /\ \A q \in Process : q # p =>
            pc'[q] = pc[q] /\ job'[q] = job[q] /\ request'[q] = request[q]
  BY <1>1, <1>2, LocalTypes, JobVocabulary DEF Client
<1>6. QED
  BY <1>1, <1>2, <1>4, <1>5, StoreStepKeepsInv

(* What nobody's execution is behind: a ticket runs out of time, the       *)
(* operator moves one, time passes.                                        *)
LEMMA OutsideKeepsInv ==
    ASSUME CoordinatorInv, Store!ApprovalInv', SpentStay,
           \A q \in Process : request'[q] = request[q],
           UNCHANGED <<ledgerVars, localVars, sent, audit>>
    PROVE  CoordinatorInv'
<1>1. Operator \notin Process
  BY OperatorAssumption
<1>2. /\ pc' = pc /\ job' = job /\ intents' = intents
      /\ pc' \in [Process -> Places] /\ job' \in [Process -> Job]
  BY InvariantParts DEF localVars, LocalTypeOK
<1>3. QED
  BY <1>1, <1>2, StoreStepKeepsInv

LEMMA ExpireOnReadKeepsInv ==
    ASSUME CoordinatorInv, NEW p \in Process, ExpireOnRead(p)
    PROVE  CoordinatorInv'
<1>1. job[p].ticket \in Ticket
  BY InvariantParts, JobVocabulary DEF ExpireOnRead, RowFollows
<1>2. Store!ApprovalInv' /\ SpentStay /\ request' = request
  BY <1>1, InvariantParts, StoreExpiry DEF ExpireOnRead
<1>3. QED
  BY <1>2, OutsideKeepsInv DEF ExpireOnRead

LEMMA EnvironmentKeepsInv ==
    ASSUME CoordinatorInv, Environment
    PROVE  CoordinatorInv'
<1>1. /\ Operator \in Client /\ Store!ApprovalInv
      /\ \A q \in Process : q \in Client /\ q # Operator
  BY OperatorAssumption, InvariantParts DEF Client
<1>2. Store!ApprovalInv' /\ SpentStay /\ \A q \in Process : request'[q] = request[q]
  <2>1. CASE \E t \in Ticket : Store!Revoke(Operator, t)
    BY <1>1, <2>1, StoreGate DEF Store!Revoke
  <2>2. CASE \E t \in Ticket : Store!RecordDueExpiry(t)
    BY <1>1, <2>2, StoreExpiry
  <2>3. CASE Store!Stamp(Operator)
    BY <1>1, <2>3, StoreStamp
  <2>4. CASE Store!Commit(Operator)
    BY <1>1, <2>4, StoreCommit
  <2>5. CASE Store!Abandon(Operator)
    BY <1>1, <2>5, StoreDrop DEF Store!Abandon
  <2>6. CASE Store!Tick
    BY <1>1, <2>6, StoreTick
  <2>7. QED
    BY <2>1, <2>2, <2>3, <2>4, <2>5, <2>6 DEF Environment
<1>3. QED
  BY <1>2, OutsideKeepsInv DEF Environment

(* A process stops at any point: both transactions it held are gone. *)
LEMMA CrashKeepsInv ==
    ASSUME CoordinatorInv, NEW p \in Process, Crash(p)
    PROVE  CoordinatorInv'
<1>1. /\ pc' = [pc EXCEPT ![p] = "dead"] /\ pc'[p] = "dead"
      /\ job' = [job EXCEPT ![p] = NoJob] /\ job'[p] = NoJob
      /\ call' = [call EXCEPT ![p] = Ledger!NoCall]
      /\ request' = [request EXCEPT ![p] = Store!NoRequest]
      /\ UNCHANGED <<rows, now, tickets, events, nonces, clock, intents, sent, audit>>
      /\ p \in Client
  BY LocalTypes DEF Crash, Goto, Client
<1>2. /\ Ledger!LedgerInv' /\ Ledger!Idle(p)'
      /\ \A q \in Process : q # p => call'[q] = call[q]
  BY <1>1, InvariantParts, LedgerDrop
<1>3. /\ Store!ApprovalInv' /\ SpentStay /\ ~Store!Waiting(p)'
      /\ \A d \in Client : d # p => request'[d] = request[d]
  BY <1>1, InvariantParts, StoreDrop
<1>4. ExecutionInv(p)'
  BY <1>1, <1>2, <1>3, OverIsSound
<1>5. LocalTypeOK'
  BY <1>1, InvariantParts, JobVocabulary DEF LocalTypeOK
<1>6. OnlyFor(p)
  BY <1>1, <1>2, <1>3, LocalTypes DEF OnlyFor, Client
<1>7. /\ ClaimsArePaid' /\ RequestsFollowClaims'
      /\ SettlementIsAudited' /\ PostIsCorroborated'
  BY <1>1, <1>3, TablesRest
<1>8. QED
  BY <1>2, <1>3, <1>4, <1>5, <1>6, <1>7, PartsMakeTheInvariant
-----------------------------------------------------------------------------
(* Together. *)

(* A granted ticket of the initial state has its history. *)
LEMMA GrantedTicketsAreSound == CoordinatorInit => Store!ApprovalInv
<1> SUFFICES ASSUME CoordinatorInit PROVE SP!ApprovalInv
  BY StoreInvariants
<1>1. /\ tickets = [t \in Ticket |-> Granted]
      /\ events = [ticket_id : Ticket, revision : {0}, status : {"pending"}]
                  \cup [ticket_id : Ticket, revision : {1}, status : {"granted"}]
      /\ nonces = {}
      /\ request = [c \in Process \cup {Operator} |-> Store!NoRequest]
      /\ clock = 1
  BY DEF CoordinatorInit
<1>2. /\ Granted \in SP!TicketRow
      /\ Granted.status = "granted" /\ Granted.revision = 1
      /\ Granted.decided_at = 1 /\ Granted.execution_deadline = 1 + ExecutionTTL
      /\ Granted.nonce = "none"
  BY BoundsAssumption DEF Granted, SP!TicketRow, SP!Statuses
<1>3. Store!NoRequest \in SP!Request /\ Store!NoRequest.ticket_id = "none"
  BY DEF Store!NoRequest, Store!Absent, SP!Request, SP!TicketRow, SP!Statuses
<1>4. SP!ApprovalTypeOK
  <2>1. events \subseteq SP!Event
    BY <1>1 DEF SP!Event, SP!Statuses
  <2>2. QED
    BY <1>1, <1>2, <1>3, <2>1 DEF SP!ApprovalTypeOK
<1>5. SP!UndecidedIsBlank
  BY <1>1, <1>2 DEF SP!UndecidedIsBlank, SP!Issued
<1>6. SP!RequestsAreGated
  BY <1>1, <1>3 DEF SP!RequestsAreGated, SP!Waiting
<1>7. SP!HistoryIsComplete
  <2>1. ASSUME NEW t \in Ticket
        PROVE  LET history == {e \in events : e.ticket_id = t}
               IN  /\ \A d, e \in history : d.revision = e.revision => d = e
                   /\ {e.revision : e \in history} = 0 .. tickets[t].revision
                   /\ \A e \in history : e.revision = tickets[t].revision =>
                         e.status = tickets[t].status
    <3> DEFINE pending == [ticket_id |-> t, revision |-> 0, status |-> "pending"]
               granted == [ticket_id |-> t, revision |-> 1, status |-> "granted"]
    <3>1. {e \in events : e.ticket_id = t} = {pending, granted}
      BY <1>1
    <3>2. {e.revision : e \in {pending, granted}} = {0, 1}
      OBVIOUS
    <3>3. tickets[t].revision = 1 /\ tickets[t].status = "granted"
      BY <1>1, <1>2
    <3>4. 0 .. 1 = {0, 1}
      OBVIOUS
    <3>5. QED
      BY <3>1, <3>2, <3>3, <3>4
  <2>2. \A t \in Ticket : SP!Issued(t)
    BY <1>1, <1>2 DEF SP!Issued
  <2>3. QED
    BY <2>1, <2>2 DEF SP!HistoryIsComplete
<1>8. SP!NonceBindsGrant
  <2>1. {u \in Ticket : tickets[u].nonce # "none"} = {}
    BY <1>1, <1>2
  <2>2. QED
    BY <1>1, <2>1 DEF SP!NonceBindsGrant
<1>9. SP!WindowIsBounded
  BY <1>1, <1>2, BoundsAssumption DEF SP!WindowIsBounded
<1>10. QED
  BY <1>4, <1>5, <1>6, <1>7, <1>8, <1>9 DEF SP!ApprovalInv

LEMMA InitCoordinatorInv == CoordinatorInit => CoordinatorInv
<1> SUFFICES ASSUME CoordinatorInit PROVE CoordinatorInv
  OBVIOUS
<1>1. /\ rows = << >> /\ call = [c \in Process |-> Ledger!NoCall] /\ now = 0
      /\ request = [c \in Process \cup {Operator} |-> Store!NoRequest]
      /\ pc = [p \in Process |-> "idle"] /\ job = [p \in Process |-> NoJob]
      /\ intents = [p \in Process |-> {}] /\ sent = << >> /\ audit = {}
  BY DEF CoordinatorInit, Ledger!Init
<1>2. Ledger!LedgerInv
  <2>1. LP!Init
    BY <1>1 DEF LP!Init, LP!NoCall, Ledger!NoCall, LP!None, Ledger!None
  <2>2. QED
    BY <2>1, LP!InitLedgerInv, LedgerInvariants, AuthoritiesAreInstantiated
<1>3. Store!ApprovalInv
  BY GrantedTicketsAreSound
<1>4. CoordinatorTypeOK
  BY <1>1, <1>2, <1>3, JobVocabulary
  DEF CoordinatorTypeOK, Ledger!LedgerInv, Store!ApprovalInv
<1>5. ASSUME NEW p \in Process PROVE ExecutionInv(p)
  BY <1>1, JobVocabulary
  DEF ExecutionInv, RowFollows, TransactionsFollow, EffectsFollow, TrailFollows,
      Ledger!Idle, Ledger!NoCall, Store!Waiting, Store!NoRequest
<1>6. /\ ClaimsArePaid /\ RequestsFollowClaims
      /\ SettlementIsAudited /\ PostIsCorroborated
  BY <1>1
  DEF ClaimsArePaid, RequestsFollowClaims, SettlementIsAudited, PostIsCorroborated
<1>7. QED
  BY <1>2, <1>3, <1>4, <1>5, <1>6 DEF CoordinatorInv

LEMMA CoordinatorStepKeepsInv ==
    CoordinatorInv /\ [CoordinatorNext]_coordinatorVars => CoordinatorInv'
<1> SUFFICES ASSUME CoordinatorInv, [CoordinatorNext]_coordinatorVars
             PROVE  CoordinatorInv'
  OBVIOUS
<1>1. ASSUME NEW p \in Process, (\E t \in Ticket : Begin(p, t)) \/ Crash(p)
      PROVE  CoordinatorInv'
  BY <1>1, BeginKeepsInv, CrashKeepsInv
<1>2. ASSUME NEW p \in Process, Step(p)
      PROVE  CoordinatorInv'
  BY <1>2, WritePreKeepsInv, CaptureRevisionKeepsInv, ExpireOnReadKeepsInv,
     ReserveKeepsInv, RefusalKeepsInv, ConsumeKeepsInv, StampConsumeKeepsInv,
     CommitConsumeKeepsInv, CommitConsumeFailsKeepsInv, MarkKeepsInv,
     CommitMarkKeepsInv, MarkFailsKeepsInv, HandleWithoutSendingKeepsInv,
     SendKeepsInv, AnswerKeepsInv, WriteAttemptKeepsInv, WriteResultKeepsInv,
     RecordKeepsInv, CommitRecordKeepsInv, RecordFailsKeepsInv, WritePostKeepsInv
  DEF Step
<1>3. CASE UNCHANGED coordinatorVars
  BY <1>3, InvariantParts, StoreRests, OutsideKeepsInv DEF coordinatorVars
<1>4. QED
  BY <1>1, <1>2, <1>3, EnvironmentKeepsInv DEF CoordinatorNext

(* What the place of every execution says about the ledger, the approvals, *)
(* the requests that left and the audit trail is so, through every         *)
(* interleaving, crash and failed write.                                   *)
THEOREM CoordinatorInvariant == CoordinatorSpec => []CoordinatorInv
BY InitCoordinatorInv, CoordinatorStepKeepsInv, PTL DEF CoordinatorSpec

(* The tables of both authorities, the locals of every execution, the      *)
(* requests and the audit trail keep their types.                          *)
THEOREM CoordinatorTypeCorrect == CoordinatorSpec => []CoordinatorTypeOK
<1>1. CoordinatorInv => CoordinatorTypeOK
  BY DEF CoordinatorInv
<1>2. QED
  BY <1>1, CoordinatorInvariant, PTL

(* A second request for an intent leaves only after the ledger holds a     *)
(* retryable record of the first, and, if the provider carried the first   *)
(* out, one that says its post-state was observed not to be reached.       *)
THEOREM AmbiguousEffectsAreNeverRepeated ==
    CoordinatorSpec => []AmbiguityIsNeverRepeated
<1>1. CoordinatorInv => AmbiguityIsNeverRepeated
  <2> SUFFICES ASSUME CoordinatorInv, NEW m \in DOMAIN sent, NEW n \in DOMAIN sent,
                      m < n, SentFor(m).intent_key = SentFor(n).intent_key
               PROVE  /\ Ledger!PermitsReexecution(SentFor(m))
                      /\ sent[m].acted =>
                            SentFor(m).reexecution_class = "post_state_not_reached"
    BY DEF AmbiguityIsNeverRepeated
  <2>1. /\ sent[m].row \in DOMAIN rows /\ sent[n].row \in DOMAIN rows
        /\ sent[m].row < sent[n].row
        /\ sent[m].acted =>
              SentFor(m).reexecution_class \in EffectClasses \cup {Ledger!None}
    BY InvariantParts DEF RequestsFollowClaims
  <2>2. ~Ledger!Blocks(SentFor(m))
    BY <2>1, InvariantParts
    DEF Ledger!LedgerInv, Ledger!OnlyTheLastBlocks, Ledger!RowsOf, SentFor
  <2>3. SentFor(m).state \in {"reserved", "attempted", "resolved", "unresolved"}
    BY <2>1, InvariantParts, LedgerTable DEF SentFor
  <2>4. Ledger!PermitsReexecution(SentFor(m))
    BY <2>2, <2>3
    DEF Ledger!Blocks, Ledger!PermitsReexecution, Ledger!OpenStates
  <2>5. QED
    BY <2>1, <2>4
    DEF Ledger!PermitsReexecution, Ledger!RetryableClasses, EffectClasses, Ledger!None
<1>2. QED
  BY <1>1, CoordinatorInvariant, PTL

(* Every request that leaves belongs to a marked claim whose approval is   *)
(* spent at the revision the claim captured, and no two requests share an  *)
(* approval.                                                               *)
THEOREM EveryDispatchIsAuthorized == CoordinatorSpec => []DispatchIsAuthorized
<1>1. CoordinatorInv => DispatchIsAuthorized
  <2> SUFFICES ASSUME CoordinatorInv, NEW n \in DOMAIN sent
               PROVE  /\ SentFor(n).state # "reserved"
                      /\ Paid(SentFor(n))
                      /\ \A m \in DOMAIN sent :
                            SentFor(m).ticket_id = SentFor(n).ticket_id => m = n
    BY DEF DispatchIsAuthorized, Paid
  <2>1. SentFor(n).state # "reserved" /\ Paid(SentFor(n))
    BY InvariantParts DEF RequestsFollowClaims, ClaimsArePaid, SentFor
  <2>2. ASSUME NEW m \in DOMAIN sent, SentFor(m).ticket_id = SentFor(n).ticket_id
        PROVE  m = n
    <3>1. sent[m].row = sent[n].row
      BY <2>2, InvariantParts
      DEF RequestsFollowClaims, ClaimsArePaid, SentFor, Ledger!LedgerInv,
          Ledger!OneRowPerPair
    <3>2. m \in Nat /\ n \in Nat
      BY InvariantParts, LenProperties DEF LocalTypeOK
    <3>3. QED
      BY <3>1, <3>2, InvariantParts DEF RequestsFollowClaims
  <2>3. QED
    BY <2>1, <2>2
<1>2. QED
  BY <1>1, CoordinatorInvariant, PTL

(* The ledger settles nothing whose PRE, ATTEMPT and RESULT records are    *)
(* not in the audit trail.                                                 *)
THEOREM SettlementsAreAudited == CoordinatorSpec => []SettlementIsAudited
<1>1. CoordinatorInv => SettlementIsAudited
  BY DEF CoordinatorInv
<1>2. QED
  BY <1>1, CoordinatorInvariant, PTL

(* A POST record never reports an outcome that the ledger has not settled. *)
THEOREM ReportsAreCorroborated == CoordinatorSpec => []PostIsCorroborated
<1>1. CoordinatorInv => PostIsCorroborated
  BY DEF CoordinatorInv
<1>2. QED
  BY <1>1, CoordinatorInvariant, PTL
-----------------------------------------------------------------------------
(* The coordinator uses the ledger through its operations only, so that    *)
(* what is proved of the ledger holds of the ledger it runs on.            *)

(* A process without a transaction of the ledger holds nothing of one. *)
IdleHoldsNothing ==
    \A p \in Process : Ledger!Idle(p) => call[p] = Ledger!NoCall

LEMMA DropIsAnAbandon ==
    ASSUME CoordinatorInv, IdleHoldsNothing, NEW p \in Process,
           call' = [call EXCEPT ![p] = Ledger!NoCall], UNCHANGED <<rows, now>>
    PROVE  [Ledger!Next]_(Ledger!vars)
<1>1. CASE Ledger!Idle(p)
  <2>1. call \in [Process -> Ledger!Call]
    BY InvariantParts DEF Ledger!LedgerInv, Ledger!TypeOK
  <2>2. call' = call
    BY <1>1, <2>1 DEF IdleHoldsNothing
  <2>3. QED
    BY <2>2 DEF Ledger!vars
<1>2. CASE ~Ledger!Idle(p)
  BY <1>2 DEF Ledger!Next, Ledger!Operation, Ledger!Abandon
<1>3. QED
  BY <1>1, <1>2

LEMMA StepIsALedgerStep ==
    ASSUME CoordinatorInv, IdleHoldsNothing, [CoordinatorNext]_coordinatorVars
    PROVE  [Ledger!Next]_(Ledger!vars)
<1>1. ASSUME NEW p \in Process, Reserve(p)
      PROVE  Ledger!Next
  <2>1. /\ job[p].ticket \in Ticket /\ job[p].revision \in Nat
        /\ IntentOf[job[p].ticket] \in Intent
    BY <1>1, InvariantParts, LocalTypes, JobVocabulary, IntentOfAssumption
    DEF Reserve, RowFollows, Job
  <2>2. QED
    BY <1>1, <2>1 DEF Reserve, Ledger!Next, Ledger!Operation
<1>2. ASSUME NEW p \in Process, Mark(p) \/ Record(p)
      PROVE  Ledger!Next
  <2>1. /\ job[p].row \in DOMAIN rows
        /\ job[p].verdict.outcome \in Ledger!Outcomes
        /\ job[p].verdict.class \in Ledger!Classes
    BY <1>2, InvariantParts, LocalTypes, JobVocabulary DEF Mark, Record, RowFollows, Job
  <2>2. QED
    BY <1>2, <2>1 DEF Mark, Record, Ledger!Next, Ledger!Operation, Ledger!Outcomes
<1>3. ASSUME NEW p \in Process, CommitMark(p) \/ CommitRecord(p)
      PROVE  Ledger!Next
  BY <1>3 DEF CommitMark, CommitRecord, Ledger!Next, Ledger!Operation
<1>4. ASSUME NEW p \in Process, MarkFails(p) \/ RecordFails(p) \/ Crash(p)
      PROVE  [Ledger!Next]_(Ledger!vars)
  <2>1. UNCHANGED <<rows, now>>
    BY <1>4 DEF MarkFails, RecordFails, Crash
  <2>2. UNCHANGED call \/ call' = [call EXCEPT ![p] = Ledger!NoCall]
    BY <1>4 DEF MarkFails, RecordFails, Crash
  <2>3. QED
    BY <2>1, <2>2, DropIsAnAbandon DEF Ledger!vars
<1>5. ASSUME NEW p \in Process,
             \/ \E t \in Ticket : Begin(p, t)
             \/ WritePre(p) \/ CaptureRevision(p) \/ ExpireOnRead(p)
             \/ ReserveRefused(p) \/ Consume(p) \/ ConsumeRefused(p)
             \/ StampConsume(p) \/ CommitConsume(p) \/ CommitConsumeFails(p)
             \/ HandleWithoutSending(p) \/ Send(p) \/ Answer(p)
             \/ WriteAttempt(p) \/ WriteResult(p) \/ WritePost(p)
      PROVE  UNCHANGED ledgerVars
  BY <1>5
  DEF Begin, WritePre, Audit, CaptureRevision, ExpireOnRead, ReserveRefused,
      Consume, ConsumeRefused, StampConsume, CommitConsume, CommitConsumeFails,
      HandleWithoutSending, Send, Answer, WriteAttempt, WriteResult, WritePost
<1>6. CASE Environment \/ UNCHANGED coordinatorVars
  BY <1>6 DEF Environment, coordinatorVars, ledgerVars, Ledger!vars
<1>7. UNCHANGED ledgerVars => UNCHANGED Ledger!vars
  BY DEF ledgerVars, Ledger!vars
<1>8. QED
  BY <1>1, <1>2, <1>3, <1>4, <1>5, <1>6, <1>7 DEF CoordinatorNext, Step

LEMMA LedgerStepKeepsIdle ==
    ASSUME CoordinatorInv, IdleHoldsNothing, [Ledger!Next]_(Ledger!vars)
    PROVE  IdleHoldsNothing'
<1>1. /\ call \in [Process -> Ledger!Call] /\ 0 \notin DOMAIN rows
  BY InvariantParts, LedgerTable DEF Ledger!LedgerInv, Ledger!TypeOK
<1>2. CASE call' = call
  BY <1>2 DEF IdleHoldsNothing, Ledger!Idle
<1>3. ASSUME NEW p \in Process, call' = [call EXCEPT ![p] = Ledger!NoCall]
      PROVE  IdleHoldsNothing'
  BY <1>1, <1>3 DEF IdleHoldsNothing, Ledger!Idle
<1>4. ASSUME NEW p \in Process, NEW n, NEW s, NEW o, NEW k,
             Ledger!Gate(p, n, s, o, k)
      PROVE  IdleHoldsNothing'
  BY <1>1, <1>4 DEF IdleHoldsNothing, Ledger!Idle, Ledger!Gate
<1>5. ASSUME NEW p \in Process, Ledger!Operation(p)
      PROVE  IdleHoldsNothing'
  BY <1>2, <1>3, <1>4, <1>5
  DEF Ledger!Operation, Ledger!Reserve, Ledger!MarkAttempted,
      Ledger!RecordOutcome, Ledger!Commit, Ledger!Abandon
<1>6. QED
  BY <1>2, <1>5 DEF Ledger!Next, Ledger!StepClockBack, Ledger!vars

(* Whatever the executions do, crash or fail to write, the ledger under    *)
(* them takes the steps of its own specification, and no others.           *)
THEOREM CoordinatorRespectsTheLedger == CoordinatorSpec => Ledger!Spec
<1>1. CoordinatorInit => Ledger!Init /\ IdleHoldsNothing
  BY DEF CoordinatorInit, Ledger!Init, IdleHoldsNothing
<1>2. CoordinatorInv /\ IdleHoldsNothing /\ [CoordinatorNext]_coordinatorVars
        => IdleHoldsNothing' /\ [Ledger!Next]_(Ledger!vars)
  BY StepIsALedgerStep, LedgerStepKeepsIdle
<1>3. QED
  BY <1>1, <1>2, CoordinatorInvariant, PTL DEF CoordinatorSpec, Ledger!Spec

LEMMA LedgerSpecification == Ledger!Spec => LP!Spec
<1>1. Ledger!Init => LP!Init
  BY DEF Ledger!Init, LP!Init, Ledger!NoCall, LP!NoCall, Ledger!None, LP!None
<1>2. [Ledger!Next]_(Ledger!vars) => [LP!Next]_(LP!vars)
  BY Zenon
  DEF Ledger!Next, LP!Next, Ledger!vars, LP!vars, Ledger!Operation, LP!Operation,
      Ledger!Reserve, LP!Reserve, Ledger!Idle, LP!Idle, Ledger!Pair, LP!Pair,
      Ledger!BlockingPriors, LP!BlockingPriors, Ledger!RowsOf, LP!RowsOf,
      Ledger!Blocks, LP!Blocks, Ledger!Predecessors, LP!Predecessors,
      Ledger!NewestReattemptable, LP!NewestReattemptable,
      Ledger!ReattemptablePriors, LP!ReattemptablePriors,
      Ledger!PermitsReexecution, LP!PermitsReexecution,
      Ledger!OpenStates, LP!OpenStates, Ledger!Classes, LP!Classes,
      Ledger!RetryableClasses, LP!RetryableClasses, Ledger!None, LP!None,
      Ledger!MarkAttempted, LP!MarkAttempted, Ledger!Gate, LP!Gate,
      Ledger!LegalTransitions, LP!LegalTransitions,
      Ledger!RecordOutcome, LP!RecordOutcome,
      Ledger!LegalClasses, LP!LegalClasses, Ledger!Commit, LP!Commit,
      Ledger!Matches, LP!Matches, Ledger!Updated, LP!Updated,
      Ledger!NoCall, LP!NoCall, Ledger!Abandon, LP!Abandon,
      Ledger!StepClockBack, LP!StepClockBack
<1>3. QED
  BY <1>1, <1>2, PTL DEF Ledger!Spec, LP!Spec

(* However many processes compete, crash and come back: an execution       *)
(* acquires the licence of its intent, and gives it back or spends it.     *)
THEOREM ExecutionsHoldTheLicense == CoordinatorSpec => Ledger!LicenseSpec
<1>1. LP!Spec => LP!LicenseSpec
  BY LP!LedgerImplementsLicense, AuthoritiesAreInstantiated
<1>2. LP!License!LicenseInit => Ledger!License!LicenseInit
  BY Zenon
  DEF LP!License!LicenseInit, Ledger!License!LicenseInit, LP!Holder, Ledger!Holder,
      LP!BlockingPriors, Ledger!BlockingPriors, LP!RowsOf, Ledger!RowsOf,
      LP!Blocks, Ledger!Blocks, LP!OpenStates, Ledger!OpenStates,
      LP!RetryableClasses, Ledger!RetryableClasses
<1>3. [LP!License!LicenseNext]_(LP!License!licenseVars)
        => [Ledger!License!LicenseNext]_(Ledger!License!licenseVars)
  BY Zenon
  DEF LP!License!LicenseNext, Ledger!License!LicenseNext,
      LP!License!licenseVars, Ledger!License!licenseVars,
      LP!License!Acquire, Ledger!License!Acquire,
      LP!License!GiveBack, Ledger!License!GiveBack,
      LP!License!Spend, Ledger!License!Spend, LP!Holder, Ledger!Holder,
      LP!BlockingPriors, Ledger!BlockingPriors, LP!RowsOf, Ledger!RowsOf,
      LP!Blocks, Ledger!Blocks, LP!OpenStates, Ledger!OpenStates,
      LP!RetryableClasses, Ledger!RetryableClasses
<1>4. LP!LicenseSpec => Ledger!LicenseSpec
  BY <1>2, <1>3, PTL
  DEF LP!LicenseSpec, Ledger!LicenseSpec, LP!License!LicenseSpec,
      Ledger!License!LicenseSpec
<1>5. QED
  BY <1>1, <1>4, CoordinatorRespectsTheLedger, LedgerSpecification, PTL

(* A claim that settled is never written again, by whichever execution. *)
THEOREM SettledClaimsStay == CoordinatorSpec => Ledger!SettledIsFinal
<1>1. LP!Spec => LP!SettledIsFinal
  BY LP!SettledRowsAreFinal, AuthoritiesAreInstantiated
<1>2. QED
  BY <1>1, CoordinatorRespectsTheLedger, LedgerSpecification, PTL
  DEF LP!SettledIsFinal, Ledger!SettledIsFinal, LP!TerminalStates,
      Ledger!TerminalStates

-----------------------------------------------------------------------------
(* So it is with the approval store, which has its tickets before the      *)
(* first execution begins. *)

(* A client without a transition of the store holds nothing of one. *)
QuietHoldsNothing ==
    \A c \in Client : ~Store!Waiting(c) => request[c] = Store!NoRequest

LEMMA DropIsARefusal ==
    ASSUME CoordinatorInv, QuietHoldsNothing, NEW p \in Process,
           request' = [request EXCEPT ![p] = Store!NoRequest],
           UNCHANGED <<tickets, events, nonces, clock>>
    PROVE  [Store!ApprovalNext]_(Store!approvalVars)
<1>1. p \in Client
  BY DEF Client
<1>2. CASE ~Store!Waiting(p)
  <2>1. request \in [Client -> Store!Request]
    BY InvariantParts DEF Store!ApprovalInv, Store!ApprovalTypeOK, Client
  <2>2. request' = request
    BY <1>1, <1>2, <2>1 DEF QuietHoldsNothing
  <2>3. QED
    BY <2>2 DEF Store!approvalVars
<1>3. CASE Store!Waiting(p)
  BY <1>1, <1>3 DEF Store!ApprovalNext, Store!Abandon, Client
<1>4. QED
  BY <1>2, <1>3

LEMMA StepIsAStoreStep ==
    ASSUME CoordinatorInv, QuietHoldsNothing, [CoordinatorNext]_coordinatorVars
    PROVE  [Store!ApprovalNext]_(Store!approvalVars)
<1>1. ASSUME NEW p \in Process, ExpireOnRead(p)
      PROVE  Store!ApprovalNext
  <2>1. job[p].ticket \in Ticket
    BY <1>1, InvariantParts, LocalTypes, JobVocabulary, GrantAssumption
    DEF ExpireOnRead, RowFollows, Job
  <2>2. QED
    BY <1>1, <2>1 DEF ExpireOnRead, Store!ApprovalNext
<1>2. ASSUME NEW p \in Process, Consume(p)
      PROVE  Store!ApprovalNext
  <2>1. job[p].ticket \in Ticket
    BY <1>2, InvariantParts, LocalTypes, JobVocabulary, GrantAssumption
    DEF Consume, RowFollows, Job
  <2>2. Store!Consume(p, job[p].ticket, tickets[job[p].ticket].revision)
    BY <1>2 DEF Consume, Store!Consume
  <2>3. QED
    BY <2>1, <2>2 DEF Store!ApprovalNext, Store!Transition
<1>3. ASSUME NEW p \in Process,
             StampConsume(p) \/ CommitConsume(p) \/ CommitConsumeFails(p)
      PROVE  Store!ApprovalNext
  BY <1>3
  DEF StampConsume, CommitConsume, CommitConsumeFails, Store!ApprovalNext
<1>4. ASSUME NEW p \in Process, Crash(p)
      PROVE  [Store!ApprovalNext]_(Store!approvalVars)
  BY <1>4, DropIsARefusal DEF Crash
<1>5. ASSUME NEW p \in Process,
             \/ \E t \in Ticket : Begin(p, t)
             \/ WritePre(p) \/ CaptureRevision(p) \/ Reserve(p)
             \/ ReserveRefused(p) \/ ConsumeRefused(p)
             \/ Mark(p) \/ CommitMark(p) \/ MarkFails(p)
             \/ HandleWithoutSending(p) \/ Send(p) \/ Answer(p)
             \/ WriteAttempt(p) \/ WriteResult(p) \/ WritePost(p)
             \/ Record(p) \/ CommitRecord(p) \/ RecordFails(p)
      PROVE  UNCHANGED storeVars
  BY <1>5
  DEF Begin, WritePre, Audit, CaptureRevision, Reserve, ReserveRefused,
      ConsumeRefused, Mark, CommitMark, MarkFails, HandleWithoutSending, Send,
      Answer, WriteAttempt, WriteResult, WritePost, Record, CommitRecord, RecordFails
<1>6. CASE Environment
  BY <1>6 DEF Environment, Store!ApprovalNext, Store!Transition
<1>7. CASE UNCHANGED coordinatorVars
  BY <1>7 DEF coordinatorVars, storeVars, Store!approvalVars
<1>8. UNCHANGED storeVars => UNCHANGED Store!approvalVars
  BY DEF storeVars, Store!approvalVars
<1>9. QED
  BY <1>1, <1>2, <1>3, <1>4, <1>5, <1>6, <1>7, <1>8 DEF CoordinatorNext, Step

LEMMA StoreStepKeepsQuiet ==
    ASSUME CoordinatorInv, QuietHoldsNothing, [Store!ApprovalNext]_(Store!approvalVars)
    PROVE  QuietHoldsNothing'
<1>1. request \in [Client -> Store!Request]
  BY InvariantParts DEF Store!ApprovalInv, Store!ApprovalTypeOK, Client
<1>2. CASE request' = request
  BY <1>2 DEF QuietHoldsNothing, Store!Waiting
<1>3. ASSUME NEW c \in Client, request' = [request EXCEPT ![c] = Store!NoRequest]
      PROVE  QuietHoldsNothing'
  BY <1>1, <1>3 DEF QuietHoldsNothing, Store!Waiting, Store!NoRequest
<1>4. ASSUME NEW c \in Client, NEW t \in Ticket, NEW s, NEW w, NEW n,
             Store!GateTransition(c, t, s, w, n)
      PROVE  QuietHoldsNothing'
  BY <1>1, <1>4, GrantAssumption DEF QuietHoldsNothing, Store!Waiting, Store!GateTransition
<1>5. ASSUME NEW c \in Client, Store!Stamp(c)
      PROVE  QuietHoldsNothing'
  BY <1>1, <1>5 DEF QuietHoldsNothing, Store!Waiting, Store!Stamp
<1>6. QED
  BY <1>2, <1>3, <1>4, <1>5
  DEF Store!ApprovalNext, Store!approvalVars, Store!CreateTicket, Store!RecordDueExpiry,
      Store!Transition, Store!Grant, Store!GrantSigned, Store!Deny, Store!Expire,
      Store!Revoke, Store!Consume, Store!Commit, Store!Abandon, Store!Tick,
      Store!StepClockBack, Client

(* Whatever the executions do, crash or fail to write, the approval store  *)
(* under them takes the steps of its own specification, and no others.     *)
THEOREM CoordinatorRespectsTheStore == CoordinatorSpec => Store!ResumedSpec
<1>1. CoordinatorInit => QuietHoldsNothing
  BY DEF CoordinatorInit, QuietHoldsNothing, Client
<1>2. CoordinatorInv => Store!ApprovalInv
  BY InvariantParts
<1>3. CoordinatorInv /\ QuietHoldsNothing /\ [CoordinatorNext]_coordinatorVars
        => QuietHoldsNothing' /\ [Store!ApprovalNext]_(Store!approvalVars)
  BY StepIsAStoreStep, StoreStepKeepsQuiet
<1>4. QED
  BY <1>1, <1>2, <1>3, CoordinatorInvariant, PTL DEF CoordinatorSpec, Store!ResumedSpec

LEMMA StoreSpecification == Store!ResumedSpec => SP!ResumedSpec
<1>1. Store!ApprovalInv => SP!ApprovalInv
  BY StoreInvariants
<1>2. [Store!ApprovalNext]_(Store!approvalVars) => [SP!ApprovalNext]_(SP!approvalVars)
  BY Zenon
  DEF Store!ApprovalNext, SP!ApprovalNext, Store!approvalVars, SP!approvalVars,
      Store!CreateTicket, SP!CreateTicket, Store!Issued, SP!Issued,
      Store!Write, SP!Write, Store!WithEvent, SP!WithEvent,
      Store!RecordDueExpiry, SP!RecordDueExpiry, Store!Due, SP!Due,
      Store!Successor, SP!Successor, Store!Transition, SP!Transition,
      Store!GateTransition, SP!GateTransition, Store!Waiting, SP!Waiting,
      Store!LegalApprovalTransitions, SP!LegalApprovalTransitions,
      Store!Grant, SP!Grant, Store!GrantSigned, SP!GrantSigned,
      Store!Deny, SP!Deny, Store!Expire, SP!Expire, Store!Revoke, SP!Revoke,
      Store!Consume, SP!Consume, Store!Stamp, SP!Stamp,
      Store!Admissible, SP!Admissible, Store!Commit, SP!Commit,
      Store!Matches, SP!Matches, Store!FreshNonce, SP!FreshNonce,
      Store!NoncesOf, SP!NoncesOf, Store!Written, SP!Written,
      Store!NoRequest, SP!NoRequest, Store!Absent, SP!Absent,
      Store!Abandon, SP!Abandon, Store!Tick, SP!Tick,
      Store!StepClockBack, SP!StepClockBack
<1>3. QED
  BY <1>1, <1>2, PTL DEF Store!ResumedSpec, SP!ResumedSpec

(* An approval moves along its table only, one revision at a time: of a    *)
(* redemption and a revocation that race, one is refused; and it expires   *)
(* when it is due, or when somebody asks for it.                           *)
THEOREM ApprovalsFollowTheTable == CoordinatorSpec => Store!TicketsFollowTheTable
<1>1. SP!ResumedSpec => SP!TicketsFollowTheTable
  BY SP!ResumedTicketsFollowTheTable, AuthoritiesAreInstantiated
<1>2. QED
  BY <1>1, CoordinatorRespectsTheStore, StoreSpecification, PTL
  DEF SP!TicketsFollowTheTable, Store!TicketsFollowTheTable,
      SP!Issued, Store!Issued, SP!Due, Store!Due,
      SP!LegalApprovalTransitions, Store!LegalApprovalTransitions

(* An execution spends the approval it saw, and saw inside its window,     *)
(* however long it took from that look to its write.                       *)
THEOREM SpendersSawAnOpenWindow == CoordinatorSpec => Store!DecidersSawAnOpenWindow
<1>1. SP!ResumedSpec => SP!DecidersSawAnOpenWindow
  BY SP!ResumedDecidersSawAnOpenWindow, AuthoritiesAreInstantiated
<1>2. QED
  BY <1>1, CoordinatorRespectsTheStore, StoreSpecification, PTL
  DEF SP!DecidersSawAnOpenWindow, Store!DecidersSawAnOpenWindow,
      SP!Decided, Store!Decided, SP!Redeemed, Store!Redeemed

(* Every revision of an approval has its one event, also when executions   *)
(* crash while they spend it.                                              *)
THEOREM ApprovalHistoriesAreComplete == CoordinatorSpec => []Store!HistoryIsComplete
<1>1. CoordinatorInv => Store!HistoryIsComplete
  BY InvariantParts DEF Store!ApprovalInv
<1>2. QED
  BY <1>1, CoordinatorInvariant, PTL
=============================================================================
