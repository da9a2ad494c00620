------------------------ MODULE ApprovalStoreProofs ------------------------
(***************************************************************************)
(* Theorems about ApprovalStore, for any number of tickets, clients and    *)
(* nonces, any windows and any clock.                                      *)
(*                                                                         *)
(* The argument: only three steps write a ticket (a creation, a due expiry *)
(* and a commit), and each of them is a `Move`: the first row of a new     *)
(* ticket, or the successor, along the table, of the very row that is      *)
(* there.  That a commit is one is what the revision it compares gives it. *)
(* The history and what other clients have read depend on nothing but      *)
(* this.                                                                   *)
(***************************************************************************)
EXTENDS ApprovalStore, TLAPS

USE DEF Waiting, Issued

LEMMA StatusVocabulary ==
    /\ Statuses = {"absent", "pending", "granted", "denied", "expired",
                   "consumed", "revoked"}
    /\ LegalApprovalTransitions("pending") =
           {"granted", "denied", "expired", "revoked"}
    /\ LegalApprovalTransitions("granted") = {"consumed", "expired", "revoked"}
    /\ \A s \in Statuses \ {"pending", "granted"} :
           LegalApprovalTransitions(s) = {}
BY DEF Statuses, TerminalStatuses, LegalApprovalTransitions

(* Row k takes the place of ticket t. *)
Move(t, k) ==
    /\ k \in TicketRow
    /\ \/ /\ ~Issued(t)
          /\ k.status = "pending"
          /\ k.revision = 0
          /\ k.decided_at = 0
          /\ k.execution_deadline = 0
          /\ k.nonce = "none"
       \/ /\ k.status \in LegalApprovalTransitions(tickets[t].status)
          /\ k.revision = tickets[t].revision + 1

(* A move to which the table leads never ends undecided. *)
LEMMA LegalMove ==
    ASSUME ApprovalTypeOK, NEW t \in Ticket, NEW s,
           s \in LegalApprovalTransitions(tickets[t].status)
    PROVE  /\ tickets[t] \in TicketRow
           /\ tickets[t].status \in {"pending", "granted"}
           /\ s \in {"granted", "denied", "expired", "consumed", "revoked"}
           /\ s \in Statuses
           /\ s = "granted" => tickets[t].status = "pending"
           /\ s = "consumed" => tickets[t].status = "granted"
<1>1. tickets[t] \in TicketRow /\ tickets[t].status \in Statuses
  BY DEF ApprovalTypeOK, TicketRow
<1>2. QED
  BY <1>1, StatusVocabulary

-----------------------------------------------------------------------------
(* What a move keeps. *)

LEMMA WriteUpdates ==
    ASSUME ApprovalTypeOK, NEW t \in Ticket, NEW k, Write(t, k), Move(t, k)
    PROVE  /\ tickets' \in [Ticket -> TicketRow]
           /\ tickets'[t] = k
           /\ \A u \in Ticket : u # t => tickets'[u] = tickets[u]
           /\ events' = events \cup
                {[ticket_id |-> t, revision |-> k.revision, status |-> k.status]}
           /\ events' \subseteq Event
           /\ k.status # "absent"
<1>1. k \in TicketRow
  BY DEF Move
<1>2. /\ tickets' \in [Ticket -> TicketRow]
      /\ tickets'[t] = k
      /\ \A u \in Ticket : u # t => tickets'[u] = tickets[u]
  BY <1>1 DEF Write, ApprovalTypeOK
<1>3. events' = events \cup
        {[ticket_id |-> t, revision |-> k.revision, status |-> k.status]}
  BY DEF Write, WithEvent
<1>4. [ticket_id |-> t, revision |-> k.revision, status |-> k.status] \in Event
  BY <1>1 DEF TicketRow, Event
<1>5. k.status # "absent"
  BY LegalMove DEF Move
<1>6. QED
  BY <1>2, <1>3, <1>4, <1>5 DEF ApprovalTypeOK

LEMMA MoveKeepsHistory ==
    ASSUME ApprovalTypeOK, HistoryIsComplete, NEW t \in Ticket, NEW k,
           Write(t, k), Move(t, k)
    PROVE  HistoryIsComplete'
<1> DEFINE History(u) == {e \in events : e.ticket_id = u}
           new == [ticket_id |-> t, revision |-> k.revision, status |-> k.status]
<1>1. /\ tickets'[t] = k
      /\ \A u \in Ticket : u # t => tickets'[u] = tickets[u]
      /\ events' = events \cup {new}
      /\ k.status # "absent"
  BY WriteUpdates
<1>2. /\ k.revision \in Nat
      /\ tickets[t].revision \in Nat
      /\ \A e \in events : e.revision \in Nat
  BY DEF Move, ApprovalTypeOK, TicketRow, Event
<1>3. \/ ~Issued(t) /\ k.revision = 0
      \/ Issued(t) /\ k.revision = tickets[t].revision + 1
  BY LegalMove DEF Move
<1>4. \A u \in Ticket :
         /\ \A d, e \in History(u) : d.revision = e.revision => d = e
         /\ {e.revision : e \in History(u)} =
                IF Issued(u) THEN 0 .. tickets[u].revision ELSE {}
         /\ \A e \in History(u) :
                e.revision = tickets[u].revision => e.status = tickets[u].status
  BY DEF HistoryIsComplete
<1>5. \A u \in Ticket : u # t => History(u)' = History(u)
  BY <1>1
<1>6. History(t)' = History(t) \cup {new}
  BY <1>1
<1>7. \A e \in History(t) : e.revision # k.revision
  <2>1. CASE ~Issued(t)
    BY <1>4, <2>1
  <2>2. CASE Issued(t)
    <3>1. {e.revision : e \in History(t)} = 0 .. tickets[t].revision
      BY <1>4, <2>2
    <3>2. \A e \in History(t) : e.revision \in 0 .. tickets[t].revision
      BY <3>1
    <3>3. QED
      BY <1>2, <1>3, <2>2, <3>2
  <2>3. QED
    BY <2>1, <2>2
<1>8. ASSUME NEW u \in Ticket
      PROVE  /\ \A d, e \in History(u)' : d.revision = e.revision => d = e
             /\ {e.revision : e \in History(u)'} =
                    IF tickets'[u].status # "absent"
                    THEN 0 .. tickets'[u].revision ELSE {}
             /\ \A e \in History(u)' :
                    e.revision = tickets'[u].revision =>
                        e.status = tickets'[u].status
  <2>1. CASE u # t
    BY <1>1, <1>4, <1>5, <2>1
  <2>2. CASE u = t
    <3>1. \A d, e \in History(t)' : d.revision = e.revision => d = e
      BY <1>4, <1>6, <1>7
    <3>2. {e.revision : e \in History(t)'} =
             {e.revision : e \in History(t)} \cup {k.revision}
      <4>1. new.revision = k.revision
        OBVIOUS
      <4> HIDE DEF History, new
      <4>2. \A H : {e.revision : e \in H \cup {new}} =
                      {e.revision : e \in H} \cup {new.revision}
        OBVIOUS
      <4>3. QED
        BY <1>6, <4>1, <4>2
    <3>3. {e.revision : e \in History(t)'} = 0 .. k.revision
      BY <1>2, <1>3, <1>4, <3>2
    <3>4. \A e \in History(t)' : e.revision = k.revision => e.status = k.status
      BY <1>6, <1>7
    <3>5. QED
      BY <1>1, <2>2, <3>1, <3>3, <3>4
  <2>3. QED
    BY <2>1, <2>2
<1>9. QED
  BY <1>8 DEF HistoryIsComplete

(* A client whose ticket moves is left behind by a revision; it can no     *)
(* longer match.                                                           *)
LEMMA MoveKeepsReads ==
    ASSUME ApprovalTypeOK, NEW t \in Ticket, NEW k, Write(t, k), Move(t, k),
           NEW r \in Request, r.ticket_id \in Ticket, GatedOn(r)
    PROVE  GatedOn(r)'
<1>1. /\ tickets'[t] = k
      /\ \A u \in Ticket : u # t => tickets'[u] = tickets[u]
      /\ k.status # "absent"
  BY WriteUpdates
<1>2. CASE r.ticket_id # t
  BY <1>1, <1>2 DEF GatedOn, Matches
<1>3. CASE r.ticket_id = t
  <2>1. k.revision = tickets[t].revision + 1
    BY <1>3 DEF Move, GatedOn
  <2>2. r.read.revision <= tickets[t].revision
    BY <1>3 DEF GatedOn
  <2>3. r.read.revision \in Nat /\ tickets[t].revision \in Nat
    BY DEF Request, TicketRow, ApprovalTypeOK
  <2>4. r.read.revision <= k.revision /\ r.read.revision # k.revision
    BY <2>1, <2>2, <2>3
  <2>5. QED
    BY <1>1, <1>3, <2>4 DEF GatedOn, Matches
<1>4. QED
  BY <1>2, <1>3

LEMMA MoveKeepsUndecided ==
    ASSUME ApprovalTypeOK, UndecidedIsBlank, NEW t \in Ticket, NEW k,
           Write(t, k), Move(t, k)
    PROVE  UndecidedIsBlank'
<1>1. /\ tickets'[t] = k
      /\ \A u \in Ticket : u # t => tickets'[u] = tickets[u]
      /\ k.status # "absent"
  BY WriteUpdates
<1>2. k.status = "pending" =>
        k.decided_at = 0 /\ k.execution_deadline = 0 /\ k.nonce = "none"
  BY LegalMove DEF Move
<1>3. QED
  BY <1>1, <1>2 DEF UndecidedIsBlank

-----------------------------------------------------------------------------
(* The three steps that write. *)

(* A row that keeps the nonce of the row before it leaves both tables      *)
(* agreeing.                                                               *)
LEMMA SameNonceKeepsBinding ==
    ASSUME ApprovalTypeOK, NonceBindsGrant, NEW t \in Ticket, NEW k,
           Write(t, k), Move(t, k), k.nonce = tickets[t].nonce,
           UNCHANGED nonces
    PROVE  NonceBindsGrant'
<1>1. \A u \in Ticket : tickets'[u].nonce = tickets[u].nonce
  BY WriteUpdates
<1>2. {u \in Ticket : tickets'[u].nonce # "none"} =
      {u \in Ticket : tickets[u].nonce # "none"}
  BY <1>1
<1>3. {[nonce |-> tickets'[u].nonce, ticket_id |-> u] :
          u \in {v \in Ticket : tickets'[v].nonce # "none"}} =
      {[nonce |-> tickets[u].nonce, ticket_id |-> u] :
          u \in {v \in Ticket : tickets[v].nonce # "none"}}
  BY <1>1, <1>2
<1>4. QED
  BY <1>3 DEF NonceBindsGrant

(* What a creation or a due expiry shares: nobody's request changes. *)
LEMMA QuietMove ==
    ASSUME ApprovalInv, NEW t \in Ticket, NEW k, Write(t, k), Move(t, k),
           k.nonce = tickets[t].nonce,
           k.execution_deadline <= k.decided_at + ExecutionTTL,
           UNCHANGED <<nonces, request, clock>>
    PROVE  ApprovalInv'
<1> USE DEF ApprovalInv
<1>1. ApprovalTypeOK'
  BY WriteUpdates DEF ApprovalTypeOK
<1>2. UndecidedIsBlank'
  BY MoveKeepsUndecided
<1>3. RequestsAreGated'
  <2>1. ASSUME NEW c \in Client, Waiting(c)' PROVE GatedOn(request[c])'
    <3>1. request'[c] = request[c]
      OBVIOUS
    <3>2. request[c] \in Request /\ request[c].ticket_id \in Ticket
      BY <2>1, <3>1 DEF ApprovalTypeOK, Request
    <3>3. GatedOn(request[c])
      BY <2>1, <3>1 DEF RequestsAreGated
    <3>4. QED
      BY <3>1, <3>2, <3>3, MoveKeepsReads DEF GatedOn, Matches
  <2>2. QED
    BY <2>1 DEF RequestsAreGated
<1>4. HistoryIsComplete'
  BY MoveKeepsHistory
<1>5. NonceBindsGrant'
  BY SameNonceKeepsBinding
<1>6. WindowIsBounded'
  BY WriteUpdates DEF WindowIsBounded
<1>7. QED
  BY <1>1, <1>2, <1>3, <1>4, <1>5, <1>6

(* Successors. *)

LEMMA SuccessorIsAMove ==
    ASSUME ApprovalTypeOK, NEW t \in Ticket, NEW s, NEW d \in Nat,
           NEW n \in Nonce \cup {"none"}, NEW m \in Nat,
           s \in LegalApprovalTransitions(tickets[t].status)
    PROVE  Move(t, Successor(tickets[t], s, d, n, m))
<1>1. tickets[t] \in TicketRow /\ s \in Statuses
  BY LegalMove
<1>2. Successor(tickets[t], s, d, n, m) \in TicketRow
  BY <1>1 DEF Successor, TicketRow
<1>3. QED
  BY <1>2 DEF Move, Successor

(* The window of a successor: a grant is stamped with the moment its       *)
(* window is measured from, and every other state keeps what it found.     *)
LEMMA SuccessorWindow ==
    ASSUME ApprovalInv, NEW t \in Ticket, NEW s, NEW d \in Nat, NEW n,
           NEW m \in Nat,
           s = "granted" =>
              tickets[t].decided_at = 0 /\ d <= m + ExecutionTTL
    PROVE  LET k == Successor(tickets[t], s, d, n, m)
           IN  k.execution_deadline <= k.decided_at + ExecutionTTL
<1>1. /\ tickets[t].decided_at \in Nat
      /\ tickets[t].execution_deadline \in Nat
      /\ tickets[t].execution_deadline <= tickets[t].decided_at + ExecutionTTL
  BY DEF ApprovalInv, ApprovalTypeOK, TicketRow, WindowIsBounded
<1>2. QED
  BY <1>1, TTLAssumption DEF Successor

LEMMA CreatePreserves ==
    ASSUME ApprovalInv, NEW t \in Ticket, CreateTicket(t)
    PROVE  ApprovalInv'
<1> DEFINE k == [status |-> "pending", revision |-> 0, created_at |-> clock,
                 decided_at |-> 0, execution_deadline |-> 0, nonce |-> "none"]
<1>1. Write(t, k) /\ ~Issued(t) /\ UNCHANGED <<nonces, request, clock>>
  BY DEF CreateTicket
<1>2. clock \in Nat
  BY DEF ApprovalInv, ApprovalTypeOK
<1>3. k \in TicketRow
  BY <1>2, StatusVocabulary DEF TicketRow
<1>4. Move(t, k)
  BY <1>1, <1>3 DEF Move
<1>5. k.nonce = tickets[t].nonce
  BY <1>1 DEF ApprovalInv, UndecidedIsBlank, Absent
<1>6. k.execution_deadline <= k.decided_at + ExecutionTTL
  BY TTLAssumption
<1> HIDE DEF k
<1>7. QED
  BY <1>1, <1>4, <1>5, <1>6, QuietMove

LEMMA ExpiryPreserves ==
    ASSUME ApprovalInv, NEW t \in Ticket, RecordDueExpiry(t)
    PROVE  ApprovalInv'
<1> DEFINE k == Successor(tickets[t], "expired", 0, "none", clock)
<1>1. ApprovalTypeOK /\ clock \in Nat
  BY DEF ApprovalInv, ApprovalTypeOK
<1>2. Write(t, k) /\ Due(tickets[t]) /\ UNCHANGED <<nonces, request, clock>>
  BY DEF RecordDueExpiry
<1>3. tickets[t].status \in {"pending", "granted"}
  BY <1>2 DEF Due
<1>4. "expired" \in LegalApprovalTransitions(tickets[t].status)
  BY <1>3, StatusVocabulary
<1>5. Move(t, k)
  BY <1>1, <1>4, SuccessorIsAMove
<1>6. k.nonce = tickets[t].nonce
  BY DEF Successor
<1>7. k.execution_deadline <= k.decided_at + ExecutionTTL
  BY <1>1, SuccessorWindow
<1> HIDE DEF k
<1>8. QED
  BY <1>2, <1>5, <1>6, <1>7, QuietMove

LEMMA CommitMoves ==
    ASSUME ApprovalInv, NEW c \in Client, Commit(c)
    PROVE  LET r == request[c]
               t == r.ticket_id
               k == Written(r)
           IN  /\ r \in Request
               /\ t \in Ticket
               /\ r.read = tickets[t]
               /\ r.status \in LegalApprovalTransitions(tickets[t].status)
               /\ GatedOn(r)
               /\ Write(t, k)
               /\ Move(t, k)
               /\ k.execution_deadline <= k.decided_at + ExecutionTTL
               /\ tickets' = [tickets EXCEPT ![t] = k]
<1> DEFINE r == request[c]
           t == r.ticket_id
           d == IF r.nonce = "none" THEN r.moment + ExecutionTTL ELSE r.window
<1>1. r \in Request /\ t \in Ticket
  BY DEF Commit, ApprovalInv, ApprovalTypeOK, Request
<1>2. GatedOn(r) /\ r.read = tickets[t]
  BY DEF Commit, ApprovalInv, RequestsAreGated, GatedOn
<1>3. r.status \in LegalApprovalTransitions(tickets[t].status)
  BY <1>2 DEF GatedOn
<1>4. /\ d \in Nat
      /\ r.moment \in Nat
      /\ r.nonce \in Nonce \cup {"none"}
  BY <1>1, TTLAssumption DEF Request
<1>5. Written(r) = Successor(tickets[t], r.status, d, r.nonce, r.moment)
  BY <1>2 DEF Written
<1>6. Move(t, Written(r))
  BY <1>1, <1>3, <1>4, <1>5, SuccessorIsAMove DEF ApprovalInv
<1>7. r.status = "granted" =>
        tickets[t].decided_at = 0 /\ d <= r.moment + ExecutionTTL
  <2>1. r.status = "granted" => tickets[t].status = "pending"
    BY <1>1, <1>3, LegalMove DEF ApprovalInv
  <2>2. r.moment # 0
    BY DEF Commit
  <2>3. d <= r.moment + ExecutionTTL
    BY <1>2, <1>4, <2>2, TTLAssumption DEF GatedOn
  <2>4. QED
    BY <1>1, <2>1, <2>3 DEF ApprovalInv, UndecidedIsBlank
<1>8. Written(r).execution_deadline <= Written(r).decided_at + ExecutionTTL
  BY <1>1, <1>4, <1>5, <1>7, SuccessorWindow
<1>9. Write(t, Written(r)) /\ tickets' = [tickets EXCEPT ![t] = Written(r)]
  BY DEF Commit, Write
<1>10. QED
  BY <1>1, <1>2, <1>3, <1>6, <1>8, <1>9

(* A grant from an artifact binds its nonce to the ticket in both tables,  *)
(* and the UNIQUE constraint keeps any other ticket from it.               *)
LEMMA CommitBindsNonce ==
    ASSUME ApprovalInv, NEW c \in Client, Commit(c)
    PROVE  NonceBindsGrant' /\ nonces' \subseteq NonceRow
<1> DEFINE r == request[c]
           t == r.ticket_id
           k == Written(r)
           Bound(f) == {u \in Ticket : f[u].nonce # "none"}
           Rows(f) == {[nonce |-> f[u].nonce, ticket_id |-> u] : u \in Bound(f)}
<1>1. /\ r \in Request
      /\ t \in Ticket
      /\ r.read = tickets[t]
      /\ r.status \in LegalApprovalTransitions(tickets[t].status)
      /\ GatedOn(r)
      /\ Write(t, k)
      /\ Move(t, k)
  BY CommitMoves
<1>2. /\ tickets'[t] = k
      /\ \A u \in Ticket : u # t => tickets'[u] = tickets[u]
  BY <1>1, WriteUpdates DEF ApprovalInv
<1>3. nonces' = nonces \cup NoncesOf(r) /\ FreshNonce(r)
  BY DEF Commit
<1>4. k.nonce = IF r.status = "granted" THEN r.nonce ELSE tickets[t].nonce
  BY <1>1 DEF Written, Successor
<1>5. NonceBindsGrant /\ nonces \subseteq NonceRow
  BY DEF ApprovalInv, ApprovalTypeOK
<1>6. r.status = "granted" => tickets[t].nonce = "none"
  BY <1>1, LegalMove DEF ApprovalInv, UndecidedIsBlank
<1>7. CASE r.nonce = "none"
  <2>1. nonces' = nonces
    BY <1>3, <1>7 DEF NoncesOf
  <2>2. k.nonce = tickets[t].nonce
    BY <1>4, <1>6, <1>7
  <2>3. QED
    BY <1>1, <1>5, <2>1, <2>2, SameNonceKeepsBinding DEF ApprovalInv
<1>8. CASE r.nonce # "none"
  <2> DEFINE new == [nonce |-> r.nonce, ticket_id |-> t]
  <2>1. r.status = "granted"
    BY <1>1, <1>8 DEF GatedOn
  <2>2. nonces' = nonces \cup {new} /\ \A b \in nonces : b.nonce # r.nonce
    BY <1>3, <1>8 DEF NoncesOf, FreshNonce
  <2>3. new \in NonceRow
    BY <1>1, <1>8 DEF Request, NonceRow
  <2>4. Bound(tickets') = Bound(tickets) \cup {t} /\ t \notin Bound(tickets)
    BY <1>1, <1>2, <1>4, <1>6, <1>8, <2>1
  <2>5. Rows(tickets') = Rows(tickets) \cup {new}
    BY <1>1, <1>2, <1>4, <2>1, <2>4
  <2>6. nonces' = Rows(tickets')
    BY <1>5, <2>2, <2>5 DEF NonceBindsGrant
  <2>7. \A a, b \in nonces' : a.nonce = b.nonce => a = b
    BY <1>5, <2>2 DEF NonceBindsGrant
  <2>8. QED
    BY <1>5, <2>2, <2>3, <2>6, <2>7 DEF NonceBindsGrant
<1>9. QED
  BY <1>7, <1>8

LEMMA CommitPreserves ==
    ASSUME ApprovalInv, NEW c \in Client, Commit(c)
    PROVE  ApprovalInv'
<1> DEFINE t == request[c].ticket_id
           k == Written(request[c])
<1>1. /\ t \in Ticket
      /\ Write(t, k)
      /\ Move(t, k)
      /\ k.execution_deadline <= k.decided_at + ExecutionTTL
  BY CommitMoves
<1>2. /\ ApprovalTypeOK /\ UndecidedIsBlank /\ RequestsAreGated
      /\ HistoryIsComplete /\ WindowIsBounded
  BY DEF ApprovalInv
<1>3. NoRequest \in Request
  BY StatusVocabulary DEF NoRequest, Request, Absent, TicketRow
<1>4. request' = [request EXCEPT ![c] = NoRequest] /\ clock' = clock
  BY DEF Commit
<1> HIDE DEF k
<1>5. ApprovalTypeOK'
  BY <1>1, <1>2, <1>3, <1>4, WriteUpdates, CommitBindsNonce DEF ApprovalTypeOK
<1>6. UndecidedIsBlank'
  BY <1>1, <1>2, MoveKeepsUndecided
<1>7. RequestsAreGated'
  <2>1. ASSUME NEW b \in Client, Waiting(b)' PROVE GatedOn(request[b])'
    <3>1. b # c /\ request'[b] = request[b]
      BY <1>2, <1>4, <2>1 DEF ApprovalTypeOK, NoRequest
    <3>2. request[b] \in Request /\ request[b].ticket_id \in Ticket
      BY <1>2, <2>1, <3>1 DEF ApprovalTypeOK, Request
    <3>3. GatedOn(request[b])
      BY <1>2, <2>1, <3>1 DEF RequestsAreGated
    <3>4. QED
      BY <1>1, <1>2, <3>1, <3>2, <3>3, MoveKeepsReads DEF GatedOn, Matches
  <2>2. QED
    BY <2>1 DEF RequestsAreGated
<1>8. HistoryIsComplete'
  BY <1>1, <1>2, MoveKeepsHistory
<1>9. WindowIsBounded'
  BY <1>1, <1>2, WriteUpdates DEF WindowIsBounded
<1>10. QED
  BY <1>5, <1>6, <1>7, <1>8, <1>9, CommitBindsNonce DEF ApprovalInv

-----------------------------------------------------------------------------
(* The steps that change no ticket. *)

(* A step that replaces one client's request by a rightly gated one, or by *)
(* none.                                                                   *)
LEMMA RequestPreserves ==
    ASSUME ApprovalInv, NEW c \in Client, NEW r \in Request,
           r.ticket_id # "none" => GatedOn(r),
           request' = [request EXCEPT ![c] = r],
           UNCHANGED <<tickets, events, nonces, clock>>
    PROVE  ApprovalInv'
<1> USE DEF ApprovalInv
<1>1. ApprovalTypeOK'
  BY DEF ApprovalTypeOK
<1>2. RequestsAreGated'
  BY DEF RequestsAreGated, GatedOn, Matches, ApprovalTypeOK
<1>3. UndecidedIsBlank' /\ HistoryIsComplete' /\ NonceBindsGrant' /\ WindowIsBounded'
  BY DEF UndecidedIsBlank, HistoryIsComplete, NonceBindsGrant, WindowIsBounded
<1>4. QED
  BY <1>1, <1>2, <1>3

(* The gates of a transition. *)
LEMMA GatePreserves ==
    ASSUME ApprovalInv, NEW c \in Client, NEW t \in Ticket, NEW s,
           NEW w \in Nat, NEW n \in Nonce \cup {"none"},
           n # "none" => s = "granted",
           GateTransition(c, t, s, w, n)
    PROVE  ApprovalInv'
<1> DEFINE r == [ticket_id |-> t, read |-> tickets[t], status |-> s,
                 window |-> w, nonce |-> n, gated_at |-> clock, moment |-> 0]
<1>1. /\ ApprovalTypeOK
      /\ tickets[t] \in TicketRow
      /\ clock \in Nat
  BY DEF ApprovalInv, ApprovalTypeOK
<1>2. /\ s \in LegalApprovalTransitions(tickets[t].status)
      /\ ~Due(tickets[t])
      /\ request' = [request EXCEPT ![c] = r]
      /\ UNCHANGED <<tickets, events, nonces, clock>>
  BY DEF GateTransition
<1>3. s \in Statuses /\ tickets[t].status \in {"pending", "granted"}
  BY <1>1, <1>2, LegalMove
<1>4. r \in Request
  BY <1>1, <1>3 DEF Request
<1>5. GatedOn(r)
  <2>1. tickets[t].status = "pending" =>
          clock \in tickets[t].created_at .. tickets[t].created_at + DecisionTTL
    BY <1>1, <1>2, TTLAssumption DEF Due, TicketRow
  <2>2. tickets[t].status = "granted" => clock <= tickets[t].execution_deadline
    BY <1>1, <1>2 DEF Due, TicketRow
  <2>3. tickets[t].revision <= tickets[t].revision
    BY <1>1 DEF TicketRow
  <2>4. QED
    BY <1>2, <1>3, <2>1, <2>2, <2>3 DEF GatedOn
<1> HIDE DEF r
<1>6. QED
  BY <1>2, <1>4, <1>5, RequestPreserves

LEMMA TransitionPreserves ==
    ASSUME ApprovalInv, NEW c \in Client, NEW t \in Ticket, Transition(c, t)
    PROVE  ApprovalInv'
<1>1. ASSUME NEW s, GateTransition(c, t, s, 0, "none") PROVE ApprovalInv'
  BY <1>1, GatePreserves
<1>2. CASE \E d \in 2 .. MaxClock, n \in Nonce : GrantSigned(c, t, d, n)
  <2>1. PICK d \in 2 .. MaxClock, n \in Nonce : GrantSigned(c, t, d, n)
    BY <1>2
  <2>2. d \in Nat
    BY MaxClockAssumption
  <2>3. QED
    BY <2>1, <2>2, GatePreserves DEF GrantSigned
<1>3. CASE Consume(c, t, tickets[t].revision)
  BY <1>1, <1>3 DEF Consume
<1>4. QED
  BY <1>1, <1>2, <1>3 DEF Transition, Grant, Deny, Expire, Revoke

LEMMA StampPreserves ==
    ASSUME ApprovalInv, NEW c \in Client, Stamp(c)
    PROVE  ApprovalInv'
<1> DEFINE r == [request[c] EXCEPT !.moment = clock]
<1>1. /\ request[c] \in Request
      /\ clock \in Nat
      /\ GatedOn(request[c])
  BY DEF Stamp, ApprovalInv, ApprovalTypeOK, RequestsAreGated
<1>2. /\ request' = [request EXCEPT ![c] = r]
      /\ UNCHANGED <<tickets, events, nonces, clock>>
      /\ Admissible(request[c])
  BY <1>1 DEF Stamp, ApprovalInv, ApprovalTypeOK
<1>3. r \in Request
  BY <1>1 DEF Request
<1>4. GatedOn(r)
  BY <1>1, <1>2 DEF GatedOn, Matches, Admissible, Request
<1> HIDE DEF r
<1>5. QED
  BY <1>2, <1>3, <1>4, RequestPreserves

LEMMA AbandonPreserves ==
    ASSUME ApprovalInv, NEW c \in Client, Abandon(c)
    PROVE  ApprovalInv'
<1>1. NoRequest \in Request /\ NoRequest.ticket_id = "none"
  BY StatusVocabulary DEF NoRequest, Request, Absent, TicketRow
<1>2. QED
  BY <1>1, RequestPreserves DEF Abandon

LEMMA ClockPreserves ==
    ASSUME ApprovalInv, clock' \in Nat \ {0},
           UNCHANGED <<tickets, events, nonces, request>>
    PROVE  ApprovalInv'
BY DEF ApprovalInv, ApprovalTypeOK, UndecidedIsBlank, RequestsAreGated, GatedOn,
       Matches, HistoryIsComplete, NonceBindsGrant, WindowIsBounded

-----------------------------------------------------------------------------
(* The theorems. *)

LEMMA InitEstablishes == ApprovalInit => ApprovalInv
<1> SUFFICES ASSUME ApprovalInit PROVE ApprovalInv
  OBVIOUS
<1> USE DEF ApprovalInit
<1>1. Absent \in TicketRow /\ NoRequest \in Request
  BY StatusVocabulary DEF NoRequest, Request, Absent, TicketRow
<1>2. ApprovalTypeOK
  BY <1>1 DEF ApprovalTypeOK
<1>3. UndecidedIsBlank
  BY DEF UndecidedIsBlank, Absent
<1>4. RequestsAreGated
  BY DEF RequestsAreGated, NoRequest
<1>5. HistoryIsComplete
  BY DEF HistoryIsComplete, Absent
<1>6. NonceBindsGrant
  BY DEF NonceBindsGrant, Absent
<1>7. WindowIsBounded
  BY TTLAssumption DEF WindowIsBounded, Absent
<1>8. QED
  BY <1>2, <1>3, <1>4, <1>5, <1>6, <1>7 DEF ApprovalInv

LEMMA StepPreserves == ApprovalInv /\ [ApprovalNext]_approvalVars => ApprovalInv'
<1> SUFFICES ASSUME ApprovalInv, [ApprovalNext]_approvalVars PROVE ApprovalInv'
  OBVIOUS
<1>1. CASE \E t \in Ticket : CreateTicket(t) \/ RecordDueExpiry(t)
  BY <1>1, CreatePreserves, ExpiryPreserves
<1>2. ASSUME NEW c \in Client, \E t \in Ticket : Transition(c, t)
      PROVE  ApprovalInv'
  BY <1>2, TransitionPreserves
<1>3. ASSUME NEW c \in Client, Stamp(c) \/ Commit(c) \/ Abandon(c)
      PROVE  ApprovalInv'
  BY <1>3, StampPreserves, CommitPreserves, AbandonPreserves
<1>4. CASE Tick
  <2>1. clock' \in Nat \ {0}
    BY <1>4 DEF Tick, ApprovalInv, ApprovalTypeOK
  <2>2. QED
    BY <1>4, <2>1, ClockPreserves DEF Tick
<1>5. CASE StepClockBack
  <2>1. clock' \in Nat \ {0}
    BY <1>5, MaxClockAssumption DEF StepClockBack
  <2>2. QED
    BY <1>5, <2>1, ClockPreserves DEF StepClockBack
<1>6. CASE UNCHANGED approvalVars
  <2>1. clock' \in Nat \ {0}
    BY <1>6 DEF approvalVars, ApprovalInv, ApprovalTypeOK
  <2>2. QED
    BY <1>6, <2>1, ClockPreserves DEF approvalVars
<1>7. QED
  BY <1>1, <1>2, <1>3, <1>4, <1>5, <1>6 DEF ApprovalNext

(* The inductive invariant holds in every reachable state: whatever        *)
(* clients race, whatever artifacts they present and however the clock     *)
(* moves (approval_ledger.py, DurableApprovalStore).                       *)
THEOREM ApprovalInvariant == ApprovalSpec => []ApprovalInv
<1>1. ApprovalInit => ApprovalInv
  BY InitEstablishes
<1>2. ApprovalInv /\ [ApprovalNext]_approvalVars => ApprovalInv'
  BY StepPreserves
<1>3. QED
  BY <1>1, <1>2, PTL DEF ApprovalSpec

(* The same of a store that was in use before, and a new store is one. *)
LEMMA ResumedInvariant == ResumedSpec => []ApprovalInv
<1>1. ApprovalInv /\ [ApprovalNext]_approvalVars => ApprovalInv'
  BY StepPreserves
<1>2. QED
  BY <1>1, PTL DEF ResumedSpec

LEMMA NewStoresResume == ApprovalSpec => ResumedSpec
<1>1. ApprovalInit => ApprovalInv
  BY InitEstablishes
<1>2. QED
  BY <1>1, PTL DEF ApprovalSpec, ResumedSpec

(* The tables, and what a client holds between its reads and its write,    *)
(* keep their types.                                                       *)
THEOREM ApprovalTypeCorrect == ApprovalSpec => []ApprovalTypeOK
<1>1. ApprovalInv => ApprovalTypeOK
  BY DEF ApprovalInv
<1>2. QED
  BY <1>1, ApprovalInvariant, PTL

(* verify() accepts the history of every ticket: one event per revision,   *)
(* and the last one records the ticket's status.                           *)
THEOREM HistoryIsAlwaysComplete == ApprovalSpec => []HistoryIsComplete
<1>1. ApprovalInv => HistoryIsComplete
  BY DEF ApprovalInv
<1>2. QED
  BY <1>1, ApprovalInvariant, PTL

(* No signed artifact ever grants two tickets, and the nonce table names   *)
(* exactly the tickets that artifacts granted.                             *)
THEOREM ArtifactsGrantOnce == ApprovalSpec => []NonceBindsGrant
<1>1. ApprovalInv => NonceBindsGrant
  BY DEF ApprovalInv
<1>2. QED
  BY <1>1, ApprovalInvariant, PTL

(* No approval opens an execution window wider than the store's ceiling.   *)
THEOREM WindowsAreBounded == ApprovalSpec => []WindowIsBounded
<1>1. ApprovalInv => WindowIsBounded
  BY DEF ApprovalInv
<1>2. QED
  BY <1>1, ApprovalInvariant, PTL

-----------------------------------------------------------------------------
(* The action properties. *)

(* The three ways a ticket changes. *)
LEMMA TicketsChange ==
    ASSUME ApprovalInv, [ApprovalNext]_approvalVars, tickets' # tickets
    PROVE  \/ \E t \in Ticket : CreateTicket(t)
           \/ \E t \in Ticket : RecordDueExpiry(t)
           \/ \E c \in Client : Commit(c)
BY DEF ApprovalNext, Transition, Grant, GrantSigned, Deny, Expire, Revoke,
       Consume, GateTransition, Stamp, Abandon, Tick, StepClockBack,
       approvalVars

(* How it changes: one step of the table and one revision, or issued. *)
LEMMA ChangesAreMoves ==
    ASSUME ApprovalInv, [ApprovalNext]_approvalVars,
           NEW u \in Ticket, tickets'[u] # tickets[u]
    PROVE  Move(u, tickets'[u])
<1>1. ASSUME NEW t \in Ticket, NEW k, Write(t, k), Move(t, k)
      PROVE  Move(u, tickets'[u])
  BY <1>1, WriteUpdates DEF ApprovalInv
<1>2. ASSUME NEW t \in Ticket, CreateTicket(t) PROVE Move(u, tickets'[u])
  <2> DEFINE k == [status |-> "pending", revision |-> 0, created_at |-> clock,
                   decided_at |-> 0, execution_deadline |-> 0, nonce |-> "none"]
  <2>1. k \in TicketRow
    BY StatusVocabulary DEF TicketRow, ApprovalInv, ApprovalTypeOK
  <2>2. Write(t, k) /\ Move(t, k)
    BY <1>2, <2>1 DEF CreateTicket, Move
  <2>3. QED
    BY <1>1, <2>2
<1>3. ASSUME NEW t \in Ticket, RecordDueExpiry(t) PROVE Move(u, tickets'[u])
  <2>1. "expired" \in LegalApprovalTransitions(tickets[t].status)
    BY <1>3, StatusVocabulary DEF RecordDueExpiry, Due
  <2>2. /\ Write(t, Successor(tickets[t], "expired", 0, "none", clock))
        /\ Move(t, Successor(tickets[t], "expired", 0, "none", clock))
    BY <1>3, <2>1, SuccessorIsAMove
    DEF RecordDueExpiry, ApprovalInv, ApprovalTypeOK
  <2>3. QED
    BY <1>1, <2>2
<1>4. ASSUME NEW c \in Client, Commit(c) PROVE Move(u, tickets'[u])
  BY <1>1, <1>4, CommitMoves
<1>5. QED
  BY <1>2, <1>3, <1>4, TicketsChange

(* A ticket that becomes expired is due, or a client asked for it. *)
LEMMA ExpiriesAreDueOrAsked ==
    ASSUME ApprovalInv, [ApprovalNext]_approvalVars,
           NEW u \in Ticket, tickets'[u] # tickets[u], tickets'[u].status = "expired"
    PROVE  \/ Due(tickets[u])
           \/ \E c \in Client : request[c].ticket_id = u /\ request[c].status = "expired"
<1>1. ASSUME NEW t \in Ticket, NEW k, Write(t, k)
      PROVE  u = t /\ k.status = "expired"
  <2>1. tickets' = [tickets EXCEPT ![t] = k] /\ tickets \in [Ticket -> TicketRow]
    BY <1>1 DEF Write, ApprovalInv, ApprovalTypeOK
  <2> QED BY <2>1
<1>2. ASSUME NEW t \in Ticket, CreateTicket(t) PROVE FALSE
  <2> DEFINE k == [status |-> "pending", revision |-> 0, created_at |-> clock,
                   decided_at |-> 0, execution_deadline |-> 0, nonce |-> "none"]
  <2>1. Write(t, k) /\ k.status = "pending"
    BY <1>2 DEF CreateTicket
  <2> QED BY <1>1, <2>1
<1>3. ASSUME NEW t \in Ticket, RecordDueExpiry(t) PROVE Due(tickets[u])
  BY <1>1, <1>3 DEF RecordDueExpiry
<1>4. ASSUME NEW c \in Client, Commit(c)
      PROVE  request[c].ticket_id = u /\ request[c].status = "expired"
  <2>1. request[c].ticket_id \in Ticket
    BY <1>4 DEF Commit, Waiting, ApprovalInv, ApprovalTypeOK, Request
  <2>2. /\ Write(request[c].ticket_id, Written(request[c]))
        /\ Written(request[c]).status = request[c].status
    BY <1>4 DEF Commit, Written, Successor
  <2> QED BY <1>1, <2>1, <2>2
<1> QED BY <1>2, <1>3, <1>4, TicketsChange

LEMMA ResumedTicketsFollowTheTable == ResumedSpec => TicketsFollowTheTable
<1> DEFINE A == \A t \in Ticket :
          tickets'[t] # tickets[t] =>
              \/ ~Issued(t) /\ tickets'[t].status = "pending"
              \/ /\ tickets'[t].status \in LegalApprovalTransitions(tickets[t].status)
                 /\ tickets'[t].revision = tickets[t].revision + 1
                 /\ tickets'[t].status = "expired" =>
                       \/ Due(tickets[t])
                       \/ \E c \in Client : /\ request[c].ticket_id = t
                                            /\ request[c].status = "expired"
<1>1. ASSUME ApprovalInv, [ApprovalNext]_approvalVars
      PROVE  A
  <2> SUFFICES ASSUME NEW t \in Ticket, tickets'[t] # tickets[t]
               PROVE  \/ ~Issued(t) /\ tickets'[t].status = "pending"
                      \/ /\ tickets'[t].status \in
                                LegalApprovalTransitions(tickets[t].status)
                         /\ tickets'[t].revision = tickets[t].revision + 1
                         /\ tickets'[t].status = "expired" =>
                               \/ Due(tickets[t])
                               \/ \E c \in Client : /\ request[c].ticket_id = t
                                                    /\ request[c].status = "expired"
    OBVIOUS
  <2>1. Move(t, tickets'[t])
    BY <1>1, ChangesAreMoves
  <2>2. tickets'[t].status = "expired" =>
            \/ Due(tickets[t])
            \/ \E c \in Client : request[c].ticket_id = t /\ request[c].status = "expired"
    BY <1>1, ExpiriesAreDueOrAsked
  <2> QED BY <2>1, <2>2 DEF Move
<1> HIDE DEF A
<1>2. ResumedSpec => [][A]_tickets
  BY <1>1, ResumedInvariant, PTL DEF ResumedSpec
<1>3. QED
  BY <1>2 DEF A, TicketsFollowTheTable

(* A ticket moves one step of the table and one revision at a time; of two *)
(* racing transitions of one ticket, one is refused; and one that nobody   *)
(* asked to expire expires only when it is due.                            *)
THEOREM TicketsAlwaysFollowTheTable == ApprovalSpec => TicketsFollowTheTable
BY NewStoresResume, ResumedTicketsFollowTheTable, PTL

LEMMA ResumedDecidersSawAnOpenWindow == ResumedSpec => DecidersSawAnOpenWindow
<1> DEFINE Seen(t) ==
      /\ Decided(t) => \E c \in Client :
            /\ request[c].ticket_id = t
            /\ request[c].read = tickets[t]
            /\ request[c].gated_at \in
                  tickets[t].created_at .. tickets[t].created_at + DecisionTTL
      /\ Redeemed(t) => \E c \in Client :
            /\ request[c].ticket_id = t
            /\ request[c].read = tickets[t]
            /\ request[c].gated_at <= tickets[t].execution_deadline
<1>1. ASSUME ApprovalInv, [ApprovalNext]_approvalVars, NEW t \in Ticket
      PROVE  Seen(t)
  <2>1. ASSUME Decided(t) \/ Redeemed(t)
        PROVE  \E c \in Client : Commit(c) /\ request[c].ticket_id = t
    <3>1. /\ tickets'[t] # tickets[t]
          /\ tickets'[t].status \in {"granted", "denied", "consumed"}
      BY <2>1 DEF Decided, Redeemed
    <3>2. ASSUME NEW u \in Ticket, CreateTicket(u) PROVE FALSE
      BY <1>1, <3>1, <3>2
      DEF CreateTicket, Write, ApprovalInv, ApprovalTypeOK
    <3>3. ASSUME NEW u \in Ticket, RecordDueExpiry(u) PROVE FALSE
      BY <1>1, <3>1, <3>3
      DEF RecordDueExpiry, Write, Successor, ApprovalInv, ApprovalTypeOK
    <3>4. PICK c \in Client : Commit(c)
      BY <1>1, <3>1, <3>2, <3>3, TicketsChange
    <3>5. request[c].ticket_id = t
      BY <1>1, <3>1, <3>4, CommitMoves DEF ApprovalInv, ApprovalTypeOK
    <3>6. QED
      BY <3>4, <3>5
  <2>2. ASSUME NEW c \in Client, Commit(c), request[c].ticket_id = t
        PROVE  Seen(t)
    <3>1. /\ request[c].read = tickets[t]
          /\ request[c].status \in LegalApprovalTransitions(tickets[t].status)
          /\ GatedOn(request[c])
          /\ tickets'[t] = Written(request[c])
          /\ tickets[t] \in TicketRow
      BY <1>1, <2>2, CommitMoves DEF ApprovalInv, ApprovalTypeOK
    <3>2. tickets'[t].status = request[c].status
      BY <3>1 DEF Written, Successor
    <3>3. Redeemed(t) => tickets[t].status = "granted"
      BY <1>1, <3>1, <3>2, LegalMove DEF Redeemed, ApprovalInv
    <3>4. QED
      BY <2>2, <3>1, <3>3 DEF GatedOn, Decided
  <2>3. QED
    BY <2>1, <2>2
<1>2. ASSUME ApprovalInv, [ApprovalNext]_approvalVars
      PROVE  \A t \in Ticket : Seen(t)
  BY <1>1, <1>2
<1>3. QED
  BY <1>2, ResumedInvariant, PTL DEF ResumedSpec, DecidersSawAnOpenWindow

(* Decisions and redemptions are made on the very row the client saw, and  *)
(* saw inside its window, also when the clock was set back.                *)
THEOREM DecidersAlwaysSawAnOpenWindow == ApprovalSpec => DecidersSawAnOpenWindow
BY NewStoresResume, ResumedDecidersSawAnOpenWindow, PTL
=============================================================================
