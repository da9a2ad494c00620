----------------------------- MODULE McpBackend -----------------------------
(***************************************************************************)
(* The tools of the MCP server (mcp/server.py, DefaultSwsBackend): each    *)
(* computes a result, or moves a ticket in the approval store, and then    *)
(* appends its records to the audit ledger, one by one.  A call answers    *)
(* with its result only if all of them were accepted, and with a ToolError *)
(* otherwise.  Workers are server processes over one ledger and one        *)
(* approval store; each runs one call at a time.                           *)
(*                                                                         *)
(* The approval store appears as what it promises (ApprovalStore): a       *)
(* ticket moves in one step.                                               *)
(***************************************************************************)
EXTENDS AuditLedger, WorkspaceCollection

CONSTANTS
    Ticket,         \* tickets that request_approval may open
    Mode,           \* the server's execution mode
    Requests,       \* collections that clients ask for
    Accounts,       \* what the account may hold when it is read
    MaxCalls        \* bound: calls of each worker

ASSUME BackendAssumption == Mode \in Modes /\ MaxCalls \in Nat

ASSUME CollectionAssumption ==
    /\ \A request \in Requests : IsRequest(request)
    /\ \A account \in Accounts : IsAccount(account)

VARIABLES
    tickets,    \* tickets[t]: its status in the approval store
    call,       \* call[w]: the tool call that worker w runs or ran last
    answered,   \* the records of the calls that answered with their result
    collected   \* the collection of the step just made, if it made one

backendVars == <<ledgerVars, tickets, call, answered, collected>>

-----------------------------------------------------------------------------
(* The records a call owes, in order.  Of a record matters which ticket it *)
(* is about, if any, and what it says of its status.                       *)

About(t, status) == [ticket |-> t, status |-> status]

(* RUN, SNAPSHOT, DECISION, COST and EXPLANATION records, and the PLAN     *)
(* record of a plan without a ticket.                                      *)
Plain == About("none", "none")
Records(n) == [i \in 1 .. n |-> Plain]

NoCollection == [request |-> "none"]

Idle(n) == [n |-> n, owed |-> <<>>, written |-> {}, busy |-> FALSE, fails |-> FALSE]

(* The call of w is over: it returned, it raised, or its process ended. *)
Answered(w) == ~call[w].busy

(* The server takes a call: the work is done, these records are owed; the  *)
(* tool itself may fail once they are written (they stay, whatever         *)
(* audit.py:38-39 says of a call that fails).                              *)
Take(w, owed, fails) ==
    /\ handle[w].open /\ Answered(w) /\ call[w].n < MaxCalls
    /\ call' = [call EXCEPT ![w] =
          [n |-> call[w].n + 1, owed |-> owed, written |-> {}, busy |-> TRUE, fails |-> fails]]
    /\ UNCHANGED <<ledgerVars, answered>>

(* A call that raised before it owed anything. *)
Refuse(w) ==
    /\ handle[w].open /\ Answered(w) /\ call[w].n < MaxCalls
    /\ call' = [call EXCEPT ![w] = Idle(call[w].n + 1)]
    /\ UNCHANGED <<ledgerVars, answered, tickets>>
    /\ collected' = NoCollection

(* get_relationships, list_approvals: nothing is recorded. *)
ReadOnly(w) == Take(w, <<>>, FALSE) /\ UNCHANGED tickets /\ collected' = NoCollection

(* What collect_workspace may return, for what is asked of what there is. *)
CollectionRuns ==
    {[request |-> asked.request, account |-> asked.account,
      snapshot |-> Snapshot(asked.request, asked.account)] :
        asked \in {c \in [request : Requests, account : Accounts] : ~Refused(c.request, c.account)}}

(* collect_workspace, audit_workspace: the account is read, and the run    *)
(* and its snapshot recorded; audit_workspace then refuses a snapshot that *)
(* is too large for derive_relationships, or records its decisions.        *)
CollectWorkspace(w) ==
    /\ \/ Take(w, Records(2), FALSE)
       \/ Take(w, Records(2), TRUE)
       \/ Take(w, Records(3), FALSE)
    /\ collected' \in CollectionRuns
    /\ UNCHANGED tickets

(* collect_workspace raises: regions that the client cannot address, or    *)
(* more events than the trace may hold.                                    *)
CollectionRaises(w) == Refuse(w)

(* evaluate_workspace, get_cost_estimates; explain_resource, which         *)
(* evaluates (each resource has its decision) and records what it          *)
(* explained.                                                              *)
Report(w) ==
    /\ \/ Take(w, Records(1), FALSE)
       \/ Take(w, Records(2), FALSE)
    /\ UNCHANGED tickets
    /\ collected' = NoCollection

(* request_approval: a plan, and a ticket if the gate asks for a person;   *)
(* the record of such a plan carries the ticket too.                       *)
RequestApproval(w, t, action) ==
    /\ IF OpensTicket(action, Mode)
       THEN /\ tickets[t] = "absent"
            /\ tickets' = [tickets EXCEPT ![t] = "pending"]
            /\ Take(w, <<About(t, "pending"), About(t, "pending")>>, FALSE)
       ELSE /\ Take(w, Records(1), FALSE)
            /\ UNCHANGED tickets
    /\ collected' = NoCollection

(* decide_ticket: the store grants or denies a pending ticket, or raises.  *)
(* (Tickets that expire, are revoked or consumed are ApprovalStore's.)     *)
DecideTicket(w, t, decision) ==
    IF tickets[t] = "pending"
    THEN /\ tickets' = [tickets EXCEPT ![t] = decision]
         /\ Take(w, <<About(t, decision)>>, FALSE)
         /\ collected' = NoCollection
    ELSE Refuse(w)

-----------------------------------------------------------------------------
(* A call under way.  A record is told from the others of its call by how  *)
(* many were left to write. *)

Record(w, owed, id, shape) ==
    [id |-> id, shape |-> shape, by |-> w, call |-> call[w].n,
     left |-> Len(call[w].owed), about |-> owed]

(* _audit: the next record is handed to the store. *)
Audit(w) ==
    /\ ~Answered(w) /\ write[w].step = "idle" /\ write[w].result # "error"
    /\ call[w].owed # <<>>
    /\ \E id \in Id, shape \in Shape :
          LET r == Record(w, Head(call[w].owed), id, shape)
          IN  /\ StartWrite(w, r)
              /\ call' = [call EXCEPT ![w].owed = Tail(@), ![w].written = @ \cup {r}]
    /\ collected' = NoCollection
    /\ UNCHANGED <<file, synced, lock, handle, faults, stops, tickets, answered>>

(* The tool returns, or _guarded turns an exception into a ToolError.      *)
Answer(w) ==
    /\ ~Answered(w) /\ write[w].step = "idle"
    /\ write[w].result = "error" \/ call[w].owed = <<>>
    /\ LET failed == write[w].result = "error" \/ call[w].fails
       IN  answered' = IF failed THEN answered ELSE answered \cup call[w].written
    /\ call' = [call EXCEPT ![w] = Idle(call[w].n)]
    /\ write' = [write EXCEPT ![w] = Quiet]
    /\ collected' = NoCollection
    /\ UNCHANGED <<file, synced, lock, handle, faults, stops, tickets>>

LedgerStep(w) ==
    /\ WriteStep(w)
    /\ collected' = NoCollection
    /\ UNCHANGED <<tickets, call, answered>>

(* Calls of a process that ends are never answered. *)
Dropped(W) == call' = [w \in Worker |-> IF w \in W THEN Idle(call[w].n) ELSE call[w]]

(* Handles are opened at startup and closed when a worker is idle. *)
Housekeeping(w) ==
    /\ Open(w) \/ (Answered(w) /\ Close(w))
    /\ collected' = NoCollection
    /\ UNCHANGED <<tickets, call, answered>>

Breakdown ==
    /\ \/ \E w \in Worker : Stop(w) /\ Dropped({w})
       \/ PowerCut /\ Dropped(Worker)
    /\ collected' = NoCollection
    /\ UNCHANGED <<tickets, answered>>

-----------------------------------------------------------------------------
BackendInit ==
    /\ LedgerInit
    /\ tickets = [t \in Ticket |-> "absent"]
    /\ call = [w \in Worker |-> Idle(0)]
    /\ answered = {}
    /\ collected = NoCollection

NewCall(w) ==
    \/ ReadOnly(w) \/ CollectWorkspace(w) \/ CollectionRaises(w) \/ Report(w)
    \/ \E t \in Ticket :
          \/ \E action \in Actions : RequestApproval(w, t, action)
          \/ \E decision \in {"granted", "denied"} : DecideTicket(w, t, decision)

BackendNext ==
    \/ \E w \in Worker :
          \/ NewCall(w) \/ Audit(w) \/ Answer(w)
          \/ LedgerStep(w) \/ Housekeeping(w)
    \/ Breakdown

BackendSpec == BackendInit /\ [][BackendNext]_backendVars

(* A worker that has a call to answer is scheduled.  Calls are bounded, so *)
(* the other worker cannot take the lock for ever, and weak fairness is    *)
(* enough.                                                                 *)
FairBackendSpec ==
    /\ BackendSpec
    /\ \A w \in Worker : WF_backendVars(Audit(w) \/ Answer(w) \/ LedgerStep(w))

-----------------------------------------------------------------------------
(* The record is in the file, whole, beyond what a power cut may take. *)
Recorded(r) == \E i \in 1 .. synced : file[i] = Chunk(r, "line")

Reached(t, status) ==
    tickets[t] = status \/ (status = "pending" /\ tickets[t] # "absent")

(* "A persistence failure surfaces as a ToolError instead of a silently    *)
(* missed durable claim" (audit.py): every record of a call that answered  *)
(* with its result is on disk and stays there, also after a power cut.     *)
(* And no record runs ahead of the approval store: one of a ticket is on   *)
(* file only if the ticket did reach that state.                           *)
AnswersAndRecordsAgree ==
    /\ \A r \in answered : Recorded(r)
    /\ \A i \in DOMAIN file :
          LET about == file[i].record.about
          IN  about # Plain => Reached(about.ticket, about.status)

(* "A duplicate record_id raises" (audit.py): no identifier stands for two *)
(* records that were accepted, although each worker checks on its own and  *)
(* a refused record may still reach the file, with a later seek or close.  *)
AcceptedIdsAreUnique ==
    \A r, s \in answered : r.id = s.id => r = s

(* What a snapshot says of itself (workspace.py): one that is neither      *)
(* partial nor truncated has all that the regions read hold, and left a    *)
(* region unread only at its limit; and the policy calls a tag missing     *)
(* only where a lookup said so.                                            *)
SnapshotsDoNotOverclaim ==
    collected # NoCollection =>
        /\ Complete(collected.snapshot) =>
              NothingMissed(collected.request, collected.account, collected.snapshot)
        /\ MissingTagsAreFacts(collected.snapshot)

(* Every call is answered, or its worker stops: no error path keeps the    *)
(* lock, and a file that cannot be read is an error and not a wait.        *)
EveryCallIsAnswered == \A w \in Worker : ~Answered(w) ~> Answered(w)
=============================================================================
