-------------------------- MODULE ExecutionLedger --------------------------
(***************************************************************************)
(* The durable execution ledger (execution_ledger.py): one SQLite table of *)
(* execution reservations, shared by every worker process of the host.     *)
(*                                                                         *)
(* `rows` is the table in insertion order, so a row's index stands for its *)
(* reservation id; the code deletes no row.  A `reserve` is one            *)
(* BEGIN IMMEDIATE transaction and one step here.  A state transition is   *)
(* two steps: `_transition` reads the row on one connection, gates the     *)
(* move, and only then opens the write transaction whose compare-and-swap  *)
(* may find the row changed.  `call` is what a caller holds in between.    *)
(***************************************************************************)
EXTENDS Naturals, Sequences, FiniteSets

CONSTANTS
    Intent,             \* execution intents: one external effect each
    Ticket,             \* approval tickets
    Caller,             \* threads or processes that call the ledger
    Worker,             \* worker ids
    WorkerOf,           \* the worker id each caller presents
    Revision,           \* approval revisions a reservation may be bound to
    Recorded,           \* the outcomes callers record (every one, in the code)
    ClockMayStepBack    \* TRUE: the wall clock may be set back between calls

ASSUME WorkerOfAssumption == WorkerOf \in [Caller -> Worker]
ASSUME RevisionAssumption == Revision \subseteq Nat
ASSUME RecordedAssumption ==
    Recorded \subseteq {"refused", "not_executed", "verified_success",
                        "partially_verified", "failed", "unknown"}
ASSUME ClockAssumption == ClockMayStepBack \in BOOLEAN

VARIABLES
    rows,   \* execution_reservation, in insertion order
    call,   \* call[c]: the transition c has gated but not yet written
    now     \* the host's wall clock

vars == <<rows, call, now>>

-----------------------------------------------------------------------------
(* Vocabulary. *)

None == "none"      \* SQL NULL

OpenStates == {"reserved", "attempted"}
TerminalStates == {"resolved", "unresolved"}
States == OpenStates \cup TerminalStates

LegalTransitions(state) ==
    CASE state = "reserved"  -> {"attempted"}
      [] state = "attempted" -> {"resolved", "unresolved"}
      [] OTHER               -> {}

Outcomes == {"refused", "not_executed", "verified_success",
             "partially_verified", "failed", "unknown"}

Classes == {"no_effect", "transient_rejection", "post_state_not_reached",
            "target_invalid", "post_state_unreachable", "outcome_unknown",
            "effect_achieved"}

RetryableClasses ==
    {"no_effect", "transient_rejection", "post_state_not_reached"}

LegalClasses(outcome) ==
    CASE outcome \in {"refused", "not_executed"} -> {"no_effect"}
      [] outcome \in {"verified_success", "partially_verified"} ->
            {"effect_achieved"}
      [] outcome = "failed"  -> Classes \ {"outcome_unknown", "effect_achieved"}
      [] outcome = "unknown" -> {"outcome_unknown"}
      [] OTHER -> {}

Reservation ==
    [intent_key : Intent, ticket_id : Ticket, ticket_revision : Revision,
     worker_id : Worker, state : States, outcome : Outcomes \cup {None},
     reexecution_class : Classes \cup {None}, revision : Nat,
     updated_at : Nat, supersedes : Nat]

Call == [row : Nat, expected : Nat, state : States,
         outcome : Outcomes \cup {None},
         reexecution_class : Classes \cup {None}, moment : Nat]

(* A caller that is not inside a transition; no row has index 0. *)
NoCall == [row |-> 0, expected |-> 0, state |-> "reserved", outcome |-> None,
           reexecution_class |-> None, moment |-> 0]

Idle(c) == call[c].row = 0

-----------------------------------------------------------------------------
(* The queries of reserve. *)

(* A row that must refuse a new execution of its intent. *)
Blocks(r) ==
    \/ r.state \in OpenStates \cup {"unresolved"}
    \/ r.state = "resolved" /\ r.reexecution_class \notin RetryableClasses

(* A settled row whose recorded basis lets the intent be attempted again. *)
PermitsReexecution(r) ==
    r.state = "resolved" /\ r.reexecution_class \in RetryableClasses

RowsOf(i) == {n \in DOMAIN rows : rows[n].intent_key = i}

(* Mutant: the pair query looks at open rows only. *)
PairAmongOpen(i, t) ==
    {n \in RowsOf(i) : rows[n].ticket_id = t /\ rows[n].state \in OpenStates}

Pair(i, t) == {n \in RowsOf(i) : rows[n].ticket_id = t}

(* Mutant: a reserved row does not block. *)
BlockingPriorsOnceAttempted(i) ==
    {n \in RowsOf(i) : Blocks(rows[n]) /\ rows[n].state # "reserved"}

BlockingPriors(i) == {n \in RowsOf(i) : Blocks(rows[n])}

(* Mutant: the query loses its intent_key condition. *)
ReattemptablePriorsOfAnyIntent(i) ==
    {n \in DOMAIN rows : PermitsReexecution(rows[n])}

ReattemptablePriors(i) == {n \in RowsOf(i) : PermitsReexecution(rows[n])}

(* Mutant: the query is not ordered. *)
AnyReattemptable(i) == ReattemptablePriors(i)

(* ORDER BY updated_at DESC, reservation_id DESC LIMIT 1: ids are random,  *)
(* so among rows written at the same moment any may come first.            *)
NewestReattemptable(i) ==
    {n \in ReattemptablePriors(i) :
        \A m \in ReattemptablePriors(i) :
            rows[m].updated_at <= rows[n].updated_at}

(* The row a new reservation records as its predecessor; 0 when none is. *)
Predecessors(i) ==
    IF ReattemptablePriors(i) = {} THEN {0} ELSE NewestReattemptable(i)

-----------------------------------------------------------------------------
(* Operations. *)

(* reserve: refused when the pair is claimed or a prior row blocks the     *)
(* intent; otherwise the claim and its lineage are written together.  (The *)
(* code checks the predecessor once more, which the query that chose it in *)
(* the same transaction has settled; and it reads the clock just before    *)
(* that transaction, which is one with it here.)                           *)
Reserve(c, i, t, v) ==
    /\ Idle(c)
    /\ Pair(i, t) = {}
    /\ BlockingPriors(i) = {}
    /\ \E p \in Predecessors(i) :
         rows' = Append(rows,
                    [intent_key |-> i, ticket_id |-> t, ticket_revision |-> v,
                     worker_id |-> WorkerOf[c], state |-> "reserved",
                     outcome |-> None, reexecution_class |-> None,
                     revision |-> 0, updated_at |-> now, supersedes |-> p])
    /\ now' = now + 1
    /\ UNCHANGED call

(* The first half of _transition: read the row, check owner and table, and *)
(* remember the revision the write will require.                           *)
Gate(c, n, state, outcome, class) ==
    /\ Idle(c)
    /\ n \in DOMAIN rows
    /\ rows[n].worker_id = WorkerOf[c]
    /\ state \in LegalTransitions(rows[n].state)
    /\ call' = [call EXCEPT ![c] =
                  [row |-> n, expected |-> rows[n].revision, state |-> state,
                   outcome |-> outcome, reexecution_class |-> class,
                   moment |-> now]]
    /\ UNCHANGED <<rows, now>>

MarkAttempted(c, n) == Gate(c, n, "attempted", None, None)

(* Mutant: the outcome's admissible classes are not consulted. *)
RecordAnyOutcome(c, n, outcome, class) ==
    Gate(c, n, IF outcome = "unknown" THEN "unresolved" ELSE "resolved",
         outcome, class)

(* The state follows from the outcome, and the basis must be one the       *)
(* outcome admits.                                                         *)
RecordOutcome(c, n, outcome, class) ==
    /\ class \in LegalClasses(outcome)
    /\ Gate(c, n, IF outcome = "unknown" THEN "unresolved" ELSE "resolved",
            outcome, class)

(* Mutant: WHERE reservation_id = ? alone. *)
MatchesById(k) == TRUE

(* _commit_update: UPDATE ... WHERE reservation_id = ? AND revision = ? *)
Matches(k) == rows[k.row].revision = k.expected

Updated(r, k) ==
    [intent_key |-> r.intent_key, ticket_id |-> r.ticket_id,
     ticket_revision |-> r.ticket_revision, worker_id |-> r.worker_id,
     supersedes |-> r.supersedes,
     state |-> k.state, outcome |-> k.outcome,
     reexecution_class |-> k.reexecution_class,
     revision |-> k.expected + 1, updated_at |-> k.moment]

(* The second half of _transition, when the compare-and-swap matches. *)
Commit(c) ==
    /\ ~Idle(c)
    /\ Matches(call[c])
    /\ rows' = [rows EXCEPT ![call[c].row] = Updated(@, call[c])]
    /\ call' = [call EXCEPT ![c] = NoCall]
    /\ now' = now + 1

(* The compare-and-swap matched no row, the write lock could not be taken  *)
(* within the busy timeout, the commit failed, or the caller crashed: the  *)
(* transaction leaves nothing behind.                                      *)
Abandon(c) ==
    /\ ~Idle(c)
    /\ call' = [call EXCEPT ![c] = NoCall]
    /\ UNCHANGED <<rows, now>>

(* The wall clock is set back; the ledger stamps rows with whatever it reads. *)
StepClockBack ==
    /\ ClockMayStepBack
    /\ \E t \in 0 .. now : t < now /\ now' = t
    /\ UNCHANGED <<rows, call>>

Init ==
    /\ rows = << >>
    /\ call = [c \in Caller |-> NoCall]
    /\ now = 0

Operation(c) ==
    \/ \E i \in Intent, t \in Ticket, v \in Revision : Reserve(c, i, t, v)
    \/ \E n \in DOMAIN rows : MarkAttempted(c, n)
    \/ \E n \in DOMAIN rows, o \in Recorded, k \in Classes :
          RecordOutcome(c, n, o, k)
    \/ Commit(c)
    \/ Abandon(c)

Next == (\E c \in Caller : Operation(c)) \/ StepClockBack

Spec == Init /\ [][Next]_vars

-----------------------------------------------------------------------------
(* Properties. *)

(* Every variable holds a value of the type the table and the code give it. *)
TypeOK ==
    /\ rows \in Seq(Reservation)
    /\ call \in [Caller -> Call]
    /\ now \in Nat

(* At most one row of an intent stands in the way of another execution:    *)
(* no two workers, tickets or retries ever hold or have spent the same     *)
(* effect.  This is what reserve's two queries and the transition gates    *)
(* establish together.                                                     *)
OneBlockingRowPerIntent ==
    \A m, n \in DOMAIN rows :
        /\ rows[m].intent_key = rows[n].intent_key
        /\ Blocks(rows[m]) /\ Blocks(rows[n])
        => m = n

(* UNIQUE (intent_key, ticket_id): a ticket buys one execution of an intent. *)
OneRowPerPair ==
    \A m, n \in DOMAIN rows :
        /\ rows[m].intent_key = rows[n].intent_key
        /\ rows[m].ticket_id = rows[n].ticket_id
        => m = n

(* What verify() checks of state, outcome and basis.  A row whose basis    *)
(* contradicts its outcome could let an ambiguous attempt be repeated.     *)
Justified(r) ==
    /\ r.state = "unresolved" => r.outcome = "unknown"
    /\ r.state = "resolved" => r.outcome \in Outcomes \ {"unknown"}
    /\ r.state \in OpenStates => r.outcome = None /\ r.reexecution_class = None
    /\ r.state \in TerminalStates =>
          r.reexecution_class \in LegalClasses(r.outcome)

VerifyAccepts == \A n \in DOMAIN rows : Justified(rows[n])

(* What verify_lineage() checks of every recorded reference: it names a    *)
(* row of the same intent, one whose own basis permitted the reattempt,    *)
(* and following references always ends (they go back in insertion order). *)
LineageAccepted ==
    \A n \in DOMAIN rows :
        rows[n].supersedes # 0 =>
            /\ rows[n].supersedes \in 1 .. n - 1
            /\ rows[rows[n].supersedes].intent_key = rows[n].intent_key
            /\ PermitsReexecution(rows[rows[n].supersedes])

(* Any execution of an intent after the first says durably why it was      *)
(* allowed: a row without a reference is the first of its intent.          *)
ReattemptsAreExplained ==
    \A n \in DOMAIN rows :
        (\E m \in RowsOf(rows[n].intent_key) : m < n) => rows[n].supersedes # 0

(* The reference names the immediate predecessor, so the executions of an  *)
(* intent form one chain and never a fork.                                 *)
LineageNamesThePredecessor ==
    \A n \in DOMAIN rows : \A m \in RowsOf(rows[n].intent_key) :
        m < n => m <= rows[n].supersedes

(* A settled row is never written again, whoever still holds a stale read  *)
(* of it, and no row is removed.                                           *)
SettledIsFinal ==
    [][\A n \in DOMAIN rows :
          /\ n \in DOMAIN rows'
          /\ rows[n].state \in TerminalStates => rows'[n] = rows[n]]_rows

(* A row only ever takes one step of the transition table at a time, and   *)
(* its revision counts those steps: a lost update would break one of them. *)
MovesFollowTheTable ==
    [][\A n \in DOMAIN rows :
          rows'[n] # rows[n] =>
              /\ rows'[n].state \in LegalTransitions(rows[n].state)
              /\ rows'[n].revision = rows[n].revision + 1]_rows

-----------------------------------------------------------------------------
(* The inductive invariant behind the properties above. *)

(* The revision says how far along its lifecycle a row is, so a matching   *)
(* revision in the compare-and-swap is as good as a matching state.        *)
RevisionCountsSteps ==
    \A n \in DOMAIN rows :
        rows[n].revision = CASE rows[n].state = "reserved"  -> 0
                             [] rows[n].state = "attempted" -> 1
                             [] OTHER                       -> 2

(* What a caller read is never ahead of the table; as long as its row has  *)
(* not moved the move it gated is still legal, and what it would write is  *)
(* a justified row.                                                        *)
CallsAreGated ==
    \A c \in Caller :
        ~Idle(c) =>
            /\ call[c].row \in DOMAIN rows
            /\ call[c].expected <= rows[call[c].row].revision
            /\ Matches(call[c]) =>
                  call[c].state \in LegalTransitions(rows[call[c].row].state)
            /\ Justified(call[c])

(* The executions of an intent follow one another: only its last row may   *)
(* stand in the way, every earlier one permitted the next.                 *)
OnlyTheLastBlocks ==
    \A n \in DOMAIN rows : \A m \in RowsOf(rows[n].intent_key) :
        m < n => ~Blocks(rows[m])

LedgerInv ==
    /\ TypeOK
    /\ RevisionCountsSteps
    /\ CallsAreGated
    /\ OnlyTheLastBlocks
    /\ OneBlockingRowPerIntent
    /\ OneRowPerPair
    /\ VerifyAccepts
    /\ LineageAccepted
    /\ ReattemptsAreExplained

(* On a clock that is never set back, time orders the rows of an intent as *)
(* the table does, so the newest reattemptable row is the last one: what   *)
(* is written is older than now, and a write that can still match is at    *)
(* least as new as the row it will replace.                                *)
TimeFollowsTheTable ==
    /\ \A n \in DOMAIN rows : rows[n].updated_at < now
    /\ \A c \in Caller :
          ~Idle(c) =>
              /\ call[c].moment <= now
              /\ Matches(call[c]) =>
                    rows[call[c].row].updated_at <= call[c].moment
    /\ \A n \in DOMAIN rows : \A m \in RowsOf(rows[n].intent_key) :
          m < n => rows[m].updated_at < rows[n].updated_at

LineageInv ==
    /\ LedgerInv
    /\ TimeFollowsTheTable
    /\ LineageNamesThePredecessor

-----------------------------------------------------------------------------
(* The ledger implements EffectLicense. *)

Holder(i) ==
    IF \E n \in RowsOf(i) : rows[n].state \in OpenStates THEN "held"
    ELSE IF BlockingPriors(i) # {} THEN "spent" ELSE "free"

License == INSTANCE EffectLicense WITH
    holder <- [i \in Intent |-> Holder(i)],
    used <- [i \in Intent |-> {rows[n].ticket_id : n \in RowsOf(i)}]

(* The ledger implements the licence: one holder per intent at a time,     *)
(* under a ticket never used before, and a spent licence is never reissued. *)
LicenseSpec == License!LicenseSpec
=============================================================================
