----------------------- MODULE ExecutionLedgerProofs -----------------------
(***************************************************************************)
(* Theorems about ExecutionLedger, for any number of intents, tickets,     *)
(* workers and concurrent callers.                                         *)
(*                                                                         *)
(* The argument: a row is written by an insert (Reserve) or by a           *)
(* compare-and-swap (Commit), so two lemmas say exactly what each leaves   *)
(* in the table, and every part of LedgerInv is preserved from those two   *)
(* facts.  The other steps leave the table alone.                          *)
(***************************************************************************)
EXTENDS ExecutionLedger, SequenceTheorems, TLAPS

USE DEF Idle, NoCall

(* The row reserve inserts for intent i under ticket t at revision v. *)
NewRow(c, i, t, v, p) ==
    [intent_key |-> i, ticket_id |-> t, ticket_revision |-> v,
     worker_id |-> WorkerOf[c], state |-> "reserved",
     outcome |-> None, reexecution_class |-> None,
     revision |-> 0, updated_at |-> now, supersedes |-> p]

LEMMA StateVocabulary ==
    /\ States = {"reserved", "attempted", "resolved", "unresolved"}
    /\ OpenStates = {"reserved", "attempted"}
    /\ TerminalStates = {"resolved", "unresolved"}
    /\ LegalTransitions("reserved") = {"attempted"}
    /\ LegalTransitions("attempted") = {"resolved", "unresolved"}
    /\ \A s \in TerminalStates : LegalTransitions(s) = {}
BY DEF States, OpenStates, TerminalStates, LegalTransitions

(* A settled row either stands in the way of its intent or permits another *)
(* attempt; an open row always stands in the way.                          *)
LEMMA BlocksOrPermits ==
    ASSUME NEW r \in Reservation
    PROVE  /\ Blocks(r) <=> ~PermitsReexecution(r)
           /\ r.state \in OpenStates => Blocks(r)
BY DEF Reservation, Blocks, PermitsReexecution, States, OpenStates,
       TerminalStates

-----------------------------------------------------------------------------
(* What the two writing steps do to the table. *)

LEMMA TableIsAFunction ==
    ASSUME TypeOK
    PROVE  /\ Len(rows) \in Nat
           /\ DOMAIN rows = 1 .. Len(rows)
           /\ \A n \in DOMAIN rows : rows[n] \in Reservation
BY LenProperties, ElementOfSeq DEF TypeOK

LEMMA ReserveInserts ==
    ASSUME TypeOK, NEW c \in Caller, NEW i \in Intent, NEW t \in Ticket,
           NEW v \in Revision, Reserve(c, i, t, v)
    PROVE  \E p \in Predecessors(i) :
             /\ p \in Nat
             /\ NewRow(c, i, t, v, p) \in Reservation
             /\ rows' \in Seq(Reservation)
             /\ DOMAIN rows' = 1 .. Len(rows) + 1
             /\ \A n \in DOMAIN rows : rows'[n] = rows[n]
             /\ rows'[Len(rows) + 1] = NewRow(c, i, t, v, p)
<1>1. PICK p \in Predecessors(i) : rows' = Append(rows, NewRow(c, i, t, v, p))
  BY DEF Reserve, NewRow
<1>2. p \in Nat
  BY <1>1, TableIsAFunction
  DEF Predecessors, NewestReattemptable, ReattemptablePriors, RowsOf
<1>3. NewRow(c, i, t, v, p) \in Reservation
  BY <1>2, WorkerOfAssumption, RevisionAssumption
  DEF NewRow, Reservation, TypeOK, States, OpenStates, Outcomes, Classes, None
<1>4. rows \in Seq(Reservation)
  BY DEF TypeOK
<1>5. /\ rows' \in Seq(Reservation)
      /\ Len(rows') = Len(rows) + 1
      /\ \A n \in 1 .. Len(rows) : rows'[n] = rows[n]
      /\ rows'[Len(rows) + 1] = NewRow(c, i, t, v, p)
  BY <1>1, <1>3, <1>4, AppendProperties
<1>6. DOMAIN rows' = 1 .. Len(rows) + 1
  BY <1>5, LenProperties
<1>7. QED
  BY <1>1, <1>2, <1>3, <1>5, <1>6, TableIsAFunction

LEMMA UpdatedIsAReservation ==
    ASSUME NEW r \in Reservation, NEW k \in Call
    PROVE  Updated(r, k) \in Reservation
<1>1. /\ k.state \in States
      /\ k.outcome \in Outcomes \cup {None}
      /\ k.reexecution_class \in Classes \cup {None}
      /\ k.expected + 1 \in Nat
      /\ k.moment \in Nat
  BY DEF Call
<1>2. QED
  BY <1>1 DEF Updated, Reservation

LEMMA CommitUpdates ==
    ASSUME TypeOK, CallsAreGated, NEW c \in Caller, Commit(c)
    PROVE  /\ call[c].row \in DOMAIN rows
           /\ rows[call[c].row].state \in OpenStates
           /\ call[c].state \in LegalTransitions(rows[call[c].row].state)
           /\ rows[call[c].row].revision = call[c].expected
           /\ rows' \in Seq(Reservation)
           /\ DOMAIN rows' = DOMAIN rows
           /\ rows'[call[c].row] = Updated(rows[call[c].row], call[c])
           /\ \A n \in DOMAIN rows : n # call[c].row => rows'[n] = rows[n]
           /\ Justified(call[c])
<1> DEFINE k == call[c]
           n == k.row
<1>1. /\ n \in DOMAIN rows
      /\ k.state \in LegalTransitions(rows[n].state)
      /\ Justified(k)
  BY DEF Commit, CallsAreGated
<1>2. rows[n].revision = k.expected
  BY DEF Commit, Matches
<1>3. rows[n] \in Reservation /\ k \in Call
  BY <1>1, TableIsAFunction DEF TypeOK
<1>4. rows[n].state \in OpenStates
  BY <1>1, <1>3 DEF Reservation, States, OpenStates, TerminalStates,
                    LegalTransitions
<1>5. Updated(rows[n], k) \in Reservation
  BY <1>3, UpdatedIsAReservation
<1>6. rows' = [rows EXCEPT ![n] = Updated(rows[n], k)]
  BY DEF Commit
<1>7. rows \in Seq(Reservation) /\ n \in 1 .. Len(rows)
  BY <1>1, TableIsAFunction DEF TypeOK
<1>8. /\ rows' \in Seq(Reservation)
      /\ Len(rows') = Len(rows)
      /\ \A m \in 1 .. Len(rows) :
            rows'[m] = IF m = n THEN Updated(rows[n], k) ELSE rows[m]
  BY <1>5, <1>6, <1>7, ExceptSeq
<1>9. DOMAIN rows' = DOMAIN rows
  BY <1>7, <1>8, LenProperties
<1>10. QED
  BY <1>1, <1>2, <1>4, <1>7, <1>8, <1>9, TableIsAFunction

-----------------------------------------------------------------------------
(* The invariant holds initially. *)

LEMMA InitLedgerInv == Init => LedgerInv
<1> SUFFICES ASSUME Init PROVE LedgerInv
  OBVIOUS
<1>1. rows \in Seq(Reservation) /\ DOMAIN rows = {}
  BY EmptySeq DEF Init
<1>2. call \in [Caller -> Call] /\ now \in Nat
  BY DEF Init, Call, States, OpenStates, None
<1>3. \A c \in Caller : Idle(c)
  BY DEF Init
<1>4. QED
  BY <1>1, <1>2, <1>3
  DEF LedgerInv, TypeOK, RevisionCountsSteps, CallsAreGated,
      OneBlockingRowPerIntent, OneRowPerPair, VerifyAccepts, LineageAccepted,
      ReattemptsAreExplained, OnlyTheLastBlocks

-----------------------------------------------------------------------------
(* reserve preserves it. *)

LEMMA ReserveKeepsInv ==
    ASSUME LedgerInv, NEW c \in Caller, NEW i \in Intent, NEW t \in Ticket,
           NEW v \in Revision, Reserve(c, i, t, v)
    PROVE  LedgerInv'
<1> DEFINE N == Len(rows) + 1
<1>0. TypeOK
  BY DEF LedgerInv
<1>1. PICK p \in Predecessors(i) :
        /\ p \in Nat
        /\ NewRow(c, i, t, v, p) \in Reservation
        /\ rows' \in Seq(Reservation)
        /\ DOMAIN rows' = 1 .. N
        /\ \A n \in DOMAIN rows : rows'[n] = rows[n]
        /\ rows'[N] = NewRow(c, i, t, v, p)
  BY <1>0, ReserveInserts
<1> DEFINE new == NewRow(c, i, t, v, p)
<1>2. /\ Len(rows) \in Nat
      /\ DOMAIN rows = 1 .. Len(rows)
      /\ \A n \in DOMAIN rows : rows[n] \in Reservation
  BY <1>0, TableIsAFunction
<1>3. /\ \A n \in DOMAIN rows' : n \in DOMAIN rows \/ n = N
      /\ DOMAIN rows \subseteq DOMAIN rows'
      /\ N \in DOMAIN rows' /\ N \notin DOMAIN rows
  BY <1>1, <1>2
<1>4. /\ new.intent_key = i /\ new.ticket_id = t /\ new.state = "reserved"
      /\ new.outcome = None /\ new.reexecution_class = None
      /\ new.revision = 0 /\ new.supersedes = p
  BY DEF NewRow
<1>5. UNCHANGED call /\ now' = now + 1
  BY DEF Reserve
<1> HIDE DEF new
<1>6. \A n \in DOMAIN rows : rows[n].intent_key = i =>
         PermitsReexecution(rows[n])
  BY <1>2, BlocksOrPermits DEF Reserve, BlockingPriors, RowsOf
<1>7. TypeOK'
  BY <1>0, <1>1, <1>5 DEF TypeOK
<1>8. RevisionCountsSteps'
  BY <1>1, <1>3, <1>4 DEF LedgerInv, RevisionCountsSteps, new
<1>9. CallsAreGated'
  <2>1. ASSUME NEW d \in Caller, call[d].row # 0
        PROVE  /\ call[d].row \in DOMAIN rows'
               /\ rows'[call[d].row] = rows[call[d].row]
               /\ call[d].expected <= rows[call[d].row].revision
               /\ Matches(call[d]) =>
                     call[d].state \in LegalTransitions(rows[call[d].row].state)
               /\ Justified(call[d])
    BY <1>1, <1>3, <2>1 DEF LedgerInv, CallsAreGated
  <2>2. QED
    BY <1>5, <2>1 DEF CallsAreGated, Matches
<1>10. OneBlockingRowPerIntent'
  <2>1. \A n \in DOMAIN rows : rows[n].intent_key = i => ~Blocks(rows[n])
    BY <1>2, <1>6, BlocksOrPermits
  <2>2. QED
    BY <1>1, <1>3, <1>4, <2>1 DEF LedgerInv, OneBlockingRowPerIntent, new
<1>11. OneRowPerPair'
  <2>1. \A n \in DOMAIN rows :
           ~(rows[n].intent_key = i /\ rows[n].ticket_id = t)
    BY DEF Reserve, Pair, RowsOf
  <2>2. QED
    BY <1>1, <1>3, <1>4, <2>1 DEF LedgerInv, OneRowPerPair, new
<1>12. VerifyAccepts'
  <2>1. Justified(new)
    BY <1>4 DEF Justified, OpenStates, TerminalStates
  <2>2. QED
    BY <1>1, <1>3, <2>1 DEF LedgerInv, VerifyAccepts, new
<1>13. LineageAccepted'
  <2>1. p # 0 =>
          /\ p \in DOMAIN rows
          /\ rows[p].intent_key = i
          /\ PermitsReexecution(rows[p])
    BY DEF Predecessors, NewestReattemptable, ReattemptablePriors, RowsOf
  <2>2. ASSUME NEW n \in DOMAIN rows', rows'[n].supersedes # 0
        PROVE  /\ rows'[n].supersedes \in 1 .. n - 1
               /\ rows'[rows'[n].supersedes].intent_key = rows'[n].intent_key
               /\ PermitsReexecution(rows'[rows'[n].supersedes])
    <3>1. CASE n = N
      BY <1>1, <1>2, <1>4, <2>1, <2>2, <3>1 DEF new
    <3>2. CASE n \in DOMAIN rows
      <4>1. rows'[n] = rows[n]
        BY <1>1, <3>2
      <4>2. /\ rows[n].supersedes \in 1 .. n - 1
            /\ rows[rows[n].supersedes].intent_key = rows[n].intent_key
            /\ PermitsReexecution(rows[rows[n].supersedes])
        BY <2>2, <3>2, <4>1 DEF LedgerInv, LineageAccepted
      <4>3. rows[n].supersedes \in DOMAIN rows
        BY <1>2, <3>2, <4>2
      <4>4. QED
        BY <1>1, <4>1, <4>2, <4>3
    <3>3. QED
      BY <1>3, <3>1, <3>2
  <2>3. QED
    BY <2>2 DEF LineageAccepted
<1>14. ReattemptsAreExplained'
  <2>1. ASSUME NEW m \in DOMAIN rows, rows[m].intent_key = i
        PROVE  p # 0
    <3>1. m \in ReattemptablePriors(i)
      BY <1>6, <2>1 DEF ReattemptablePriors, RowsOf
    <3>2. p \in DOMAIN rows
      BY <3>1 DEF Predecessors, NewestReattemptable, ReattemptablePriors,
                  RowsOf
    <3>3. QED
      BY <1>2, <3>2
  <2>2. ASSUME NEW n \in DOMAIN rows', NEW m \in DOMAIN rows',
               rows'[m].intent_key = rows'[n].intent_key, m < n
        PROVE  rows'[n].supersedes # 0
    <3>1. m \in DOMAIN rows
      BY <1>1, <1>2, <2>2
    <3>2. CASE n = N
      BY <1>1, <1>4, <2>1, <2>2, <3>1, <3>2 DEF new
    <3>3. CASE n \in DOMAIN rows
      BY <1>1, <2>2, <3>1, <3>3 DEF LedgerInv, ReattemptsAreExplained, RowsOf
    <3>4. QED
      BY <1>3, <3>2, <3>3
  <2>3. QED
    BY <2>2 DEF ReattemptsAreExplained, RowsOf
<1>15. OnlyTheLastBlocks'
  <2>1. ASSUME NEW n \in DOMAIN rows', NEW m \in DOMAIN rows',
               rows'[m].intent_key = rows'[n].intent_key, m < n
        PROVE  ~Blocks(rows'[m])
    <3>1. m \in DOMAIN rows /\ rows'[m] = rows[m]
      BY <1>1, <1>2, <2>1
    <3>2. CASE n = N
      BY <1>1, <1>4, <1>6, <1>2, <2>1, <3>1, <3>2, BlocksOrPermits DEF new
    <3>3. CASE n \in DOMAIN rows
      BY <1>1, <2>1, <3>1, <3>3 DEF LedgerInv, OnlyTheLastBlocks, RowsOf
    <3>4. QED
      BY <1>3, <3>2, <3>3
  <2>2. QED
    BY <2>1 DEF OnlyTheLastBlocks, RowsOf
<1>16. QED
  BY <1>7, <1>8, <1>9, <1>10, <1>11, <1>12, <1>13, <1>14, <1>15 DEF LedgerInv

-----------------------------------------------------------------------------
(* The compare-and-swap preserves it. *)

LEMMA CommitKeepsInv ==
    ASSUME LedgerInv, NEW c \in Caller, Commit(c)
    PROVE  LedgerInv'
<1> DEFINE k == call[c]
           N == k.row
<1>0. /\ TypeOK /\ CallsAreGated
      /\ call \in [Caller -> Call] /\ now \in Nat
  BY DEF LedgerInv, TypeOK
<1>1. /\ N \in DOMAIN rows
      /\ rows[N].state \in OpenStates
      /\ k.state \in LegalTransitions(rows[N].state)
      /\ rows[N].revision = k.expected
      /\ rows' \in Seq(Reservation)
      /\ DOMAIN rows' = DOMAIN rows
      /\ rows'[N] = Updated(rows[N], k)
      /\ \A n \in DOMAIN rows : n # N => rows'[n] = rows[n]
      /\ Justified(k)
  BY <1>0, CommitUpdates
<1>2. /\ DOMAIN rows = 1 .. Len(rows) /\ Len(rows) \in Nat
      /\ \A n \in DOMAIN rows : rows[n] \in Reservation
  BY <1>0, TableIsAFunction
<1>3. /\ rows'[N].intent_key = rows[N].intent_key
      /\ rows'[N].ticket_id = rows[N].ticket_id
      /\ rows'[N].supersedes = rows[N].supersedes
      /\ rows'[N].state = k.state
      /\ rows'[N].outcome = k.outcome
      /\ rows'[N].reexecution_class = k.reexecution_class
      /\ rows'[N].revision = k.expected + 1
  BY <1>1 DEF Updated
<1>4. \A n \in DOMAIN rows :
         /\ rows'[n].intent_key = rows[n].intent_key
         /\ rows'[n].ticket_id = rows[n].ticket_id
         /\ rows'[n].supersedes = rows[n].supersedes
  BY <1>1, <1>3
<1>5. /\ call' = [call EXCEPT ![c] = NoCall]
      /\ now' = now + 1
  BY DEF Commit
<1> DEFINE st == rows[N].state
<1>6. \/ st = "reserved" /\ k.state = "attempted" /\ k.expected = 0
      \/ st = "attempted" /\ k.state \in TerminalStates /\ k.expected = 1
  BY <1>1 DEF LedgerInv, RevisionCountsSteps, OpenStates, TerminalStates,
              LegalTransitions
<1>7. TypeOK'
  <2>1. NoCall \in Call
    BY DEF Call, States, OpenStates, None
  <2>2. call' \in [Caller -> Call]
    BY <1>0, <1>5, <2>1
  <2>3. QED
    BY <1>0, <1>1, <1>5, <2>2 DEF TypeOK
<1> HIDE DEF k
<1>8. RevisionCountsSteps'
  BY <1>1, <1>3, <1>6 DEF LedgerInv, RevisionCountsSteps, TerminalStates
<1>9. CallsAreGated'
  <2>1. ASSUME NEW d \in Caller, call'[d].row # 0
        PROVE  /\ d # c
               /\ call'[d] = call[d]
               /\ call[d].row # 0
    BY <1>0, <1>5, <2>1
  <2>2. ASSUME NEW d \in Caller, call'[d].row # 0
        PROVE  /\ call[d].row \in DOMAIN rows
               /\ call[d].expected \in Nat
               /\ call[d].expected <= rows[call[d].row].revision
               /\ rows[call[d].row].revision = call[d].expected =>
                    call[d].state \in LegalTransitions(rows[call[d].row].state)
               /\ Justified(call[d])
    <3>1. call[d] \in Call
      BY <1>0
    <3>2. QED
      BY <2>1, <2>2, <3>1 DEF LedgerInv, CallsAreGated, Matches, Call
  <2>3. ASSUME NEW d \in Caller, call'[d].row # 0
        PROVE  /\ call[d].expected <= rows'[call[d].row].revision
               /\ rows'[call[d].row].revision = call[d].expected =>
                   call[d].state \in LegalTransitions(rows'[call[d].row].state)
    <3>1. CASE call[d].row # N
      BY <1>1, <2>2, <2>3, <3>1
    <3>2. CASE call[d].row = N
      (* The row is now ahead of every call gated before. *)
      BY <1>1, <1>3, <1>6, <2>2, <2>3, <3>2
    <3>3. QED
      BY <3>1, <3>2
  <2>4. QED
    BY <1>1, <2>1, <2>2, <2>3 DEF CallsAreGated, Matches
<1>10. OneBlockingRowPerIntent'
  (* The row that moved was open, so it already stood in the way. *)
  <2>1. Blocks(rows[N])
    BY <1>1 DEF Blocks
  <2>2. \A n \in DOMAIN rows : Blocks(rows'[n]) => Blocks(rows[n])
    BY <1>1, <2>1
  <2>3. QED
    BY <1>1, <1>4, <2>2 DEF LedgerInv, OneBlockingRowPerIntent
<1>11. OneRowPerPair'
  BY <1>1, <1>4 DEF LedgerInv, OneRowPerPair
<1>12. VerifyAccepts'
  <2>1. Justified(rows'[N])
    BY <1>1, <1>3 DEF Justified
  <2>2. QED
    BY <1>1, <2>1 DEF LedgerInv, VerifyAccepts
<1>13. LineageAccepted'
  (* The row that moved was open, so no reference names it. *)
  <2>1. ~PermitsReexecution(rows[N])
    BY <1>1 DEF PermitsReexecution, OpenStates
  <2>2. ASSUME NEW n \in DOMAIN rows, rows[n].supersedes # 0
        PROVE  /\ rows[n].supersedes \in 1 .. n - 1
               /\ rows[n].supersedes \in DOMAIN rows
               /\ rows[n].supersedes # N
               /\ rows[rows[n].supersedes].intent_key = rows[n].intent_key
               /\ PermitsReexecution(rows[rows[n].supersedes])
    BY <1>2, <2>1, <2>2 DEF LedgerInv, LineageAccepted
  <2>3. ASSUME NEW n \in DOMAIN rows', rows'[n].supersedes # 0
        PROVE  /\ rows'[n].supersedes \in 1 .. n - 1
               /\ rows'[rows'[n].supersedes].intent_key = rows'[n].intent_key
               /\ PermitsReexecution(rows'[rows'[n].supersedes])
    BY <1>1, <1>4, <2>2, <2>3
  <2>4. QED
    BY <2>3 DEF LineageAccepted
<1>14. ReattemptsAreExplained'
  BY <1>1, <1>4 DEF LedgerInv, ReattemptsAreExplained, RowsOf
<1>15. OnlyTheLastBlocks'
  (* The row that moved blocked its intent before, so it is the last one.  *)
  <2>1. \A n \in DOMAIN rows : Blocks(rows'[n]) => Blocks(rows[n])
    BY <1>1 DEF Blocks
  <2>2. ASSUME NEW n \in DOMAIN rows', NEW m \in DOMAIN rows',
               rows'[m].intent_key = rows'[n].intent_key, m < n
        PROVE  ~Blocks(rows'[m])
    BY <1>1, <1>4, <2>1, <2>2 DEF LedgerInv, OnlyTheLastBlocks, RowsOf
  <2>3. QED
    BY <2>2 DEF OnlyTheLastBlocks, RowsOf
<1>16. QED
  BY <1>7, <1>8, <1>9, <1>10, <1>11, <1>12, <1>13, <1>14, <1>15 DEF LedgerInv

-----------------------------------------------------------------------------
(* The steps that leave the table alone preserve it. *)

(* A call that was just gated at its row's current revision. *)
LEMMA GateKeepsInv ==
    ASSUME LedgerInv, NEW c \in Caller, NEW n \in DOMAIN rows,
           NEW state \in States, NEW outcome \in Outcomes \cup {None},
           NEW class \in Classes \cup {None},
           Justified([state |-> state, outcome |-> outcome,
                      reexecution_class |-> class]),
           Gate(c, n, state, outcome, class)
    PROVE  LedgerInv'
<1> DEFINE k == [row |-> n, expected |-> rows[n].revision, state |-> state,
                 outcome |-> outcome, reexecution_class |-> class,
                 moment |-> now]
<1>1. /\ TypeOK /\ CallsAreGated
      /\ call \in [Caller -> Call] /\ now \in Nat
      /\ DOMAIN rows = 1 .. Len(rows) /\ Len(rows) \in Nat
      /\ rows[n] \in Reservation
  BY TableIsAFunction DEF LedgerInv, TypeOK
<1>2. /\ call' = [call EXCEPT ![c] = k]
      /\ UNCHANGED <<rows, now>>
      /\ state \in LegalTransitions(rows[n].state)
  BY DEF Gate
<1>3. k \in Call
  BY <1>1 DEF Call, Reservation
<1>4. TypeOK'
  BY <1>1, <1>2, <1>3 DEF TypeOK
<1>5. CallsAreGated'
  <2>1. Justified(k)
    BY DEF Justified
  <2>2. rows[n].revision \in Nat
    BY <1>1 DEF Reservation
  <2>3. QED
    BY <1>1, <1>2, <2>1, <2>2 DEF CallsAreGated, Matches
<1>6. QED
  BY <1>2, <1>4, <1>5
  DEF LedgerInv, RevisionCountsSteps, OneBlockingRowPerIntent, OneRowPerPair,
      VerifyAccepts, LineageAccepted, ReattemptsAreExplained, RowsOf,
      OnlyTheLastBlocks

LEMMA MarkAttemptedKeepsInv ==
    ASSUME LedgerInv, NEW c \in Caller, NEW n \in DOMAIN rows,
           MarkAttempted(c, n)
    PROVE  LedgerInv'
<1>1. Justified([state |-> "attempted", outcome |-> None,
                 reexecution_class |-> None])
  BY DEF Justified, OpenStates, TerminalStates
<1>2. "attempted" \in States /\ None \in Outcomes \cup {None}
                             /\ None \in Classes \cup {None}
  BY DEF States, OpenStates
<1>3. QED
  BY <1>1, <1>2, GateKeepsInv DEF MarkAttempted

LEMMA RecordOutcomeKeepsInv ==
    ASSUME LedgerInv, NEW c \in Caller, NEW n \in DOMAIN rows,
           NEW outcome \in Outcomes, NEW class \in Classes,
           RecordOutcome(c, n, outcome, class)
    PROVE  LedgerInv'
<1> DEFINE state == IF outcome = "unknown" THEN "unresolved" ELSE "resolved"
<1>1. state \in States
  BY DEF States, TerminalStates
<1>2. Justified([state |-> state, outcome |-> outcome,
                 reexecution_class |-> class])
  BY DEF Justified, RecordOutcome, OpenStates
<1>3. QED
  BY <1>1, <1>2, GateKeepsInv DEF RecordOutcome

LEMMA AbandonKeepsInv ==
    ASSUME LedgerInv, NEW c \in Caller, Abandon(c)
    PROVE  LedgerInv'
<1>1. /\ call' = [call EXCEPT ![c] = NoCall]
      /\ UNCHANGED <<rows, now>>
      /\ call \in [Caller -> Call]
  BY DEF Abandon, LedgerInv, TypeOK
<1>2. NoCall \in Call
  BY DEF Call, States, OpenStates, None
<1>3. QED
  BY <1>1, <1>2
  DEF LedgerInv, TypeOK, CallsAreGated, Matches, RevisionCountsSteps,
      OneBlockingRowPerIntent, OneRowPerPair, VerifyAccepts, LineageAccepted,
      ReattemptsAreExplained, RowsOf, OnlyTheLastBlocks

LEMMA StepClockBackKeepsInv == LedgerInv /\ StepClockBack => LedgerInv'
BY DEF StepClockBack, LedgerInv, TypeOK, CallsAreGated, Matches,
       RevisionCountsSteps, OneBlockingRowPerIntent, OneRowPerPair,
       VerifyAccepts, LineageAccepted, ReattemptsAreExplained, RowsOf,
       OnlyTheLastBlocks

LEMMA StutterKeepsInv == LedgerInv /\ UNCHANGED vars => LedgerInv'
BY DEF vars, LedgerInv, TypeOK, CallsAreGated, Matches,
       RevisionCountsSteps, OneBlockingRowPerIntent, OneRowPerPair,
       VerifyAccepts, LineageAccepted, ReattemptsAreExplained, RowsOf,
       OnlyTheLastBlocks

LEMMA NextKeepsInv == LedgerInv /\ [Next]_vars => LedgerInv'
<1> SUFFICES ASSUME LedgerInv, [Next]_vars PROVE LedgerInv'
  OBVIOUS
<1>1. ASSUME NEW c \in Caller, Operation(c) PROVE LedgerInv'
  <2>1. CASE \E i \in Intent, t \in Ticket, v \in Revision : Reserve(c, i, t, v)
    BY <2>1, ReserveKeepsInv
  <2>2. CASE \E n \in DOMAIN rows : MarkAttempted(c, n)
    BY <2>2, MarkAttemptedKeepsInv
  <2>3. CASE \E n \in DOMAIN rows, o \in Recorded, k \in Classes :
                RecordOutcome(c, n, o, k)
    BY <2>3, RecordOutcomeKeepsInv, RecordedAssumption DEF Outcomes
  <2>4. CASE Commit(c)
    BY <2>4, CommitKeepsInv
  <2>5. CASE Abandon(c)
    BY <2>5, AbandonKeepsInv
  <2>6. QED
    BY <1>1, <2>1, <2>2, <2>3, <2>4, <2>5 DEF Operation
<1>2. CASE StepClockBack
  BY <1>2, StepClockBackKeepsInv
<1>3. CASE UNCHANGED vars
  BY <1>3, StutterKeepsInv
<1>4. QED
  BY <1>1, <1>2, <1>3 DEF Next

-----------------------------------------------------------------------------
(* The theorems. *)

(* The inductive invariant holds in every reachable state. *)
THEOREM LedgerInvariant == Spec => []LedgerInv
BY InitLedgerInv, NextKeepsInv, PTL DEF Spec

(* Type correctness of the table, the pending calls and the clock. *)
THEOREM LedgerTypeCorrect == Spec => []TypeOK
<1>1. LedgerInv => TypeOK
  BY DEF LedgerInv
<1>2. QED
  BY <1>1, LedgerInvariant, PTL

(* However many workers race, crash or retry, an intent never has two rows *)
(* that each claim, or have spent, the right to its effect.                *)
THEOREM OneClaimPerIntent == Spec => []OneBlockingRowPerIntent
<1>1. LedgerInv => OneBlockingRowPerIntent
  BY DEF LedgerInv
<1>2. QED
  BY <1>1, LedgerInvariant, PTL

(* A ticket buys at most one execution of an intent. *)
THEOREM OneExecutionPerTicket == Spec => []OneRowPerPair
<1>1. LedgerInv => OneRowPerPair
  BY DEF LedgerInv
<1>2. QED
  BY <1>1, LedgerInvariant, PTL

(* No reachable table is one that verify() would call corrupt. *)
THEOREM VerifyNeverRefuses == Spec => []VerifyAccepts
<1>1. LedgerInv => VerifyAccepts
  BY DEF LedgerInv
<1>2. QED
  BY <1>1, LedgerInvariant, PTL

(* No reachable table is one that verify_lineage() would call corrupt, and *)
(* every reattempt names a predecessor, whatever the wall clock does.      *)
THEOREM LineageIsSound == Spec => [](LineageAccepted /\ ReattemptsAreExplained)
<1>1. LedgerInv => LineageAccepted /\ ReattemptsAreExplained
  BY DEF LedgerInv
<1>2. QED
  BY <1>1, LedgerInvariant, PTL

-----------------------------------------------------------------------------
(* What a step may do to a row. *)

LEMMA StepMovesRows ==
    ASSUME LedgerInv, [Next]_vars, NEW n \in DOMAIN rows
    PROVE  /\ n \in DOMAIN rows'
           /\ \/ rows'[n] = rows[n]
              \/ /\ rows[n].state \in OpenStates
                 /\ rows'[n].state \in LegalTransitions(rows[n].state)
                 /\ rows'[n].revision = rows[n].revision + 1
<1>0. TypeOK /\ CallsAreGated
  BY DEF LedgerInv
<1>1. CASE UNCHANGED rows
  BY <1>1
<1>2. ASSUME NEW c \in Caller, NEW i \in Intent, NEW t \in Ticket,
             NEW v \in Revision, Reserve(c, i, t, v)
      PROVE  n \in DOMAIN rows' /\ rows'[n] = rows[n]
  BY <1>0, <1>2, ReserveInserts, TableIsAFunction
<1>3. ASSUME NEW c \in Caller, Commit(c)
      PROVE  /\ n \in DOMAIN rows'
             /\ \/ rows'[n] = rows[n]
                \/ /\ rows[n].state \in OpenStates
                   /\ rows'[n].state \in LegalTransitions(rows[n].state)
                   /\ rows'[n].revision = rows[n].revision + 1
  <2> DEFINE N == call[c].row
  <2>1. /\ rows[N].state \in OpenStates
        /\ call[c].state \in LegalTransitions(rows[N].state)
        /\ rows[N].revision = call[c].expected
        /\ DOMAIN rows' = DOMAIN rows
        /\ rows'[N] = Updated(rows[N], call[c])
        /\ \A m \in DOMAIN rows : m # N => rows'[m] = rows[m]
    BY <1>0, <1>3, CommitUpdates
  <2>2. /\ rows'[N].state = call[c].state
        /\ rows'[N].revision = call[c].expected + 1
    BY <2>1 DEF Updated
  <2>3. QED
    BY <2>1, <2>2
<1>4. QED
  BY <1>1, <1>2, <1>3
  DEF Next, Operation, vars, MarkAttempted, RecordOutcome, Gate, Abandon,
      StepClockBack

(* A settled row is immutable: a stale read is never written over it. *)
THEOREM SettledRowsAreFinal == Spec => SettledIsFinal
<1>1. LedgerInv /\ [Next]_vars =>
        [\A n \in DOMAIN rows :
            /\ n \in DOMAIN rows'
            /\ rows[n].state \in TerminalStates => rows'[n] = rows[n]]_rows
  BY StepMovesRows, StateVocabulary
<1>2. QED
  BY <1>1, LedgerInvariant, PTL DEF Spec, SettledIsFinal

(* No update is lost: a row moves along the table, one revision at a time. *)
THEOREM RowsFollowTheTable == Spec => MovesFollowTheTable
<1>1. LedgerInv /\ [Next]_vars =>
        [\A n \in DOMAIN rows :
            rows'[n] # rows[n] =>
                /\ rows'[n].state \in LegalTransitions(rows[n].state)
                /\ rows'[n].revision = rows[n].revision + 1]_rows
  BY StepMovesRows
<1>2. QED
  BY <1>1, LedgerInvariant, PTL DEF Spec, MovesFollowTheTable

-----------------------------------------------------------------------------
(* On a clock that is never set back, the lineage is a chain. *)

LEMMA InitLineageInv == Init => LineageInv
<1> SUFFICES ASSUME Init PROVE LineageInv
  OBVIOUS
<1>1. DOMAIN rows = {} /\ \A c \in Caller : Idle(c)
  BY EmptySeq DEF Init
<1>2. QED
  BY <1>1, InitLedgerInv
  DEF LineageInv, TimeFollowsTheTable, LineageNamesThePredecessor

(* The newest row that permits another attempt is the last of its intent.  *)
LEMMA ReserveKeepsLineage ==
    ASSUME LineageInv, NEW c \in Caller, NEW i \in Intent, NEW t \in Ticket,
           NEW v \in Revision, Reserve(c, i, t, v)
    PROVE  TimeFollowsTheTable' /\ LineageNamesThePredecessor'
<1> DEFINE N == Len(rows) + 1
<1>0. /\ LedgerInv /\ TypeOK /\ TimeFollowsTheTable
      /\ LineageNamesThePredecessor /\ CallsAreGated
      /\ call \in [Caller -> Call] /\ now \in Nat
  BY DEF LineageInv, LedgerInv, TypeOK
<1>1. PICK p \in Predecessors(i) :
        /\ p \in Nat
        /\ DOMAIN rows' = 1 .. N
        /\ \A n \in DOMAIN rows : rows'[n] = rows[n]
        /\ rows'[N] = NewRow(c, i, t, v, p)
  BY <1>0, ReserveInserts
<1>2. /\ Len(rows) \in Nat
      /\ DOMAIN rows = 1 .. Len(rows)
      /\ \A n \in DOMAIN rows : rows[n] \in Reservation /\ rows[n].updated_at \in Nat
  BY <1>0, TableIsAFunction DEF Reservation
<1>3. /\ \A n \in DOMAIN rows' : n \in DOMAIN rows \/ n = N
      /\ DOMAIN rows \subseteq DOMAIN rows'
      /\ N \in DOMAIN rows' /\ N \notin DOMAIN rows
      /\ \A n \in DOMAIN rows : n < N
  BY <1>1, <1>2
<1>4. /\ rows'[N].intent_key = i
      /\ rows'[N].updated_at = now
      /\ rows'[N].supersedes = p
  BY <1>1 DEF NewRow
<1>5. call' = call /\ now' = now + 1
  BY DEF Reserve
<1>6. \A n \in DOMAIN rows : rows[n].updated_at < now
  BY <1>0 DEF TimeFollowsTheTable
<1>7. ASSUME NEW m \in DOMAIN rows, rows[m].intent_key = i
      PROVE  m <= p
  <2>1. \A n \in RowsOf(i) : PermitsReexecution(rows[n])
    BY <1>2, BlocksOrPermits DEF Reserve, BlockingPriors, RowsOf
  <2>2. m \in ReattemptablePriors(i)
    BY <1>7, <2>1 DEF ReattemptablePriors, RowsOf
  <2>3. /\ p \in RowsOf(i)
        /\ rows[m].updated_at <= rows[p].updated_at
    BY <2>2 DEF Predecessors, NewestReattemptable, ReattemptablePriors
  <2>4. p \in DOMAIN rows /\ rows[p].intent_key = i
    BY <2>3 DEF RowsOf
  <2>5. p < m => rows[p].updated_at < rows[m].updated_at
    BY <1>0, <1>7, <2>3, <2>4 DEF TimeFollowsTheTable
  <2>6. QED
    BY <1>2, <1>7, <2>3, <2>4, <2>5
<1>8. LineageNamesThePredecessor'
  <2>1. ASSUME NEW n \in DOMAIN rows', NEW m \in DOMAIN rows',
               rows'[m].intent_key = rows'[n].intent_key, m < n
        PROVE  m <= rows'[n].supersedes
    <3>1. m \in DOMAIN rows /\ rows'[m] = rows[m]
      BY <1>1, <1>2, <2>1
    <3>2. CASE n = N
      BY <1>4, <1>7, <2>1, <3>1, <3>2
    <3>3. CASE n \in DOMAIN rows
      BY <1>0, <1>1, <2>1, <3>1, <3>3 DEF LineageNamesThePredecessor, RowsOf
    <3>4. QED
      BY <1>3, <3>2, <3>3
  <2>2. QED
    BY <2>1 DEF LineageNamesThePredecessor, RowsOf
<1>9. TimeFollowsTheTable'
  <2>1. ASSUME NEW n \in DOMAIN rows' PROVE rows'[n].updated_at < now'
    BY <1>0, <1>1, <1>2, <1>3, <1>4, <1>5, <1>6
  <2>2. ASSUME NEW d \in Caller, call'[d].row # 0
        PROVE  /\ call'[d].moment <= now'
               /\ rows'[call[d].row].revision = call[d].expected =>
                     rows'[call[d].row].updated_at <= call[d].moment
    <3>1. call[d].row \in DOMAIN rows /\ call[d].moment \in Nat
      BY <1>0, <1>5, <2>2 DEF CallsAreGated, Call
    <3>2. QED
      BY <1>0, <1>1, <1>5, <2>2, <3>1 DEF TimeFollowsTheTable, Matches
  <2>3. ASSUME NEW n \in DOMAIN rows', NEW m \in DOMAIN rows',
               rows'[m].intent_key = rows'[n].intent_key, m < n
        PROVE  rows'[m].updated_at < rows'[n].updated_at
    <3>1. m \in DOMAIN rows /\ rows'[m] = rows[m]
      BY <1>1, <1>2, <2>3
    <3>2. CASE n = N
      BY <1>4, <1>6, <3>1, <3>2
    <3>3. CASE n \in DOMAIN rows
      BY <1>0, <1>1, <2>3, <3>1, <3>3 DEF TimeFollowsTheTable, RowsOf
    <3>4. QED
      BY <1>3, <3>2, <3>3
  <2>4. QED
    BY <1>5, <2>1, <2>2, <2>3 DEF TimeFollowsTheTable, RowsOf, Matches
<1>10. QED
  BY <1>8, <1>9

(* The row that is written is the last of its intent, and only gets newer. *)
LEMMA CommitKeepsLineage ==
    ASSUME LineageInv, NEW c \in Caller, Commit(c)
    PROVE  TimeFollowsTheTable' /\ LineageNamesThePredecessor'
<1> DEFINE k == call[c]
           N == k.row
<1>0. /\ LedgerInv /\ TypeOK /\ TimeFollowsTheTable
      /\ LineageNamesThePredecessor /\ CallsAreGated /\ OnlyTheLastBlocks
      /\ call \in [Caller -> Call] /\ now \in Nat
  BY DEF LineageInv, LedgerInv, TypeOK
<1>1. /\ N \in DOMAIN rows
      /\ rows[N].state \in OpenStates
      /\ rows[N].revision = k.expected
      /\ DOMAIN rows' = DOMAIN rows
      /\ rows'[N] = Updated(rows[N], k)
      /\ \A n \in DOMAIN rows : n # N => rows'[n] = rows[n]
  BY <1>0, CommitUpdates
<1>2. /\ Len(rows) \in Nat
      /\ DOMAIN rows = 1 .. Len(rows)
      /\ \A n \in DOMAIN rows : /\ rows[n] \in Reservation
                                 /\ rows[n].updated_at \in Nat
                                 /\ rows[n].revision \in Nat
  BY <1>0, TableIsAFunction DEF Reservation
<1>3. /\ rows'[N].updated_at = k.moment
      /\ rows'[N].revision = k.expected + 1
      /\ k.moment \in Nat
      /\ \A n \in DOMAIN rows :
            /\ rows'[n].intent_key = rows[n].intent_key
            /\ rows'[n].supersedes = rows[n].supersedes
  BY <1>0, <1>1 DEF Updated, Call
<1>4. call' = [call EXCEPT ![c] = NoCall] /\ now' = now + 1 /\ k.row # 0
  BY DEF Commit
<1>5. k.moment <= now /\ rows[N].updated_at <= k.moment
  BY <1>0, <1>1, <1>4 DEF TimeFollowsTheTable, Matches
<1>6. ASSUME NEW n \in DOMAIN rows, rows[n].intent_key = rows[N].intent_key
      PROVE  n <= N
  <2>1. Blocks(rows[N])
    BY <1>1 DEF Blocks
  <2>2. ~(N < n)
    BY <1>0, <1>1, <1>6, <2>1 DEF OnlyTheLastBlocks, RowsOf
  <2>3. QED
    BY <1>1, <1>2, <2>2
<1> HIDE DEF k
<1>7. LineageNamesThePredecessor'
  BY <1>0, <1>1, <1>3 DEF LineageNamesThePredecessor, RowsOf
<1>8. TimeFollowsTheTable'
  <2>1. ASSUME NEW n \in DOMAIN rows' PROVE rows'[n].updated_at < now'
    <3>1. rows[n].updated_at < now
      BY <1>0, <1>1, <2>1 DEF TimeFollowsTheTable
    <3>2. QED
      BY <1>0, <1>1, <1>2, <1>3, <1>4, <1>5, <2>1, <3>1
  <2>2. ASSUME NEW d \in Caller, call'[d].row # 0
        PROVE  /\ call'[d].moment <= now'
               /\ rows'[call'[d].row].revision = call'[d].expected =>
                     rows'[call'[d].row].updated_at <= call'[d].moment
    <3>1. call'[d] = call[d] /\ call[d].row # 0
      BY <1>0, <1>4, <2>2
    <3>2. /\ call[d].row \in DOMAIN rows /\ call[d].moment \in Nat
          /\ call[d].expected \in Nat
          /\ call[d].expected <= rows[call[d].row].revision
          /\ call[d].moment <= now
          /\ rows[call[d].row].revision = call[d].expected =>
                rows[call[d].row].updated_at <= call[d].moment
      BY <1>0, <3>1 DEF CallsAreGated, Call, TimeFollowsTheTable, Matches
    <3>3. CASE call[d].row = N
      (* The row is now ahead of every call gated before. *)
      BY <1>0, <1>1, <1>2, <1>3, <1>4, <3>1, <3>2, <3>3
    <3>4. CASE call[d].row # N
      BY <1>0, <1>1, <1>4, <3>1, <3>2, <3>4
    <3>5. QED
      BY <3>3, <3>4
  <2>3. ASSUME NEW n \in DOMAIN rows', NEW m \in DOMAIN rows',
               rows'[m].intent_key = rows'[n].intent_key, m < n
        PROVE  rows'[m].updated_at < rows'[n].updated_at
    <3>1. rows[m].updated_at < rows[n].updated_at
      BY <1>0, <1>1, <1>3, <2>3 DEF TimeFollowsTheTable, RowsOf
    <3>2. m # N
      BY <1>1, <1>2, <1>3, <1>6, <2>3
    <3>3. CASE n = N
      BY <1>1, <1>2, <1>3, <1>5, <2>3, <3>1, <3>2, <3>3
    <3>4. CASE n # N
      BY <1>1, <2>3, <3>1, <3>2, <3>4
    <3>5. QED
      BY <3>3, <3>4
  <2>4. QED
    BY <2>1, <2>2, <2>3 DEF TimeFollowsTheTable, RowsOf, Matches
<1>9. QED
  BY <1>7, <1>8

LEMMA NextKeepsLineage ==
    ASSUME ClockMayStepBack = FALSE, LineageInv, [Next]_vars
    PROVE  LineageInv'
<1>0. LedgerInv'
  BY NextKeepsInv DEF LineageInv
<1>1. ASSUME NEW c \in Caller, NEW i \in Intent, NEW t \in Ticket,
             NEW v \in Revision, Reserve(c, i, t, v)
      PROVE  LineageInv'
  BY <1>0, <1>1, ReserveKeepsLineage DEF LineageInv
<1>2. ASSUME NEW c \in Caller, Commit(c)
      PROVE  LineageInv'
  BY <1>0, <1>2, CommitKeepsLineage DEF LineageInv
<1>3. ASSUME NEW c \in Caller, NEW n, NEW state, NEW outcome, NEW class,
             Gate(c, n, state, outcome, class)
      PROVE  LineageInv'
  <2> DEFINE k == [row |-> n, expected |-> rows[n].revision, state |-> state,
                   outcome |-> outcome, reexecution_class |-> class,
                   moment |-> now]
  <2>1. /\ n \in DOMAIN rows /\ UNCHANGED <<rows, now>>
        /\ call' = [call EXCEPT ![c] = k]
        /\ call \in [Caller -> Call] /\ now \in Nat
    BY <1>3 DEF Gate, LineageInv, LedgerInv, TypeOK
  <2>2. /\ rows[n].updated_at <= now
        /\ \A d \in Caller : call'[d] = IF d = c THEN k ELSE call[d]
    <3>1. rows[n].updated_at < now /\ rows[n].updated_at \in Nat
      BY <2>1, TableIsAFunction
      DEF LineageInv, TimeFollowsTheTable, LedgerInv, Reservation
    <3>2. QED
      BY <2>1, <3>1
  <2>3. QED
    BY <1>0, <2>1, <2>2
    DEF LineageInv, TimeFollowsTheTable, LineageNamesThePredecessor, Matches,
        RowsOf
<1>4. ASSUME NEW c \in Caller, Abandon(c)
      PROVE  LineageInv'
  <2>1. /\ UNCHANGED <<rows, now>>
        /\ \A d \in Caller : call'[d] = IF d = c THEN NoCall ELSE call[d]
    BY <1>4 DEF Abandon, LineageInv, LedgerInv, TypeOK
  <2>2. QED
    BY <1>0, <2>1
    DEF LineageInv, TimeFollowsTheTable, LineageNamesThePredecessor, Matches,
        RowsOf
<1>5. CASE UNCHANGED vars
  BY <1>0, <1>5
  DEF vars, LineageInv, TimeFollowsTheTable, LineageNamesThePredecessor,
      Matches, RowsOf
<1>6. QED
  BY <1>1, <1>2, <1>3, <1>4, <1>5
  DEF Next, Operation, MarkAttempted, RecordOutcome, StepClockBack

(* As long as the wall clock is not set back, the reference a reattempt    *)
(* records names the execution right before it: the executions of an       *)
(* intent form one chain, whoever made them.                               *)
THEOREM LineageIsAChain ==
    ASSUME ClockMayStepBack = FALSE
    PROVE  Spec => []LineageNamesThePredecessor
<1>1. LineageInv /\ [Next]_vars => LineageInv'
  BY NextKeepsLineage
<1>2. LineageInv => LineageNamesThePredecessor
  BY DEF LineageInv
<1>3. QED
  BY <1>1, <1>2, InitLineageInv, PTL DEF Spec

-----------------------------------------------------------------------------
(* The ledger implements EffectLicense. *)

(* One row of the intent, if any, decides who holds its licence. *)
LEMMA HolderOfBlocked ==
    ASSUME LedgerInv, NEW n \in DOMAIN rows, Blocks(rows[n])
    PROVE  Holder(rows[n].intent_key) =
             IF rows[n].state \in OpenStates THEN "held" ELSE "spent"
<1>1. \A m \in RowsOf(rows[n].intent_key) : Blocks(rows[m]) => m = n
  BY DEF LedgerInv, OneBlockingRowPerIntent, RowsOf
<1>2. n \in RowsOf(rows[n].intent_key)
  BY DEF RowsOf
<1>3. QED
  BY <1>1, <1>2 DEF Holder, BlockingPriors, Blocks

LEMMA HolderOfFree ==
    ASSUME NEW i, BlockingPriors(i) = {}
    PROVE  Holder(i) = "free"
BY DEF Holder, BlockingPriors, Blocks

LEMMA ReserveAcquires ==
    ASSUME LedgerInv, NEW c \in Caller, NEW i \in Intent, NEW t \in Ticket,
           NEW v \in Revision, Reserve(c, i, t, v)
    PROVE  License!Acquire(i, t)
<1> DEFINE Used(j) == {rows[n].ticket_id : n \in RowsOf(j)}
           N == Len(rows) + 1
<1>0. TypeOK /\ LedgerInv'
  BY ReserveKeepsInv DEF LedgerInv
<1>1. PICK p \in Predecessors(i) :
        /\ DOMAIN rows' = 1 .. N
        /\ \A n \in DOMAIN rows : rows'[n] = rows[n]
        /\ rows'[N] = NewRow(c, i, t, v, p)
  BY <1>0, ReserveInserts
<1>2. DOMAIN rows = 1 .. Len(rows) /\ Len(rows) \in Nat
  BY <1>0, TableIsAFunction
<1>3. /\ DOMAIN rows' = DOMAIN rows \cup {N} /\ N \notin DOMAIN rows
      /\ rows'[N].intent_key = i /\ rows'[N].ticket_id = t
      /\ rows'[N].state = "reserved"
  BY <1>1, <1>2 DEF NewRow
<1>4. \A j \in Intent : RowsOf(j)' = RowsOf(j) \cup (IF j = i THEN {N} ELSE {})
  BY <1>1, <1>3 DEF RowsOf
<1>5. Holder(i) = "free" /\ Holder(i)' = "held"
  <2>1. Holder(i) = "free"
    BY HolderOfFree DEF Reserve
  <2>2. N \in RowsOf(i)' /\ rows'[N].state \in OpenStates
    BY <1>3, <1>4 DEF OpenStates
  <2>3. QED
    BY <2>1, <2>2 DEF Holder
<1>6. \A j \in Intent : j # i => Holder(j)' = Holder(j)
  <2>1. ASSUME NEW j \in Intent, j # i
        PROVE  RowsOf(j)' = RowsOf(j)
               /\ \A n \in RowsOf(j) : rows'[n] = rows[n]
    BY <1>1, <1>4, <2>1 DEF RowsOf
  <2>2. QED
    BY <2>1 DEF Holder, BlockingPriors
<1>7. t \notin Used(i)
  BY DEF Reserve, Pair
<1>8. \A j \in Intent : Used(j)' = IF j = i THEN Used(j) \cup {t} ELSE Used(j)
  <2>1. \A j \in Intent : \A n \in RowsOf(j) : rows'[n] = rows[n]
    BY <1>1 DEF RowsOf
  <2>2. QED
    BY <1>3, <1>4, <2>1
<1>9. QED
  BY <1>5, <1>6, <1>7, <1>8 DEF License!Acquire

LEMMA CommitMovesLicense ==
    ASSUME LedgerInv, NEW c \in Caller, Commit(c),
           NEW I \in Intent, I = rows[call[c].row].intent_key
    PROVE  \/ UNCHANGED <<[i \in Intent |-> Holder(i)],
                          [i \in Intent |-> {rows[n].ticket_id : n \in RowsOf(i)}]>>
           \/ \E i \in Intent : License!GiveBack(i) \/ License!Spend(i)
<1> DEFINE Used(j) == {rows[n].ticket_id : n \in RowsOf(j)}
           N == call[c].row
<1>0. TypeOK /\ CallsAreGated /\ LedgerInv'
  BY CommitKeepsInv DEF LedgerInv
<1>1. /\ N \in DOMAIN rows
      /\ rows[N].state \in OpenStates
      /\ call[c].state \in LegalTransitions(rows[N].state)
      /\ DOMAIN rows' = DOMAIN rows
      /\ rows'[N] = Updated(rows[N], call[c])
      /\ \A n \in DOMAIN rows : n # N => rows'[n] = rows[n]
  BY <1>0, CommitUpdates
<1>2. /\ rows'[N].intent_key = I
      /\ rows'[N].ticket_id = rows[N].ticket_id
      /\ rows'[N].state \in {"attempted", "resolved", "unresolved"}
  BY <1>1, StateVocabulary DEF Updated
<1>3. rows[N] \in Reservation /\ rows'[N] \in Reservation
  BY <1>0, <1>1, TableIsAFunction, ElementOfSeq, LenProperties
  DEF LedgerInv, TypeOK
<1>5. \A j \in Intent : /\ RowsOf(j)' = RowsOf(j)
                        /\ Used(j)' = Used(j)
                        /\ j # I => \A n \in RowsOf(j) : rows'[n] = rows[n]
  <2>1. \A j \in Intent : RowsOf(j)' = RowsOf(j)
    BY <1>1, <1>2 DEF RowsOf
  <2>2. \A n \in DOMAIN rows : rows'[n].ticket_id = rows[n].ticket_id
    BY <1>1, <1>2
  <2>3. \A j \in Intent : RowsOf(j) \subseteq DOMAIN rows
    BY DEF RowsOf
  <2>4. \A j \in Intent : Used(j)' = Used(j)
    BY <2>1, <2>2, <2>3
  <2>5. \A j \in Intent : j # I => \A n \in RowsOf(j) : rows'[n] = rows[n]
    BY <1>1 DEF RowsOf
  <2>6. QED
    BY <2>1, <2>4, <2>5
<1>6. \A j \in Intent : j # I => Holder(j)' = Holder(j)
  BY <1>5 DEF Holder, BlockingPriors
<1>7. Holder(I) = "held"
  BY <1>1, HolderOfBlocked DEF Blocks
<1>8. CASE rows'[N].state \in OpenStates
  <2>1. N \in RowsOf(I)
    BY <1>1 DEF RowsOf
  <2>2. Holder(I)' = "held"
    BY <1>1, <1>2, <1>8, <2>1 DEF Holder, RowsOf
  <2>3. \A j \in Intent : Holder(j)' = Holder(j)
    BY <1>6, <1>7, <2>2
  <2>4. QED
    BY <1>5, <2>3
<1>9. CASE rows'[N].state \notin OpenStates /\ Blocks(rows'[N])
  <2>1. \A n \in RowsOf(I)' : n # N => ~Blocks(rows'[n])
    BY <1>0, <1>1, <1>2, <1>9 DEF LedgerInv, OneBlockingRowPerIntent, RowsOf
  <2>2. N \in RowsOf(I)' /\ N \in BlockingPriors(I)'
    BY <1>1, <1>2, <1>9 DEF RowsOf, BlockingPriors
  <2>3. \A n \in RowsOf(I)' : rows'[n].state \notin OpenStates
    BY <1>9, <2>1 DEF Blocks
  <2>4. Holder(I)' = "spent"
    BY <2>2, <2>3 DEF Holder
  <2>5. QED
    BY <1>5, <1>6, <1>7, <2>4 DEF License!Spend
<1>10. CASE ~Blocks(rows'[N])
  <2>1. \A n \in RowsOf(I) : n # N => ~Blocks(rows[n])
    BY <1>1 DEF LedgerInv, OneBlockingRowPerIntent, RowsOf, Blocks
  <2>2. \A n \in RowsOf(I)' : ~Blocks(rows'[n])
    BY <1>1, <1>5, <1>10, <2>1 DEF RowsOf
  <2>3. Holder(I)' = "free"
    BY <2>2 DEF Holder, BlockingPriors, Blocks
  <2>4. QED
    BY <1>5, <1>6, <1>7, <2>3 DEF License!GiveBack
<1>11. QED
  BY <1>8, <1>9, <1>10

(* The licence the ledger grants is EffectLicense's: held by one execution *)
(* at a time, each under a ticket never used for the intent before, handed *)
(* back only on a retryable basis, and never reissued once spent.          *)
THEOREM LedgerImplementsLicense == Spec => LicenseSpec
<1>1. Init => License!LicenseInit
  <2> SUFFICES ASSUME Init PROVE License!LicenseInit
    OBVIOUS
  <2>1. \A i \in Intent : RowsOf(i) = {}
    BY DEF Init, RowsOf
  <2>2. QED
    BY <2>1 DEF License!LicenseInit, Holder, BlockingPriors
<1>2. LedgerInv /\ [Next]_vars => [License!LicenseNext]_(License!licenseVars)
  <2> SUFFICES ASSUME LedgerInv, [Next]_vars
               PROVE  \/ License!LicenseNext
                      \/ UNCHANGED License!licenseVars
    OBVIOUS
  <2>1. CASE UNCHANGED rows
    BY <2>1 DEF License!licenseVars, Holder, BlockingPriors, RowsOf
  <2>2. ASSUME NEW c \in Caller, NEW i \in Intent, NEW t \in Ticket,
               NEW v \in Revision, Reserve(c, i, t, v)
        PROVE  License!LicenseNext
    BY <2>2, ReserveAcquires DEF License!LicenseNext
  <2>3. ASSUME NEW c \in Caller, Commit(c)
        PROVE  License!LicenseNext \/ UNCHANGED License!licenseVars
    <3>1. PICK I \in Intent : I = rows[call[c].row].intent_key
      BY <2>3, CommitUpdates, TableIsAFunction DEF LedgerInv, Reservation
    <3>2. QED
      BY <2>3, <3>1, CommitMovesLicense
      DEF License!LicenseNext, License!licenseVars
  <2>4. QED
    BY <2>1, <2>2, <2>3
    DEF Next, Operation, vars, MarkAttempted, RecordOutcome, Gate, Abandon,
        StepClockBack
<1>3. QED
  BY <1>1, <1>2, LedgerInvariant, PTL DEF Spec, LicenseSpec, License!LicenseSpec
=============================================================================
