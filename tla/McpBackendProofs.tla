-------------------------- MODULE McpBackendProofs --------------------------
(***************************************************************************)
(* Theorems about McpBackend and its audit ledger, for any number of       *)
(* workers, identifiers, tickets, calls, faults and stops, and for every   *)
(* account that may be read.                                               *)
(*                                                                         *)
(* The argument: whoever is past `acquire` holds the lock, so at most one  *)
(* worker is between its refresh and its release.  The refresh sees every  *)
(* record that was accepted, for each is whole in the synced part of the   *)
(* file, which nothing ever takes away; so an identifier that passed the   *)
(* duplicate check differs from all accepted ones, and stays so until its  *)
(* record is accepted, although other handles may append what they failed  *)
(* to write (a closing handle flushes without the lock).                   *)
(***************************************************************************)
EXTENDS McpBackend, WorkspaceCollectionProofs, SequenceTheorems, TLAPS

-----------------------------------------------------------------------------
(* Types. *)

AboutSet == {Plain} \cup [ticket : Ticket, status : {"pending", "granted", "denied"}]

RecordSet ==
    [id : Id, shape : Shape, by : Worker, call : Nat, left : Nat, about : AboutSet]

ChunkSet == [record : RecordSet, part : {"line", "head", "text", "rest", "newline"}]

UnderLock == {"refresh", "append", "sync", "release"}
StepSet == {"idle", "acquire"} \cup UnderLock

WriteSet ==
    [step : StepSet, record : RecordSet \cup {NoRecord},
     result : {"none", "ok", "error"}]

CallSet ==
    [n : Nat, owed : Seq(AboutSet), written : SUBSET RecordSet, busy : BOOLEAN,
     fails : BOOLEAN]

BackendTypeOK ==
    /\ file \in Seq(ChunkSet)
    /\ synced \in Nat /\ synced <= Len(file)
    /\ lock \in Worker \cup {"none"}
    /\ handle \in [Worker -> [open : BOOLEAN, buffer : Seq(ChunkSet)]]
    /\ write \in [Worker -> WriteSet]
    /\ tickets \in [Ticket -> {"absent", "pending", "granted", "denied"}]
    /\ call \in [Worker -> CallSet]
    /\ answered \in SUBSET RecordSet

-----------------------------------------------------------------------------
(* The invariant. *)

OnlyTheHolderIsUnderLock ==
    \A w \in Worker : write[w].step \in UnderLock => lock = w

(* What a call has written, against the write under way. *)
CallMatchesWrite(w) ==
    /\ write[w].step \in {"acquire", "refresh", "append", "sync"} =>
          write[w].result = "none" /\ write[w].record \in RecordSet
    /\ write[w].step = "release" => write[w].result # "none"
    /\ write[w].step = "idle" /\ write[w].result = "none" => call[w].written = {}
    /\ ~call[w].busy => write[w] = Quiet /\ call[w].written = {}
    /\ \A r \in call[w].written : r.left > Len(call[w].owed)

(* The records of the call of w that the store has accepted so far. *)
AcceptedOf(w) ==
    CASE write[w].result = "ok" -> call[w].written
      [] write[w].result = "none" -> call[w].written \ {write[w].record}
      [] write[w].result = "error" -> {}

Accepted(r) == r \in answered \/ \E w \in Worker : r \in AcceptedOf(w)

AcceptedAreOnDisk == \A r \in RecordSet : Accepted(r) => Recorded(r)

AcceptedAreUnique ==
    \A r, s \in RecordSet : Accepted(r) /\ Accepted(s) /\ r.id = s.id => r = s

(* What passed the duplicate check is new. *)
CheckedIsNew ==
    \A w \in Worker : write[w].step \in {"append", "sync"} =>
        \A r \in RecordSet : Accepted(r) => r.id # write[w].record.id

AppendedIsThere ==
    \A w \in Worker : write[w].step = "sync" =>
        \E i \in 1 .. Len(file) : file[i] = Chunk(write[w].record, "line")

LedgerInv ==
    /\ OnlyTheHolderIsUnderLock
    /\ \A w \in Worker : CallMatchesWrite(w)
    /\ AcceptedAreOnDisk
    /\ AcceptedAreUnique
    /\ CheckedIsNew
    /\ AppendedIsThere

(* Nothing that is on file, in a buffer, being written or owed says of a   *)
(* ticket what did not happen to it.                                       *)
Says(moved, about) ==
    about # Plain =>
        \/ moved[about.ticket] = about.status
        \/ about.status = "pending" /\ moved[about.ticket] # "absent"

RecordsAreTrue ==
    /\ \A i \in 1 .. Len(file) : Says(tickets, file[i].record.about)
    /\ \A w \in Worker :
          /\ \A i \in 1 .. Len(handle[w].buffer) : Says(tickets, handle[w].buffer[i].record.about)
          /\ write[w].record \in RecordSet => Says(tickets, write[w].record.about)
          /\ \A j \in 1 .. Len(call[w].owed) : Says(tickets, call[w].owed[j])

BackendInv == BackendTypeOK /\ LedgerInv /\ RecordsAreTrue

-----------------------------------------------------------------------------
(* Types are kept. *)

(* A call that was just taken owes records and has written none. *)
LEMMA PlainTypes ==
    /\ Plain \in AboutSet
    /\ \A n \in Nat : Records(n) \in Seq(AboutSet)
    /\ \A n \in Nat : \A j \in 1 .. Len(Records(n)) : Records(n)[j] = Plain
BY DEF Plain, AboutSet, Records, About

(* Whatever may be said of a ticket is in AboutSet. *)
LEMMA Members ==
    ASSUME BackendTypeOK
    PROVE  /\ \A i \in 1 .. Len(file) :
                 file[i] \in ChunkSet /\ file[i].record \in RecordSet /\ file[i].record.about \in AboutSet
           /\ \A w \in Worker : \A i \in 1 .. Len(handle[w].buffer) :
                 handle[w].buffer[i].record.about \in AboutSet
           /\ \A w \in Worker : write[w].record \in RecordSet => write[w].record.about \in AboutSet
           /\ \A w \in Worker : call[w].owed \in Seq(AboutSet)
           /\ \A w \in Worker : \A j \in 1 .. Len(call[w].owed) : call[w].owed[j] \in AboutSet
<1>1. \A c \in ChunkSet : c.record \in RecordSet /\ c.record.about \in AboutSet
  BY DEF ChunkSet, RecordSet
<1>2. \A r \in RecordSet : r.about \in AboutSet
  BY DEF RecordSet
<1>3. \A w \in Worker : handle[w].buffer \in Seq(ChunkSet)
  BY DEF BackendTypeOK
<1>4. \A w \in Worker : call[w].owed \in Seq(AboutSet)
  BY DEF BackendTypeOK, CallSet
<1>5. file \in Seq(ChunkSet)
  BY DEF BackendTypeOK
<1> QED BY <1>1, <1>2, <1>3, <1>4, <1>5, ElementOfSeq

(* What every way to take a call has in common. *)
NewCallOf(w, c) ==
    /\ handle[w].open /\ ~call[w].busy
    /\ call' = [call EXCEPT ![w] = c]
    /\ c \in CallSet /\ c.written = {}
    /\ \A j \in 1 .. Len(c.owed) : Says(tickets', c.owed[j])
    /\ tickets' \in [Ticket -> {"absent", "pending", "granted", "denied"}]
    /\ \A about \in AboutSet : Says(tickets, about) => Says(tickets', about)
    /\ UNCHANGED <<ledgerVars, answered>>

LEMMA TakeIsNewCall ==
    ASSUME BackendTypeOK, NEW w \in Worker, NEW owed \in Seq(AboutSet), NEW fails \in BOOLEAN,
           Take(w, owed, fails),
           \A j \in 1 .. Len(owed) : Says(tickets', owed[j]),
           tickets' \in [Ticket -> {"absent", "pending", "granted", "denied"}],
           \A about \in AboutSet : Says(tickets, about) => Says(tickets', about)
    PROVE  \E c : NewCallOf(w, c)
<1> DEFINE c == [n |-> call[w].n + 1, owed |-> owed, written |-> {}, busy |-> TRUE, fails |-> fails]
<1>1. c \in CallSet
  BY DEF CallSet, BackendTypeOK
<1>2. NewCallOf(w, c)
  BY <1>1 DEF NewCallOf, Take, Answered
<1> QED BY <1>2

LEMMA RefuseIsNewCall ==
    ASSUME BackendTypeOK, NEW w \in Worker, Refuse(w)
    PROVE  \E c : NewCallOf(w, c)
<1> DEFINE c == Idle(call[w].n + 1)
<1>1. c \in CallSet /\ c.written = {} /\ c.owed = <<>>
  BY DEF CallSet, BackendTypeOK, Idle
<1>2. \A about \in AboutSet : Says(tickets, about) => Says(tickets', about)
  BY DEF Refuse
<1>3. NewCallOf(w, c)
  BY <1>1, <1>2 DEF NewCallOf, Refuse, Answered, BackendTypeOK
<1> QED BY <1>3

(* A ticket that moves keeps what was said of it true. *)
LEMMA TicketMoves ==
    ASSUME BackendTypeOK, NEW t \in Ticket, NEW status \in {"pending", "granted", "denied"},
           \/ tickets[t] = "absent" /\ status = "pending"
           \/ tickets[t] = "pending" /\ status # "pending",
           tickets' = [tickets EXCEPT ![t] = status]
    PROVE  /\ tickets' \in [Ticket -> {"absent", "pending", "granted", "denied"}]
           /\ \A about \in AboutSet : Says(tickets, about) => Says(tickets', about)
           /\ Says(tickets', About(t, status))
           /\ About(t, status) \in AboutSet
<1>1. tickets' \in [Ticket -> {"absent", "pending", "granted", "denied"}]
  BY DEF BackendTypeOK
<1>2. \A about \in AboutSet : Says(tickets, about) => Says(tickets', about)
  BY DEF BackendTypeOK, AboutSet, Says
<1>3. tickets'[t] = status
  BY DEF BackendTypeOK
<1>4. Says(tickets', About(t, status)) /\ About(t, status) \in AboutSet
  BY <1>3 DEF About, Says, AboutSet
<1> QED BY <1>1, <1>2, <1>4

LEMMA NewCallIsNewCall ==
    ASSUME BackendTypeOK, NEW w \in Worker, NewCall(w)
    PROVE  \E c : NewCallOf(w, c)
<1> DEFINE Same == UNCHANGED tickets
<1>1. Says(tickets', Plain)
  BY DEF Says
<1>2. ASSUME UNCHANGED tickets
      PROVE  /\ tickets' \in [Ticket -> {"absent", "pending", "granted", "denied"}]
             /\ \A about \in AboutSet : Says(tickets, about) => Says(tickets', about)
  BY <1>2 DEF BackendTypeOK
<1>3. ASSUME NEW n \in Nat, NEW fails \in BOOLEAN, Take(w, Records(n), fails), UNCHANGED tickets
      PROVE  \E c : NewCallOf(w, c)
  BY <1>1, <1>2, <1>3, PlainTypes, TakeIsNewCall
<1>4. CASE ReadOnly(w)
  <2>1. Take(w, <<>>, FALSE) /\ UNCHANGED tickets
    BY <1>4 DEF ReadOnly
  <2> DEFINE none == <<>>
  <2>2. none \in Seq(AboutSet) /\ \A j \in 1 .. Len(none) : Says(tickets', none[j])
    OBVIOUS
  <2>3. Take(w, none, FALSE)
    BY <2>1
  <2> HIDE DEF none
  <2> QED BY <2>1, <2>2, <2>3, <1>2, TakeIsNewCall
<1>5. CASE CollectWorkspace(w)
  BY <1>3, <1>5 DEF CollectWorkspace
<1>6. CASE Report(w)
  BY <1>3, <1>6 DEF Report
<1>7. CASE CollectionRaises(w)
  BY <1>7, RefuseIsNewCall DEF CollectionRaises
<1>8. ASSUME NEW t \in Ticket, NEW action \in Actions, RequestApproval(w, t, action)
      PROVE  \E c : NewCallOf(w, c)
  <2>1. CASE OpensTicket(action, Mode)
    <3> DEFINE owed == <<About(t, "pending"), About(t, "pending")>>
    <3>1. tickets[t] = "absent" /\ tickets' = [tickets EXCEPT ![t] = "pending"]
          /\ Take(w, owed, FALSE)
      BY <1>8, <2>1 DEF RequestApproval
    <3>2. About(t, "pending") \in AboutSet /\ Says(tickets', About(t, "pending"))
      BY <3>1, TicketMoves
    <3>3. owed \in Seq(AboutSet) /\ Len(owed) = 2
      BY <3>2, PlainTypes
    <3>4. \A j \in 1 .. Len(owed) : Says(tickets', owed[j])
      <4>1. owed[1] = About(t, "pending") /\ owed[2] = About(t, "pending")
        OBVIOUS
      <4>2. (owed[1])' = About(t, "pending")' /\ (owed[2])' = About(t, "pending")'
        OBVIOUS
      <4> QED BY <4>1, <4>2, <3>2, <3>3 DEF Says
    <3> HIDE DEF owed
    <3> QED BY <3>1, <3>3, <3>4, TicketMoves, TakeIsNewCall
  <2>2. CASE ~OpensTicket(action, Mode)
    <3>1. Take(w, Records(1), FALSE) /\ UNCHANGED tickets
      BY <1>8, <2>2 DEF RequestApproval
    <3> QED BY <3>1, <1>3
  <2> QED BY <2>1, <2>2
<1>9. ASSUME NEW t \in Ticket, NEW decision \in {"granted", "denied"}, DecideTicket(w, t, decision)
      PROVE  \E c : NewCallOf(w, c)
  <2>1. CASE tickets[t] = "pending"
    <3> DEFINE owed == <<About(t, decision)>>
    <3>1. tickets' = [tickets EXCEPT ![t] = decision] /\ Take(w, owed, FALSE)
      BY <1>9, <2>1 DEF DecideTicket
    <3>2. About(t, decision) \in AboutSet /\ Says(tickets', About(t, decision))
      BY <2>1, <3>1, TicketMoves
    <3>3. owed \in Seq(AboutSet) /\ Len(owed) = 1
      BY <3>2
    <3>4. \A j \in 1 .. Len(owed) : Says(tickets', owed[j])
      BY <3>2, <3>3 DEF Says
    <3> HIDE DEF owed
    <3> QED BY <2>1, <3>1, <3>3, <3>4, TicketMoves, TakeIsNewCall
  <2>2. CASE tickets[t] # "pending"
    BY <1>9, <2>2, RefuseIsNewCall DEF DecideTicket
  <2> QED BY <2>1, <2>2
<1> QED BY <1>4, <1>5, <1>6, <1>7, <1>8, <1>9 DEF NewCall

-----------------------------------------------------------------------------
(* Steps that accept nothing new. *)

(* The synced part of the file stays. *)
Keeps ==
    /\ synced <= synced'
    /\ \A i \in 1 .. synced : file'[i] = file[i]

LEMMA RecordedStays ==
    ASSUME BackendTypeOK, BackendTypeOK', Keeps, NEW r, Recorded(r)
    PROVE  Recorded(r)'
<1>1. PICK i \in 1 .. synced : file[i] = Chunk(r, "line")
  BY DEF Recorded
<1>2. synced \in Nat /\ synced' \in Nat /\ synced <= synced' /\ file'[i] = file[i]
  BY DEF BackendTypeOK, Keeps
<1>3. i \in 1 .. synced' /\ file'[i] = Chunk(r, "line")
  BY <1>1, <1>2
<1>4. \E n \in 1 .. synced' : file'[n] = Chunk(r, "line")
  BY <1>3
<1> QED BY <1>4 DEF Recorded, Chunk

(* If nothing new is accepted, nothing enters `append` or `sync` anew, and *)
(* what was appended is there, then the facts about accepted records stay. *)
LEMMA Frame ==
    ASSUME BackendTypeOK, BackendTypeOK', LedgerInv, Keeps,
           \A r \in RecordSet : Accepted(r)' => Accepted(r),
           OnlyTheHolderIsUnderLock',
           \A w \in Worker : CallMatchesWrite(w)',
           \A w \in Worker : write'[w].step \in {"append", "sync"} =>
               write[w].step \in {"append", "sync"} /\ write'[w].record = write[w].record,
           AppendedIsThere'
    PROVE  LedgerInv'
<1>1. AcceptedAreOnDisk'
  BY RecordedStays DEF LedgerInv, AcceptedAreOnDisk
<1>2. AcceptedAreUnique'
  BY DEF LedgerInv, AcceptedAreUnique
<1>3. CheckedIsNew'
  BY DEF LedgerInv, CheckedIsNew
<1> QED BY <1>1, <1>2, <1>3 DEF LedgerInv

(* Appending chunks to the file keeps what is synced, and what is there.   *)
LEMMA Appending ==
    ASSUME BackendTypeOK, NEW more \in Seq(ChunkSet), file' = file \o more, synced' = synced
    PROVE  /\ file' \in Seq(ChunkSet)
           /\ Len(file') = Len(file) + Len(more)
           /\ \A i \in 1 .. Len(file) : file'[i] = file[i]
           /\ \A i \in 1 .. Len(more) : file'[Len(file) + i] = more[i]
           /\ \A i \in 1 .. Len(file') :
                 i > Len(file) => i - Len(file) \in 1 .. Len(more) /\ file'[i] = more[i - Len(file)]
           /\ synced' <= Len(file')
           /\ Keeps
<1>1. file' \in Seq(ChunkSet) /\ Len(file') = Len(file) + Len(more)
  BY ConcatProperties DEF BackendTypeOK
<1>2. \A i \in 1 .. Len(file') :
          file'[i] = IF i <= Len(file) THEN file[i] ELSE more[i - Len(file)]
  BY ConcatProperties DEF BackendTypeOK
<1>3. Len(file) \in Nat /\ Len(more) \in Nat
  BY DEF BackendTypeOK
<1>4. /\ \A i \in 1 .. Len(file) : file'[i] = file[i]
      /\ \A i \in 1 .. Len(more) : file'[Len(file) + i] = more[i]
      /\ \A i \in 1 .. Len(file') :
            i > Len(file) => i - Len(file) \in 1 .. Len(more) /\ file'[i] = more[i - Len(file)]
  BY <1>1, <1>2, <1>3
<1>5. synced' <= Len(file') /\ Keeps
  BY <1>1, <1>3, <1>4 DEF BackendTypeOK, Keeps
<1> QED BY <1>1, <1>4, <1>5

LEMMA NewCallPreserves ==
    ASSUME BackendInv, NEW w \in Worker, NewCall(w)
    PROVE  BackendInv'
<1> PICK c : NewCallOf(w, c)
  BY NewCallIsNewCall DEF BackendInv
<1> USE DEF BackendInv
<1>1. BackendTypeOK'
  BY DEF NewCallOf, ledgerVars, BackendTypeOK
<1>2. /\ UNCHANGED <<file, synced, lock, handle, write, answered>>
      /\ call' \in [Worker -> CallSet] /\ call'[w] = c
      /\ \A v \in Worker \ {w} : call'[v] = call[v]
      /\ write[w] = Quiet /\ c.written = {}
  BY DEF NewCallOf, ledgerVars, BackendTypeOK, LedgerInv, CallMatchesWrite
<1>3. LedgerInv'
  <2>1. \A r \in RecordSet : Accepted(r)' => Accepted(r)
    <3>1. \A v \in Worker \ {w} : AcceptedOf(v)' = AcceptedOf(v)
      BY <1>2 DEF AcceptedOf
    <3>2. AcceptedOf(w)' = {}
      BY <1>2 DEF AcceptedOf, Quiet
    <3> QED BY <1>2, <3>1, <3>2 DEF Accepted
  <2>2. \A v \in Worker : CallMatchesWrite(v)'
    BY <1>2 DEF LedgerInv, CallMatchesWrite, Quiet
  <2>3. OnlyTheHolderIsUnderLock' /\ AppendedIsThere'
    BY <1>2 DEF LedgerInv, OnlyTheHolderIsUnderLock, AppendedIsThere, Chunk
  <2>4. Keeps
    BY <1>2 DEF Keeps, BackendTypeOK
  <2> QED BY <1>1, <1>2, <2>1, <2>2, <2>3, <2>4, Frame
<1>4. RecordsAreTrue'
  <2>1. \A about \in AboutSet : Says(tickets, about) => Says(tickets', about)
    BY DEF NewCallOf
  <2>2. \A i \in 1 .. Len(file') : Says(tickets', file'[i].record.about)
    BY <1>2, <2>1, Members DEF RecordsAreTrue
  <2>3. ASSUME NEW v \in Worker
        PROVE  \A i \in 1 .. Len(handle'[v].buffer) : Says(tickets', handle'[v].buffer[i].record.about)
    BY <1>2, <2>1, Members DEF RecordsAreTrue
  <2>4. ASSUME NEW v \in Worker, write'[v].record \in RecordSet
        PROVE  Says(tickets', write'[v].record.about)
    BY <1>2, <2>1, <2>4, Members DEF RecordsAreTrue
  <2>5. ASSUME NEW v \in Worker, NEW j \in 1 .. Len(call'[v].owed)
        PROVE  Says(tickets', call'[v].owed[j])
    <3>1. CASE v = w
      BY <1>2, <3>1 DEF NewCallOf, Says
    <3>2. CASE v # w
      BY <1>2, <2>1, <3>2, Members DEF RecordsAreTrue
    <3> QED BY <3>1, <3>2
  <2> QED BY <2>2, <2>3, <2>4, <2>5 DEF RecordsAreTrue
<1> QED BY <1>1, <1>3, <1>4

LEMMA CallType ==
    ASSUME NEW n \in Nat, NEW owed \in Seq(AboutSet), NEW written \in SUBSET RecordSet,
           NEW busy \in BOOLEAN, NEW fails \in BOOLEAN
    PROVE  [n |-> n, owed |-> owed, written |-> written, busy |-> busy, fails |-> fails]
               \in CallSet
BY DEF CallSet

LEMMA WriteType ==
    ASSUME NEW step \in StepSet, NEW r \in RecordSet, NEW result \in {"none", "ok", "error"}
    PROVE  [step |-> step, record |-> r, result |-> result] \in WriteSet
BY DEF WriteSet

LEMMA StepNames ==
    /\ "idle" \in StepSet /\ "acquire" \in StepSet /\ "refresh" \in StepSet
    /\ "append" \in StepSet /\ "sync" \in StepSet /\ "release" \in StepSet
BY DEF StepSet, UnderLock

(* StartWrite of one record that the call owes, or its refusal. *)
LEMMA AuditPreserves ==
    ASSUME BackendInv, NEW w \in Worker, Audit(w)
    PROVE  BackendInv'
<1> USE DEF BackendInv
<1> PICK id \in Id, shape \in Shape :
        LET r == Record(w, Head(call[w].owed), id, shape)
        IN  /\ StartWrite(w, r)
            /\ call' = [call EXCEPT ![w].owed = Tail(@), ![w].written = @ \cup {r}]
  BY DEF Audit
<1> DEFINE r == Record(w, Head(call[w].owed), id, shape)
<1>1. /\ call[w].busy /\ write[w].step = "idle" /\ write[w].result # "error"
      /\ call[w].owed # <<>> /\ call[w].owed \in Seq(AboutSet)
      /\ UNCHANGED <<file, synced, lock, handle, tickets, answered>>
  BY DEF Audit, Answered, BackendTypeOK, CallSet
<1>2. /\ Head(call[w].owed) \in AboutSet /\ Head(call[w].owed) = call[w].owed[1]
      /\ Tail(call[w].owed) \in Seq(AboutSet)
      /\ Len(Tail(call[w].owed)) = Len(call[w].owed) - 1
      /\ Len(call[w].owed) \in Nat \ {0}
      /\ \A j \in 1 .. Len(Tail(call[w].owed)) :
            j + 1 \in 1 .. Len(call[w].owed) /\ Tail(call[w].owed)[j] = call[w].owed[j + 1]
  BY <1>1, HeadTailProperties
<1>3. /\ r \in RecordSet /\ r.left = Len(call[w].owed) /\ r.about = Head(call[w].owed)
      /\ r \notin call[w].written
  BY <1>2 DEF Record, RecordSet, BackendTypeOK, CallSet, LedgerInv, CallMatchesWrite
<1> HIDE DEF r
<1>8. \A v \in Worker \ {w} : call'[v] = call[v] /\ write'[v] = write[v]
  BY DEF StartWrite, BackendTypeOK
<1>9. call'[w] \in CallSet
  <2>1. call[w] \in CallSet
    BY DEF BackendTypeOK
  <2>2. call'[w] = [call[w] EXCEPT !.owed = Tail(@), !.written = @ \cup {r}]
    BY DEF BackendTypeOK, r
  <2>3. call[w].written \cup {r} \in SUBSET RecordSet
    BY <2>1, <1>3 DEF CallSet
  <2>4. call'[w] = [n |-> call[w].n, owed |-> Tail(call[w].owed),
                    written |-> call[w].written \cup {r},
                    busy |-> call[w].busy, fails |-> call[w].fails]
    <3> DEFINE k == call[w]
    <3>1. k \in CallSet /\ call'[w] = [k EXCEPT !.owed = Tail(@), !.written = @ \cup {r}]
      BY <2>1, <2>2
    <3> HIDE DEF k
    <3>2. call'[w] = [n |-> k.n, owed |-> Tail(k.owed), written |-> k.written \cup {r},
                      busy |-> k.busy, fails |-> k.fails]
      BY ONLY <3>1 DEF CallSet
    <3> QED BY <3>2 DEF k
  <2>5. call[w].n \in Nat /\ call[w].busy \in BOOLEAN /\ call[w].fails \in BOOLEAN
    BY <2>1 DEF CallSet
  <2>6. Tail(call[w].owed) \in Seq(AboutSet)
    BY <1>2
  <2>7. [n |-> call[w].n, owed |-> Tail(call[w].owed), written |-> call[w].written \cup {r},
         busy |-> call[w].busy, fails |-> call[w].fails] \in CallSet
    BY <2>3, <2>5, <2>6, CallType
  <2> QED BY <2>4, <2>7
<1>4. /\ call'[w].owed = Tail(call[w].owed)
      /\ call'[w].written = call[w].written \cup {r}
      /\ call'[w].busy
      /\ write'[w].record = r
      /\ \/ write'[w].step = "acquire" /\ write'[w].result = "none"
         \/ write'[w].step = "idle" /\ write'[w].result = "error"
  BY <1>1 DEF StartWrite, BackendTypeOK, CallSet, WriteSet, r
<1>5. BackendTypeOK'
  <2>1. call' \in [Worker -> CallSet]
    BY <1>9 DEF BackendTypeOK, r
  <2>2. write' \in [Worker -> WriteSet]
    <3>1. /\ [step |-> "acquire", record |-> r, result |-> "none"] \in WriteSet
          /\ [step |-> "idle", record |-> r, result |-> "error"] \in WriteSet
      BY <1>3, WriteType, StepNames
    <3> QED BY <3>1 DEF BackendTypeOK, StartWrite, r
  <2> QED BY <1>1, <2>1, <2>2 DEF BackendTypeOK
<1>6. LedgerInv'
  <2>1. \A s \in RecordSet : Accepted(s)' => Accepted(s)
    <3>1. \A v \in Worker \ {w} : AcceptedOf(v)' = AcceptedOf(v)
      BY <1>8 DEF AcceptedOf
    <3>2. AcceptedOf(w)' \subseteq AcceptedOf(w)
      BY <1>1, <1>3, <1>4 DEF AcceptedOf, BackendTypeOK, WriteSet, LedgerInv, CallMatchesWrite
    <3> QED BY <1>1, <3>1, <3>2 DEF Accepted
  <2>2. \A v \in Worker : CallMatchesWrite(v)'
    <3>1. CallMatchesWrite(w)'
      <4>1. \A s \in call[w].written : s.left > Len(call[w].owed)
        BY DEF LedgerInv, CallMatchesWrite
      <4>2. /\ Len(call'[w].owed) = Len(call[w].owed) - 1 /\ Len(call[w].owed) \in Nat
            /\ r.left = Len(call[w].owed)
        BY <1>2, <1>3, <1>4
      <4>3. \A s \in call[w].written : s.left \in Nat
        BY DEF BackendTypeOK, CallSet, RecordSet
      <4>4. \A s \in call'[w].written : s.left > Len(call'[w].owed)
        <5>1. ASSUME NEW s \in call'[w].written
              PROVE  s.left > Len(call'[w].owed)
          <6>1. CASE s = r
            BY <4>2, <6>1
          <6>2. CASE s \in call[w].written
            <7>1. s.left \in Nat /\ s.left > Len(call[w].owed)
              BY <4>1, <4>3, <6>2
            <7> QED BY <4>2, <7>1
          <6> QED BY <1>4, <6>1, <6>2
        <5> QED BY <5>1
      <4> QED BY <1>3, <1>4, <4>4 DEF CallMatchesWrite
    <3>2. \A v \in Worker \ {w} : CallMatchesWrite(v)'
      BY <1>8 DEF LedgerInv, CallMatchesWrite
    <3> QED BY <3>1, <3>2
  <2>3. OnlyTheHolderIsUnderLock'
    BY <1>1, <1>4, <1>8 DEF LedgerInv, OnlyTheHolderIsUnderLock, UnderLock
  <2>6. AppendedIsThere'
    <3>1. ASSUME NEW v \in Worker, write'[v].step = "sync"
          PROVE  v # w /\ write'[v] = write[v]
      BY <1>4, <1>8, <3>1
    <3> QED BY <1>1, <3>1 DEF LedgerInv, AppendedIsThere, Chunk
  <2>5. Keeps
    BY <1>1 DEF Keeps, BackendTypeOK
  <2>4. \A v \in Worker : write'[v].step \in {"append", "sync"} =>
            write[v].step \in {"append", "sync"} /\ write'[v].record = write[v].record
    BY <1>4, <1>8
  <2> QED BY <1>5, <2>1, <2>2, <2>3, <2>4, <2>5, <2>6, Frame
<1>7. RecordsAreTrue'
  <2>1. /\ \A i \in 1 .. Len(file') : Says(tickets', file'[i].record.about)
        /\ \A v \in Worker : \A i \in 1 .. Len(handle'[v].buffer) :
              Says(tickets', handle'[v].buffer[i].record.about)
    BY <1>1 DEF RecordsAreTrue
  <2>2. ASSUME NEW v \in Worker
        PROVE  write'[v].record \in RecordSet => Says(tickets', write'[v].record.about)
    <3>1. CASE v = w
      BY <1>1, <1>2, <1>3, <1>4, <3>1 DEF RecordsAreTrue
    <3>2. CASE v # w
      BY <1>1, <1>8, <3>2 DEF RecordsAreTrue
    <3> QED BY <3>1, <3>2
  <2>3. ASSUME NEW v \in Worker, NEW j \in 1 .. Len(call'[v].owed)
        PROVE  Says(tickets', call'[v].owed[j])
    <3>1. CASE v = w
      <4>1. j + 1 \in 1 .. Len(call[w].owed) /\ call'[v].owed[j] = call[w].owed[j + 1]
        BY <1>2, <1>4, <3>1
      <4> QED BY <4>1, <1>1 DEF RecordsAreTrue
    <3>2. CASE v # w
      BY <1>1, <1>8, <3>2 DEF RecordsAreTrue
    <3> QED BY <3>1, <3>2
  <2> QED BY <2>1, <2>2, <2>3 DEF RecordsAreTrue
<1> QED BY <1>5, <1>6, <1>7

-----------------------------------------------------------------------------
(* Steps of the ledger. *)

(* What a step of one writer does, if it accepts nothing: it may append    *)
(* chunks and change buffers, and moves its own write on.                  *)
LEMMA WriterStep ==
    ASSUME BackendInv, NEW w \in Worker, NEW x \in WriteSet, NEW more \in Seq(ChunkSet),
           write' = [write EXCEPT ![w] = x], x.record = write[w].record,
           file' = file \o more,
           \A i \in 1 .. Len(more) : Says(tickets, more[i].record.about),
           handle' \in [Worker -> [open : BOOLEAN, buffer : Seq(ChunkSet)]],
           \A v \in Worker : \A i \in 1 .. Len(handle'[v].buffer) :
               Says(tickets, handle'[v].buffer[i].record.about),
           lock' \in Worker \cup {"none"},
           UNCHANGED <<synced, tickets, call, answered>>,
           OnlyTheHolderIsUnderLock',
           CallMatchesWrite(w)',
           AcceptedOf(w)' \subseteq AcceptedOf(w),
           x.step = "append" =>
               \A r \in RecordSet : Accepted(r) => r.id # x.record.id,
           x.step = "sync" =>
               write[w].step = "append" /\ more = <<Chunk(x.record, "line")>>
    PROVE  BackendInv'
<1> USE DEF BackendInv
<1>1. /\ write'[w] = x /\ write' \in [Worker -> WriteSet]
      /\ \A v \in Worker \ {w} : write'[v] = write[v]
  BY DEF BackendTypeOK
<1>2. /\ file' \in Seq(ChunkSet) /\ synced' <= Len(file') /\ Keeps
      /\ Len(file') = Len(file) + Len(more) /\ Len(file) \in Nat
      /\ \A i \in 1 .. Len(file) : file'[i] = file[i]
      /\ \A i \in 1 .. Len(more) : file'[Len(file) + i] = more[i]
      /\ \A i \in 1 .. Len(file') :
            i > Len(file) => i - Len(file) \in 1 .. Len(more) /\ file'[i] = more[i - Len(file)]
  <2>1. synced' = synced /\ file' = file \o more /\ BackendTypeOK /\ Len(file) \in Nat
    BY DEF BackendTypeOK
  <2> HIDE DEF BackendInv
  <2> QED BY <2>1, Appending
<1>3. BackendTypeOK'
  BY <1>1, <1>2 DEF BackendTypeOK
<1>4. \A r \in RecordSet : Accepted(r)' => Accepted(r)
  <2>1. \A v \in Worker \ {w} : AcceptedOf(v)' = AcceptedOf(v)
    BY <1>1 DEF AcceptedOf
  <2> QED BY <2>1 DEF Accepted
<1>5. AcceptedAreOnDisk'
  BY <1>2, <1>3, <1>4, RecordedStays DEF LedgerInv, AcceptedAreOnDisk
<1>6. AcceptedAreUnique'
  BY <1>4 DEF LedgerInv, AcceptedAreUnique
<1>7. CheckedIsNew'
  <2>1. ASSUME NEW v \in Worker, write'[v].step \in {"append", "sync"}
        PROVE  \A r \in RecordSet : Accepted(r) => r.id # write'[v].record.id
    <3>1. CASE v # w
      BY <1>1, <2>1, <3>1 DEF LedgerInv, CheckedIsNew
    <3>2. CASE v = w
      BY <1>1, <2>1, <3>2 DEF LedgerInv, CheckedIsNew
    <3> QED BY <3>1, <3>2
  <2> QED BY <1>4, <2>1 DEF CheckedIsNew
<1>8. AppendedIsThere'
  <2>1. ASSUME NEW v \in Worker, write'[v].step = "sync"
        PROVE  \E i \in 1 .. Len(file') : file'[i] = Chunk(write'[v].record, "line")
    <3>1. CASE v # w
      <4>1. PICK i \in 1 .. Len(file) : file[i] = Chunk(write[v].record, "line")
        BY <1>1, <2>1, <3>1 DEF LedgerInv, AppendedIsThere
      <4>2. i \in 1 .. Len(file') /\ file'[i] = Chunk(write'[v].record, "line")
        BY <1>1, <1>2, <3>1, <4>1
      <4> QED BY <4>2
    <3>2. CASE v = w
      <4>1. Len(more) = 1 /\ more[1] = Chunk(x.record, "line")
        BY <1>1, <2>1, <3>2
      <4>2. Len(file) + 1 \in 1 .. Len(file') /\ file'[Len(file) + 1] = more[1]
        BY <1>2, <4>1
      <4> QED BY <1>1, <3>2, <4>1, <4>2
    <3> QED BY <3>1, <3>2
  <2> QED BY <2>1 DEF AppendedIsThere
<1>9. \A v \in Worker : CallMatchesWrite(v)'
  <2>1. \A v \in Worker \ {w} : CallMatchesWrite(v)'
    BY <1>1 DEF LedgerInv, CallMatchesWrite
  <2> QED BY <2>1
<1>10. LedgerInv'
  BY <1>5, <1>6, <1>7, <1>8, <1>9 DEF LedgerInv
<1>11. RecordsAreTrue'
  <2>1. \A i \in 1 .. Len(file') : Says(tickets', file'[i].record.about)
    <3>1. ASSUME NEW i \in 1 .. Len(file')
          PROVE  Says(tickets, file'[i].record.about)
      <4>1. CASE i <= Len(file)
        BY <1>2, <4>1 DEF RecordsAreTrue
      <4>2. CASE i > Len(file)
        BY <1>2, <4>2
      <4> QED BY <1>2, <4>1, <4>2
    <3> QED BY <3>1
  <2>2. ASSUME NEW v \in Worker
        PROVE  write'[v].record \in RecordSet => Says(tickets', write'[v].record.about)
    <3>1. write'[v].record = write[v].record
      BY <1>1
    <3> QED BY <3>1 DEF RecordsAreTrue
  <2>3. \A v \in Worker : \A j \in 1 .. Len(call'[v].owed) : Says(tickets', call'[v].owed[j])
    BY DEF RecordsAreTrue
  <2> QED BY <2>1, <2>2, <2>3 DEF RecordsAreTrue
<1> QED BY <1>3, <1>10, <1>11

(* A step that leaves the file and the handles as they are. *)
LEMMA SilentStep ==
    ASSUME BackendInv, NEW w \in Worker, NEW x \in WriteSet,
           write' = [write EXCEPT ![w] = x], x.record = write[w].record,
           x.step \notin {"append", "sync"},
           lock' \in Worker \cup {"none"},
           UNCHANGED <<file, handle, synced, tickets, call, answered>>,
           OnlyTheHolderIsUnderLock',
           CallMatchesWrite(w)',
           AcceptedOf(w)' \subseteq AcceptedOf(w)
    PROVE  BackendInv'
<1> DEFINE none == <<>>
<1>1. none \in Seq(ChunkSet) /\ Len(none) = 0 /\ file' = file \o none
  BY ConcatEmptySeq DEF BackendInv, BackendTypeOK
<1>2. handle' \in [Worker -> [open : BOOLEAN, buffer : Seq(ChunkSet)]]
  BY DEF BackendInv, BackendTypeOK
<1>3. \A v \in Worker : \A i \in 1 .. Len(handle'[v].buffer) :
          Says(tickets, handle'[v].buffer[i].record.about)
  BY DEF BackendInv, RecordsAreTrue
<1>4. UNCHANGED <<synced, tickets, call, answered>>
  OBVIOUS
<1>5. \A i \in 1 .. Len(none) : Says(tickets, none[i].record.about)
  BY <1>1
<1> HIDE DEF none
<1> QED BY <1>1, <1>2, <1>3, <1>4, <1>5, WriterStep

(* The write under way of w, one step on. *)
Moved(w, step, result) == [step |-> step, record |-> write[w].record, result |-> result]

LEMMA MovedWrite ==
    ASSUME BackendTypeOK, NEW w \in Worker, NEW step \in StepSet,
           NEW result \in {"none", "ok", "error"}, GoOn(w, step, result)
    PROVE  /\ Moved(w, step, result) \in WriteSet
           /\ Moved(w, step, result).record = write[w].record
           /\ Moved(w, step, result).step = step
           /\ write' = [write EXCEPT ![w] = Moved(w, step, result)]
<1>1. write[w].record \in RecordSet \cup {NoRecord}
  BY DEF BackendTypeOK, WriteSet
<1>2. Moved(w, step, result) \in WriteSet
  BY <1>1 DEF WriteSet, Moved
<1>3. write' = [write EXCEPT ![w] = Moved(w, step, result)]
  BY DEF GoOn, Moved
<1> QED BY <1>2, <1>3 DEF Moved

(* What the writer's move means to the calls and the lock. *)
LEMMA MovedCall ==
    ASSUME BackendInv, NEW w \in Worker,
           NEW step \in StepSet, NEW result \in {"none", "ok", "error"},
           write' = [write EXCEPT ![w] = Moved(w, step, result)], UNCHANGED call,
           write[w].step # "idle",
           \/ step \in {"refresh", "append", "sync"} /\ result = "none"
              /\ write[w].step \in {"acquire", "refresh", "append", "sync"}
           \/ step \in {"idle", "release"} /\ result # "none"
    PROVE  /\ CallMatchesWrite(w)'
           /\ result \in {write[w].result, "error"} => AcceptedOf(w)' \subseteq AcceptedOf(w)
<1>1. /\ write'[w] = Moved(w, step, result) /\ write'[w].record = write[w].record
      /\ write'[w].step = step /\ write'[w].result = result /\ call'[w] = call[w]
  BY DEF BackendInv, BackendTypeOK, Moved
<1>2. call[w].busy
  BY DEF BackendInv, LedgerInv, CallMatchesWrite, Quiet
<1>3. CallMatchesWrite(w)'
  BY <1>1, <1>2 DEF BackendInv, LedgerInv, CallMatchesWrite
<1>4. result \in {write[w].result, "error"} => AcceptedOf(w)' \subseteq AcceptedOf(w)
  BY <1>1 DEF AcceptedOf
<1> QED BY <1>3, <1>4

LEMMA AcquirePreserves ==
    ASSUME BackendInv, NEW w \in Worker, Acquire(w), UNCHANGED <<tickets, call, answered>>
    PROVE  BackendInv'
<1> DEFINE x == Moved(w, "refresh", "none")
<1>1. /\ write[w].step = "acquire" /\ write[w].result = "none" /\ lock = "none" /\ lock' = w
      /\ UNCHANGED <<file, handle, synced, tickets, call, answered>>
  BY DEF Acquire, BackendInv, LedgerInv, CallMatchesWrite
<1>2. write' = [write EXCEPT ![w] = x] /\ x \in WriteSet /\ x.record = write[w].record
      /\ x.step = "refresh"
  BY <1>1, MovedWrite, StepNames DEF Acquire, BackendInv
<1>3. CallMatchesWrite(w)' /\ AcceptedOf(w)' \subseteq AcceptedOf(w)
  BY <1>1, <1>2, MovedCall, StepNames
<1>4. OnlyTheHolderIsUnderLock'
  BY <1>1, <1>2, LedgerAssumption DEF BackendInv, BackendTypeOK, LedgerInv, OnlyTheHolderIsUnderLock
<1> HIDE DEF x
<1> QED BY <1>1, <1>2, <1>3, <1>4, SilentStep

(* Only the worker that holds the lock takes a step under it. *)
LEMMA HolderStays ==
    ASSUME BackendInv, NEW w \in Worker, NEW x, write[w].step \in UnderLock,
           write' = [write EXCEPT ![w] = x],
           lock' = lock \/ x.step \notin UnderLock
    PROVE  /\ OnlyTheHolderIsUnderLock'
           /\ lock = w
           /\ \A v \in Worker \ {w} : write[v].step \notin UnderLock
BY DEF BackendInv, BackendTypeOK, LedgerInv, OnlyTheHolderIsUnderLock

LEMMA FailurePreserves ==
    ASSUME BackendInv, NEW w \in Worker, RefreshFails(w) \/ SyncFails(w),
           UNCHANGED <<tickets, call, answered>>
    PROVE  BackendInv'
<1> DEFINE x == Moved(w, "release", "error")
<1>1. /\ write[w].step \in {"refresh", "sync"}
      /\ UNCHANGED <<file, handle, synced, lock, tickets, call, answered>>
  BY DEF RefreshFails, SyncFails
<1>2. write' = [write EXCEPT ![w] = x] /\ x \in WriteSet /\ x.record = write[w].record
      /\ x.step = "release"
  BY MovedWrite, StepNames DEF RefreshFails, SyncFails, Fail, Finish, BackendInv
<1>3. CallMatchesWrite(w)' /\ AcceptedOf(w)' \subseteq AcceptedOf(w)
  BY <1>1, <1>2, MovedCall, StepNames
<1>4. OnlyTheHolderIsUnderLock'
  <2>1. write[w].step \in UnderLock /\ (lock' = lock \/ x.step \notin UnderLock)
    BY <1>1, <1>2 DEF UnderLock
  <2> QED BY <2>1, <1>2, HolderStays
<1>5. lock' \in Worker \cup {"none"}
  BY <1>1 DEF BackendInv, BackendTypeOK
<1> HIDE DEF x
<1> QED BY <1>1, <1>2, <1>3, <1>4, <1>5, SilentStep

LEMMA ReleasePreserves ==
    ASSUME BackendInv, NEW w \in Worker, Release(w), UNCHANGED <<tickets, call, answered>>
    PROVE  BackendInv'
<1> DEFINE x == Moved(w, "idle", write[w].result)
<1>1. /\ write[w].step = "release" /\ write[w].result \in {"ok", "error"} /\ lock' = "none"
      /\ UNCHANGED <<file, handle, synced, tickets, call, answered>>
  BY DEF Release, Released, BackendInv, BackendTypeOK, WriteSet, LedgerInv, CallMatchesWrite
<1>2. write' = [write EXCEPT ![w] = x] /\ x \in WriteSet /\ x.record = write[w].record
      /\ x.step = "idle"
  BY <1>1, MovedWrite, StepNames DEF Release, BackendInv
<1>3. CallMatchesWrite(w)' /\ AcceptedOf(w)' \subseteq AcceptedOf(w)
  BY <1>1, <1>2, MovedCall, StepNames
<1>4. OnlyTheHolderIsUnderLock'
  <2>1. write[w].step \in UnderLock /\ (lock' = lock \/ x.step \notin UnderLock)
    BY <1>1, <1>2 DEF UnderLock
  <2> QED BY <2>1, <1>2, HolderStays
<1> HIDE DEF x
<1> QED BY <1>1, <1>2, <1>3, <1>4, SilentStep

(* One chunk more on file, or in a buffer. *)
LEMMA OneMore ==
    ASSUME BackendTypeOK, NEW r \in RecordSet,
           NEW part \in {"line", "head", "text", "rest", "newline"}
    PROVE  /\ Append(file, Chunk(r, part)) = file \o <<Chunk(r, part)>>
           /\ <<Chunk(r, part)>> \in Seq(ChunkSet)
           /\ Len(<<Chunk(r, part)>>) = 1
           /\ <<Chunk(r, part)>>[1] = Chunk(r, part)
           /\ <<Chunk(r, part)>>[1].record = r
<1> DEFINE c == Chunk(r, part)
<1>1. c \in ChunkSet /\ c.record = r
  BY DEF ChunkSet, Chunk
<1>2. file \in Seq(ChunkSet)
  BY DEF BackendTypeOK
<1> HIDE DEF c
<1>3. Append(file, c) = file \o <<c>>
  BY <1>1, <1>2, AppendIsConcat
<1>4. <<c>> \in Seq(ChunkSet) /\ Len(<<c>>) = 1 /\ <<c>>[1] = c /\ <<c>>[1].record = r
  BY <1>1
<1> QED BY <1>3, <1>4 DEF c

LEMMA AppendLinePreserves ==
    ASSUME BackendInv, NEW w \in Worker, AppendLine(w), UNCHANGED <<tickets, call, answered>>
    PROVE  BackendInv'
<1> DEFINE x == Moved(w, "sync", "none")
           more == <<Chunk(write[w].record, "line")>>
<1>1. /\ write[w].step = "append" /\ write[w].result = "none" /\ write[w].record \in RecordSet
      /\ UNCHANGED <<handle, synced, lock, tickets, call, answered>>
      /\ file' = Append(file, Chunk(write[w].record, "line"))
  BY DEF AppendLine, BackendInv, LedgerInv, CallMatchesWrite
<1>2. write' = [write EXCEPT ![w] = x] /\ x \in WriteSet /\ x.record = write[w].record
      /\ x.step = "sync"
  BY <1>1, MovedWrite, StepNames DEF AppendLine, BackendInv
<1>3. CallMatchesWrite(w)' /\ AcceptedOf(w)' \subseteq AcceptedOf(w)
  BY <1>1, <1>2, MovedCall, StepNames
<1>4. OnlyTheHolderIsUnderLock'
  <2>1. write[w].step \in UnderLock /\ (lock' = lock \/ x.step \notin UnderLock)
    BY <1>1, <1>2 DEF UnderLock
  <2> QED BY <2>1, <1>2, HolderStays
<1>5. lock' \in Worker \cup {"none"}
      /\ handle' \in [Worker -> [open : BOOLEAN, buffer : Seq(ChunkSet)]]
  BY <1>1 DEF BackendInv, BackendTypeOK
<1>6. more \in Seq(ChunkSet) /\ Len(more) = 1 /\ more[1] = Chunk(write[w].record, "line")
      /\ more[1].record = write[w].record
  BY <1>1, OneMore DEF BackendInv
<1>7. file' = file \o more
  BY <1>1, OneMore DEF BackendInv
<1>8. \A i \in 1 .. Len(more) : Says(tickets, more[i].record.about)
  BY <1>1, <1>6 DEF BackendInv, RecordsAreTrue
<1>9. \A v \in Worker : \A i \in 1 .. Len(handle'[v].buffer) :
          Says(tickets, handle'[v].buffer[i].record.about)
  BY <1>1 DEF BackendInv, RecordsAreTrue
<1>10. UNCHANGED <<synced, tickets, call, answered>>
  BY <1>1
<1>11. more = <<Chunk(x.record, "line")>>
  BY <1>2
<1> HIDE DEF x, more
<1> QED BY <1>1, <1>2, <1>3, <1>4, <1>5, <1>6, <1>7, <1>8, <1>9, <1>10, <1>11, WriterStep

(* Of the records of a buffer, what is known of those that were written.   *)
LEMMA BufferTypes ==
    ASSUME BackendInv, NEW w \in Worker
    PROVE  /\ handle[w] \in [open : BOOLEAN, buffer : Seq(ChunkSet)]
           /\ handle[w].buffer \in Seq(ChunkSet)
           /\ \A i \in 1 .. Len(handle[w].buffer) :
                 Says(tickets, handle[w].buffer[i].record.about)
BY DEF BackendInv, BackendTypeOK, RecordsAreTrue

(* A handle that was given another buffer. *)
LEMMA BufferStep ==
    ASSUME BackendInv, NEW w \in Worker, NEW h \in [open : BOOLEAN, buffer : Seq(ChunkSet)],
           handle' = [handle EXCEPT ![w] = h],
           \A i \in 1 .. Len(h.buffer) : Says(tickets, h.buffer[i].record.about)
    PROVE  /\ handle' \in [Worker -> [open : BOOLEAN, buffer : Seq(ChunkSet)]]
           /\ \A v \in Worker : \A i \in 1 .. Len(handle'[v].buffer) :
                 Says(tickets, handle'[v].buffer[i].record.about)
<1>1. handle \in [Worker -> [open : BOOLEAN, buffer : Seq(ChunkSet)]]
  BY DEF BackendInv, BackendTypeOK
<1>2. handle' \in [Worker -> [open : BOOLEAN, buffer : Seq(ChunkSet)]]
  BY <1>1
<1>3. ASSUME NEW v \in Worker, NEW i \in 1 .. Len(handle'[v].buffer)
      PROVE  Says(tickets, handle'[v].buffer[i].record.about)
  <2>1. CASE v = w
    BY <1>1, <1>3, <2>1
  <2>2. CASE v # w
    BY <1>1, <1>3, <2>2, BufferTypes
  <2> QED BY <2>1, <2>2
<1> QED BY <1>2, <1>3

(* Every accepted record has its identifier on file, whatever is added. *)
LEMMA AcceptedIdsAreKnown ==
    ASSUME BackendInv, NEW w \in Worker, NEW more \in Seq(ChunkSet), file' = file \o more,
           synced' = synced, NEW r \in RecordSet, Accepted(r)
    PROVE  r.id \in KnownIds(w, file')
<1>1. PICK i \in 1 .. synced : file[i] = Chunk(r, "line")
  BY DEF BackendInv, LedgerInv, AcceptedAreOnDisk, Recorded
<1>2. /\ file' \in Seq(ChunkSet) /\ Len(file') = Len(file) + Len(more)
      /\ \A j \in 1 .. Len(file) : file'[j] = file[j]
  BY Appending DEF BackendInv
<1>3. synced \in Nat /\ synced <= Len(file) /\ Len(file) \in Nat /\ Len(more) \in Nat
  BY DEF BackendInv, BackendTypeOK
<1>4. i \in DOMAIN file' /\ file'[i].record.id = r.id
  BY <1>1, <1>2, <1>3 DEF Chunk
<1> QED BY <1>4 DEF KnownIds, Ids

LEMMA RefreshPreserves ==
    ASSUME BackendInv, NEW w \in Worker, Refresh(w), UNCHANGED <<tickets, call, answered>>
    PROVE  BackendInv'
<1> DEFINE more == handle[w].buffer
           h == [handle[w] EXCEPT !.buffer = <<>>]
<1>1. /\ write[w].step = "refresh" /\ write[w].result = "none"
      /\ UNCHANGED <<synced, lock, tickets, call, answered>>
      /\ file' = file \o more
      /\ handle' = [handle EXCEPT ![w] = h]
  BY DEF Refresh, Flushed, BackendInv, BackendTypeOK, LedgerInv, CallMatchesWrite
<1>2. more \in Seq(ChunkSet) /\ \A i \in 1 .. Len(more) : Says(tickets, more[i].record.about)
  BY BufferTypes
<1>3. /\ handle' \in [Worker -> [open : BOOLEAN, buffer : Seq(ChunkSet)]]
      /\ \A v \in Worker : \A i \in 1 .. Len(handle'[v].buffer) :
            Says(tickets, handle'[v].buffer[i].record.about)
  <2>1. h \in [open : BOOLEAN, buffer : Seq(ChunkSet)] /\ h.buffer = <<>> /\ Len(h.buffer) = 0
    <3>1. handle[w] \in [open : BOOLEAN, buffer : Seq(ChunkSet)]
      BY BufferTypes
    <3>2. h = [open |-> handle[w].open, buffer |-> <<>>]
      BY <3>1
    <3>3. handle[w].open \in BOOLEAN /\ <<>> \in Seq(ChunkSet)
      BY <3>1
    <3> HIDE DEF h
    <3> QED BY <3>2, <3>3
  <2> HIDE DEF h
  <2>2. \A i \in 1 .. Len(h.buffer) : Says(tickets, h.buffer[i].record.about)
    BY <2>1
  <2> QED BY <1>1, <2>1, <2>2, BufferStep
<1>4. lock' \in Worker \cup {"none"} /\ UNCHANGED <<synced, tickets, call, answered>>
  BY <1>1 DEF BackendInv, BackendTypeOK
<1> HIDE DEF more, h
<1>5. ASSUME NEW step \in {"append", "release"}, NEW result \in {"none", "error"},
             GoOn(w, step, result),
             step = "append" <=> result = "none",
             step = "append" => write[w].record.id \notin KnownIds(w, file')
      PROVE  BackendInv'
  <2> DEFINE x == Moved(w, step, result)
  <2>1. step \in StepSet /\ result \in {"none", "ok", "error"}
    BY StepNames
  <2>2. write' = [write EXCEPT ![w] = x] /\ x \in WriteSet /\ x.record = write[w].record
        /\ x.step = step
    BY <1>5, <2>1, MovedWrite DEF BackendInv
  <2>3. CallMatchesWrite(w)' /\ AcceptedOf(w)' \subseteq AcceptedOf(w)
    BY <1>1, <1>5, <2>1, <2>2, MovedCall
  <2>4. OnlyTheHolderIsUnderLock'
    <3>1. write[w].step \in UnderLock /\ (lock' = lock \/ x.step \notin UnderLock)
      BY <1>1 DEF UnderLock
    <3> QED BY <3>1, <2>2, HolderStays
  <2>5. x.step = "append" => \A r \in RecordSet : Accepted(r) => r.id # x.record.id
    BY <1>1, <1>2, <1>5, <2>2, AcceptedIdsAreKnown
  <2>6. x.step # "sync"
    BY <2>2
  <2> HIDE DEF x
  <2> QED BY <1>1, <1>2, <1>3, <1>4, <2>2, <2>3, <2>4, <2>5, <2>6, WriterStep
<1>6. CASE Readable(file') /\ write[w].record.id \notin KnownIds(w, file')
  <2>1. GoOn(w, "append", "none")
    BY <1>6 DEF Refresh
  <2> QED BY <1>5, <1>6, <2>1
<1>7. CASE ~(Readable(file') /\ write[w].record.id \notin KnownIds(w, file'))
  <2>1. GoOn(w, "release", "error")
    BY <1>7 DEF Refresh, Finish
  <2> QED BY <1>5, <2>1
<1> QED BY <1>6, <1>7

LEMMA AppendFailsPreserves ==
    ASSUME BackendInv, NEW w \in Worker, AppendFails(w), UNCHANGED <<tickets, call, answered>>
    PROVE  BackendInv'
<1> DEFINE x == Moved(w, "release", "error")
           r == write[w].record
<1>1. /\ write[w].step = "append" /\ r \in RecordSet
      /\ UNCHANGED <<synced, lock, tickets, call, answered>>
  BY DEF AppendFails, BackendInv, LedgerInv, CallMatchesWrite
<1>2. write' = [write EXCEPT ![w] = x] /\ x \in WriteSet /\ x.record = write[w].record
      /\ x.step = "release"
  BY MovedWrite, StepNames DEF AppendFails, Fail, Finish, BackendInv
<1>3. CallMatchesWrite(w)' /\ AcceptedOf(w)' \subseteq AcceptedOf(w)
  BY <1>1, <1>2, MovedCall, StepNames
<1>4. OnlyTheHolderIsUnderLock'
  <2>1. write[w].step \in UnderLock /\ (lock' = lock \/ x.step \notin UnderLock)
    BY <1>1, <1>2 DEF UnderLock
  <2> QED BY <2>1, <1>2, HolderStays
<1>5. Says(tickets, r.about)
  BY <1>1 DEF BackendInv, RecordsAreTrue
<1>6. UNCHANGED <<synced, tickets, call, answered>> /\ lock' \in Worker \cup {"none"}
  BY <1>1 DEF BackendInv, BackendTypeOK
<1>7. ASSUME NEW part \in {"line", "rest", "newline"},
             handle' = [handle EXCEPT ![w].buffer = <<Chunk(r, part)>>]
      PROVE  /\ handle' \in [Worker -> [open : BOOLEAN, buffer : Seq(ChunkSet)]]
             /\ \A v \in Worker : \A i \in 1 .. Len(handle'[v].buffer) :
                   Says(tickets, handle'[v].buffer[i].record.about)
  <2> DEFINE b == <<Chunk(r, part)>>
             h == [open |-> handle[w].open, buffer |-> b]
  <2>1. b \in Seq(ChunkSet) /\ Len(b) = 1 /\ b[1].record = r
    <3>1. BackendTypeOK
      BY DEF BackendInv
    <3> HIDE DEF r
    <3> QED BY <1>1, <3>1, OneMore
  <2>2. handle' = [handle EXCEPT ![w] = [handle[w] EXCEPT !.buffer = b]]
    BY <1>7
  <2> HIDE DEF b
  <2>3. [handle[w] EXCEPT !.buffer = b] = h
    BY BufferTypes
  <2>4. h \in [open : BOOLEAN, buffer : Seq(ChunkSet)]
    BY <2>1, BufferTypes
  <2>5. \A i \in 1 .. Len(h.buffer) : Says(tickets, h.buffer[i].record.about)
    <3>1. h.buffer = b /\ Len(b) = 1 /\ b[1].record.about = r.about
      BY <2>1
    <3> HIDE DEF h, r
    <3> QED BY <3>1, <1>5
  <2>6. handle' = [handle EXCEPT ![w] = h]
    BY <2>2, <2>3
  <2> HIDE DEF h
  <2> QED BY <2>4, <2>5, <2>6, BufferStep
<1>8. ASSUME NEW more \in Seq(ChunkSet), file' = file \o more,
             \A i \in 1 .. Len(more) : Says(tickets, more[i].record.about),
             NEW part \in {"line", "rest", "newline"},
             handle' = [handle EXCEPT ![w].buffer = <<Chunk(r, part)>>]
      PROVE  BackendInv'
  <2>1. x.step # "append" /\ x.step # "sync"
    BY <1>2
  <2>2. /\ handle' \in [Worker -> [open : BOOLEAN, buffer : Seq(ChunkSet)]]
        /\ \A v \in Worker : \A i \in 1 .. Len(handle'[v].buffer) :
              Says(tickets, handle'[v].buffer[i].record.about)
    BY <1>7, <1>8
  <2> HIDE DEF x, r
  <2> QED BY <1>2, <1>3, <1>4, <1>6, <1>8, <2>1, <2>2, WriterStep
<1>9. CASE /\ handle' = [handle EXCEPT ![w].buffer = <<Chunk(r, "line")>>]
           /\ UNCHANGED file
  <2> DEFINE none == <<>>
  <2>1. none \in Seq(ChunkSet) /\ Len(none) = 0 /\ file' = file \o none
    BY <1>9, ConcatEmptySeq DEF BackendInv, BackendTypeOK
  <2>2. \A i \in 1 .. Len(none) : Says(tickets, none[i].record.about)
    BY <2>1
  <2> HIDE DEF none
  <2> QED BY <1>8, <1>9, <2>1, <2>2
<1>10. ASSUME NEW cut \in DOMAIN Remainder,
              file' = Append(file, Chunk(r, cut)),
              handle' = [handle EXCEPT ![w].buffer = <<Chunk(r, Remainder[cut])>>]
       PROVE  BackendInv'
  <2> DEFINE more == <<Chunk(r, cut)>>
  <2>1. cut \in {"head", "text"} /\ Remainder[cut] \in {"line", "rest", "newline"}
    BY DEF Remainder
  <2>2. more \in Seq(ChunkSet) /\ Len(more) = 1 /\ more[1].record = r /\ file' = file \o more
    <3>1. BackendTypeOK
      BY DEF BackendInv
    <3>2. r \in RecordSet /\ cut \in {"line", "head", "text", "rest", "newline"}
      BY <1>1, <2>1
    <3>3. file' = Append(file, Chunk(r, cut))
      BY <1>10
    <3> HIDE DEF r
    <3> QED BY ONLY <3>1, <3>2, <3>3, OneMore
  <2>3. \A i \in 1 .. Len(more) : Says(tickets, more[i].record.about)
    BY <2>2, <1>5
  <2> HIDE DEF more, r
  <2> QED BY <1>8, <1>10, <2>1, <2>2, <2>3
<1> QED BY <1>9, <1>10 DEF AppendFails

LEMMA SyncPreserves ==
    ASSUME BackendInv, NEW w \in Worker, Sync(w), UNCHANGED <<tickets, call, answered>>
    PROVE  BackendInv'
<1> USE DEF BackendInv
<1> DEFINE x == Moved(w, "release", "ok")
<1> PICK r \in RecordSet : r = write[w].record
  BY DEF Sync, LedgerInv, CallMatchesWrite
<1>1. /\ write[w].step = "sync" /\ write[w].result = "none"
      /\ UNCHANGED <<file, lock, handle, tickets, call, answered>>
      /\ synced' = Len(file) /\ lock = w
  BY DEF Sync, SyncedNow, LedgerInv, CallMatchesWrite, OnlyTheHolderIsUnderLock, UnderLock
<1>2. write' = [write EXCEPT ![w] = x] /\ x \in WriteSet /\ x.record = write[w].record
      /\ x.step = "release" /\ x.result = "ok"
  BY MovedWrite, StepNames DEF Sync, Finish, Moved
<1>3. /\ write'[w] = x /\ write' \in [Worker -> WriteSet]
      /\ \A v \in Worker \ {w} : write'[v] = write[v]
  BY <1>2 DEF BackendTypeOK
<1>4. CallMatchesWrite(w)'
  BY <1>1, <1>2, MovedCall, StepNames
<1>5. OnlyTheHolderIsUnderLock' /\ \A v \in Worker \ {w} : write[v].step \notin UnderLock
  <2>1. write[w].step \in UnderLock /\ (lock' = lock \/ x.step \notin UnderLock)
    BY <1>1, <1>2 DEF UnderLock
  <2> QED BY <2>1, <1>2, HolderStays
<1>6. BackendTypeOK'
  BY <1>1, <1>3 DEF BackendTypeOK
<1>7. Keeps
  BY <1>1 DEF BackendTypeOK, Keeps
<1>8. \A s \in RecordSet : Accepted(s)' => Accepted(s) \/ s = r
  <2>1. \A v \in Worker \ {w} : AcceptedOf(v)' = AcceptedOf(v)
    BY <1>1, <1>3 DEF AcceptedOf
  <2>2. AcceptedOf(w)' \subseteq AcceptedOf(w) \cup {r}
    BY <1>1, <1>2, <1>3 DEF AcceptedOf
  <2> QED BY <1>1, <2>1, <2>2 DEF Accepted
<1>9. Recorded(r)'
  <2>1. PICK i \in 1 .. Len(file) : file[i] = Chunk(r, "line")
    BY <1>1 DEF LedgerInv, AppendedIsThere
  <2>2. i \in 1 .. synced' /\ file'[i] = Chunk(r, "line")
    BY <1>1, <2>1
  <2> QED BY <2>2 DEF Recorded, Chunk
<1>10. AcceptedAreOnDisk'
  <2>1. ASSUME NEW s \in RecordSet, Accepted(s)'
        PROVE  Recorded(s)'
    <3>1. CASE s = r
      BY <1>9, <3>1
    <3>2. CASE s # r
      <4>1. Recorded(s)
        BY <1>8, <2>1, <3>2 DEF LedgerInv, AcceptedAreOnDisk
      <4> QED BY <4>1, <1>6, <1>7, RecordedStays
    <3> QED BY <3>1, <3>2
  <2> QED BY <2>1 DEF AcceptedAreOnDisk
<1>11. AcceptedAreUnique'
  <2>1. \A s \in RecordSet : Accepted(s) => s.id # r.id
    BY <1>1 DEF LedgerInv, CheckedIsNew
  <2> QED BY <1>8, <2>1 DEF LedgerInv, AcceptedAreUnique
<1>12. \A v \in Worker : write'[v].step \notin {"append", "sync"}
  <2>1. ASSUME NEW v \in Worker
        PROVE  write'[v].step \notin {"append", "sync"}
    <3>1. CASE v = w
      BY <1>2, <1>3, <3>1
    <3>2. CASE v # w
      BY <1>3, <1>5, <3>2 DEF UnderLock
    <3> QED BY <3>1, <3>2
  <2> QED BY <2>1
<1>13. CheckedIsNew' /\ AppendedIsThere'
  BY <1>12 DEF CheckedIsNew, AppendedIsThere
<1>14. \A v \in Worker : CallMatchesWrite(v)'
  BY <1>1, <1>3, <1>4 DEF LedgerInv, CallMatchesWrite
<1>15. LedgerInv'
  BY <1>5, <1>10, <1>11, <1>13, <1>14 DEF LedgerInv
<1>16. RecordsAreTrue'
  <2>1. ASSUME NEW v \in Worker
        PROVE  write'[v].record \in RecordSet => Says(tickets', write'[v].record.about)
    <3>1. write'[v].record = write[v].record
      BY <1>2, <1>3
    <3> QED BY <1>1, <3>1 DEF RecordsAreTrue
  <2> QED BY <1>1, <2>1 DEF RecordsAreTrue
<1> QED BY <1>6, <1>15, <1>16

-----------------------------------------------------------------------------
(* Steps of the handles. *)

(* A step that touches no write: it may append chunks and change buffers.  *)
LEMMA HandleStep ==
    ASSUME BackendInv, NEW w \in Worker, NEW more \in Seq(ChunkSet),
           NEW h \in [open : BOOLEAN, buffer : Seq(ChunkSet)],
           write[w].step # "append", write[w].step # "sync",
           file' = file \o more,
           \A i \in 1 .. Len(more) : Says(tickets, more[i].record.about),
           handle' = [handle EXCEPT ![w] = h],
           \A i \in 1 .. Len(h.buffer) : Says(tickets, h.buffer[i].record.about),
           UNCHANGED <<synced, lock, write, tickets, call, answered>>
    PROVE  BackendInv'
<1> DEFINE x == write[w]
<1>1. x \in WriteSet /\ x.record = write[w].record /\ write' = [write EXCEPT ![w] = x]
  BY DEF BackendInv, BackendTypeOK
<1>2. lock' \in Worker \cup {"none"} /\ UNCHANGED <<synced, tickets, call, answered>>
  BY DEF BackendInv, BackendTypeOK
<1>3. OnlyTheHolderIsUnderLock' /\ CallMatchesWrite(w)' /\ AcceptedOf(w)' \subseteq AcceptedOf(w)
  BY DEF BackendInv, LedgerInv, OnlyTheHolderIsUnderLock, CallMatchesWrite, AcceptedOf
<1>4. x.step # "append" /\ x.step # "sync"
  OBVIOUS
<1>5. /\ handle' \in [Worker -> [open : BOOLEAN, buffer : Seq(ChunkSet)]]
      /\ \A v \in Worker : \A i \in 1 .. Len(handle'[v].buffer) :
            Says(tickets, handle'[v].buffer[i].record.about)
  BY BufferStep
<1> HIDE DEF x
<1> QED BY <1>1, <1>2, <1>3, <1>4, <1>5, WriterStep

LEMMA HousekeepingPreserves ==
    ASSUME BackendInv, NEW w \in Worker, Housekeeping(w)
    PROVE  BackendInv'
<1> DEFINE none == <<>>
           more == handle[w].buffer
<1>1. none \in Seq(ChunkSet) /\ Len(none) = 0 /\ file = file \o none
  BY ConcatEmptySeq DEF BackendInv, BackendTypeOK
<1>2. more \in Seq(ChunkSet) /\ \A i \in 1 .. Len(more) : Says(tickets, more[i].record.about)
  BY BufferTypes
<1>3. UNCHANGED <<synced, lock, write, tickets, call, answered>>
  BY DEF Housekeeping, Open, Close
<1>4. CASE Open(w)
  <2> DEFINE h == [open |-> TRUE, buffer |-> none]
  <2>1. h \in [open : BOOLEAN, buffer : Seq(ChunkSet)] /\ h.buffer = none
        /\ handle' = [handle EXCEPT ![w] = h] /\ file' = file
    BY <1>1, <1>4 DEF Open, Opened
  <2>2. write[w].step # "append" /\ write[w].step # "sync"
    BY <1>4, LedgerAssumption
       DEF Open, BackendInv, LedgerInv, OnlyTheHolderIsUnderLock, UnderLock
  <2>3. /\ \A i \in 1 .. Len(none) : Says(tickets, none[i].record.about)
        /\ \A i \in 1 .. Len(h.buffer) : Says(tickets, h.buffer[i].record.about)
    BY <1>1, <2>1
  <2> HIDE DEF h, none
  <2> QED BY <1>1, <1>3, <2>1, <2>2, <2>3, HandleStep
<1>5. CASE Close(w)
  <2> DEFINE h == [open |-> FALSE, buffer |-> none]
  <2>1. h \in [open : BOOLEAN, buffer : Seq(ChunkSet)] /\ h.buffer = none
    BY <1>1
  <2>2. write[w].step = "idle" /\ file' = file \o more
    BY <1>5 DEF Close, Flushed
  <2>3. \A i \in 1 .. Len(h.buffer) : Says(tickets, h.buffer[i].record.about)
    BY <1>1, <2>1
  <2>4. handle' = [handle EXCEPT ![w] = h]
    BY <1>5 DEF Close, Closed
  <2> HIDE DEF h, none, more
  <2> QED BY <1>2, <1>3, <2>1, <2>2, <2>3, <2>4, HandleStep
<1> QED BY <1>4, <1>5 DEF Housekeeping

-----------------------------------------------------------------------------
(* Answers and breakdowns. *)

LEMMA AnswerPreserves ==
    ASSUME BackendInv, NEW w \in Worker, Answer(w)
    PROVE  BackendInv'
<1> USE DEF BackendInv
<1> DEFINE c == Idle(call[w].n)
<1>1. /\ write[w].step = "idle" /\ call[w].busy
      /\ UNCHANGED <<file, synced, lock, handle, tickets>>
      /\ write' = [write EXCEPT ![w] = Quiet] /\ call' = [call EXCEPT ![w] = c]
      /\ answered' = answered \/ (write[w].result # "error" /\ answered' = answered \cup call[w].written)
  BY DEF Answer, Answered
<1>2. Quiet \in WriteSet /\ Quiet.step = "idle" /\ Quiet.result = "none" /\ Quiet.record = NoRecord
  BY DEF Quiet, WriteSet, StepSet
<1>3. c \in CallSet /\ c.written = {} /\ c.owed = <<>> /\ ~c.busy
  BY DEF CallSet, Idle, BackendTypeOK
<1>4. call[w].written \in SUBSET RecordSet
  BY DEF BackendTypeOK, CallSet
<1> HIDE DEF c
<1>5. BackendTypeOK'
  BY <1>1, <1>2, <1>3, <1>4 DEF BackendTypeOK
<1>6. /\ write'[w] = Quiet /\ call'[w] = c
      /\ \A v \in Worker \ {w} : write'[v] = write[v] /\ call'[v] = call[v]
  BY <1>1 DEF BackendTypeOK
<1>7. LedgerInv'
  <2>1. \A r \in RecordSet : Accepted(r)' => Accepted(r)
    <3>1. \A v \in Worker \ {w} : AcceptedOf(v)' = AcceptedOf(v)
      BY <1>6 DEF AcceptedOf
    <3>2. AcceptedOf(w)' = {}
      BY <1>2, <1>3, <1>6 DEF AcceptedOf
    <3>3. write[w].result # "error" => call[w].written \subseteq AcceptedOf(w)
      BY <1>1 DEF AcceptedOf, BackendTypeOK, WriteSet, LedgerInv, CallMatchesWrite
    <3> QED BY <1>1, <3>1, <3>2, <3>3 DEF Accepted
  <2>2. \A v \in Worker : CallMatchesWrite(v)'
    <3>1. CallMatchesWrite(w)'
      BY <1>2, <1>3, <1>6 DEF CallMatchesWrite
    <3>2. \A v \in Worker \ {w} : CallMatchesWrite(v)'
      BY <1>6 DEF LedgerInv, CallMatchesWrite
    <3> QED BY <3>1, <3>2
  <2>3. OnlyTheHolderIsUnderLock'
    BY <1>1, <1>2, <1>6 DEF LedgerInv, OnlyTheHolderIsUnderLock, UnderLock
  <2>4. \A v \in Worker : write'[v].step \in {"append", "sync"} =>
            v # w /\ write'[v] = write[v]
    BY <1>2, <1>6
  <2>5. AppendedIsThere'
    BY <1>1, <2>4 DEF LedgerInv, AppendedIsThere, Chunk
  <2>6. Keeps
    BY <1>1 DEF Keeps, BackendTypeOK
  <2> QED BY <1>5, <2>1, <2>2, <2>3, <2>4, <2>5, <2>6, Frame
<1>8. RecordsAreTrue'
  <2>1. ASSUME NEW v \in Worker
        PROVE  write'[v].record \in RecordSet => Says(tickets', write'[v].record.about)
    <3>1. NoRecord \notin RecordSet
      BY DEF NoRecord, RecordSet
    <3> QED BY <1>1, <1>2, <1>6, <3>1 DEF RecordsAreTrue
  <2>2. ASSUME NEW v \in Worker, NEW j \in 1 .. Len(call'[v].owed)
        PROVE  Says(tickets', call'[v].owed[j])
    <3>1. v # w
      BY <1>3, <1>6
    <3> QED BY <1>1, <1>6, <3>1 DEF RecordsAreTrue
  <2> QED BY <1>1, <2>1, <2>2 DEF RecordsAreTrue
<1> QED BY <1>5, <1>7, <1>8

(* The processes of W end; what is left of the file holds no record that   *)
(* it did not hold, and all that was synced.                               *)
LEMMA LostPreserves ==
    ASSUME BackendInv, NEW W \in SUBSET Worker, Lost(W), Dropped(W),
           file' \in Seq(ChunkSet), synced' \in Nat, synced' <= Len(file'), Keeps,
           \A i \in 1 .. Len(file') : \E j \in 1 .. Len(file) : file'[i].record = file[j].record,
           file' = file \/ W = Worker,
           UNCHANGED <<tickets, answered>>
    PROVE  BackendInv'
<1> USE DEF BackendInv
<1>1. /\ \A w \in W : write'[w] = Quiet /\ call'[w] = Idle(call[w].n)
      /\ \A w \in Worker \ W : write'[w] = write[w] /\ call'[w] = call[w] /\ handle'[w] = handle[w]
  BY DEF Lost, Dropped
<1>2. Quiet \in WriteSet /\ Quiet.step = "idle" /\ Quiet.result = "none" /\ Quiet.record = NoRecord
  BY DEF Quiet, WriteSet, StepSet
<1>3. ASSUME NEW w \in W
      PROVE  LET c == Idle(call[w].n)
             IN  c \in CallSet /\ c.written = {} /\ c.owed = <<>> /\ ~c.busy
  BY DEF CallSet, Idle, BackendTypeOK
<1>4. handle' \in [Worker -> [open : BOOLEAN, buffer : Seq(ChunkSet)]]
      /\ \A w \in W : Len(handle'[w].buffer) = 0
  <2>1. ASSUME NEW w \in Worker
        PROVE  handle'[w] \in [open : BOOLEAN, buffer : Seq(ChunkSet)]
               /\ (w \in W => Len(handle'[w].buffer) = 0)
    <3>1. CASE w \notin W
      BY <1>1, <3>1, BufferTypes
    <3>2. CASE w \in W
      BY <3>2 DEF Lost, Closed
    <3> QED BY <3>1, <3>2
  <2>2. handle' = [w \in Worker |-> handle'[w]]
    BY DEF Lost
  <2> QED BY <2>1, <2>2
<1>5. BackendTypeOK'
  <2>1. write' \in [Worker -> WriteSet]
    BY <1>2 DEF Lost, BackendTypeOK
  <2>2. call' \in [Worker -> CallSet]
    BY <1>3 DEF Dropped, BackendTypeOK
  <2>3. lock' \in Worker \cup {"none"}
    BY DEF Lost, BackendTypeOK
  <2> QED BY <1>4, <2>1, <2>2, <2>3 DEF BackendTypeOK
<1>6. LedgerInv'
  <2>1. \A r \in RecordSet : Accepted(r)' => Accepted(r)
    <3>1. \A v \in Worker \ W : AcceptedOf(v)' = AcceptedOf(v)
      BY <1>1 DEF AcceptedOf
    <3>2. \A v \in W : AcceptedOf(v)' = {}
      BY <1>1, <1>2, <1>3 DEF AcceptedOf
    <3> QED BY <3>1, <3>2 DEF Accepted
  <2>2. \A v \in Worker : CallMatchesWrite(v)'
    <3>1. ASSUME NEW v \in W
          PROVE  CallMatchesWrite(v)'
      BY <1>1, <1>2, <1>3 DEF CallMatchesWrite
    <3>2. \A v \in Worker \ W : CallMatchesWrite(v)'
      BY <1>1 DEF LedgerInv, CallMatchesWrite
    <3> QED BY <3>1, <3>2
  <2>3. \A v \in Worker : write'[v].step # "idle" => v \notin W /\ write'[v] = write[v]
    BY <1>1, <1>2
  <2>4. OnlyTheHolderIsUnderLock'
    <3>1. ASSUME NEW v \in Worker, write'[v].step \in UnderLock
          PROVE  lock' = v
      <4>1. v \notin W /\ write[v].step \in UnderLock
        BY <2>3, <3>1 DEF UnderLock
      <4>2. lock = v
        BY <4>1 DEF LedgerInv, OnlyTheHolderIsUnderLock
      <4> QED BY <4>1, <4>2 DEF Lost
    <3> QED BY <3>1 DEF OnlyTheHolderIsUnderLock
  <2>5. AppendedIsThere'
    <3>1. ASSUME NEW v \in Worker, write'[v].step = "sync"
          PROVE  file' = file /\ write'[v] = write[v]
      BY <2>3, <3>1
    <3> QED BY <3>1 DEF LedgerInv, AppendedIsThere, Chunk
  <2>6. \A v \in Worker : write'[v].step \in {"append", "sync"} =>
            write[v].step \in {"append", "sync"} /\ write'[v].record = write[v].record
    BY <2>3
  <2> QED BY <1>5, <2>1, <2>2, <2>4, <2>5, <2>6, Frame
<1>7. RecordsAreTrue'
  <2>1. \A i \in 1 .. Len(file') : Says(tickets', file'[i].record.about)
    BY DEF RecordsAreTrue
  <2>2. ASSUME NEW v \in Worker
        PROVE  write'[v].record \in RecordSet => Says(tickets', write'[v].record.about)
    <3>1. NoRecord \notin RecordSet
      BY DEF NoRecord, RecordSet
    <3> QED BY <1>1, <1>2, <3>1 DEF RecordsAreTrue
  <2>3. ASSUME NEW v \in Worker, NEW j \in 1 .. Len(call'[v].owed)
        PROVE  Says(tickets', call'[v].owed[j])
    <3>1. v \notin W
      BY <1>1, <1>3
    <3> QED BY <1>1, <3>1 DEF RecordsAreTrue
  <2>4. ASSUME NEW v \in Worker, NEW i \in 1 .. Len(handle'[v].buffer)
        PROVE  Says(tickets', handle'[v].buffer[i].record.about)
    <3>1. v \notin W
      BY <1>4
    <3> QED BY <1>1, <3>1 DEF RecordsAreTrue
  <2> QED BY <2>1, <2>2, <2>3, <2>4 DEF RecordsAreTrue
<1> QED BY <1>5, <1>6, <1>7

LEMMA BreakdownPreserves ==
    ASSUME BackendInv, Breakdown
    PROVE  BackendInv'
<1>1. UNCHANGED <<tickets, answered>>
  BY DEF Breakdown
<1>2. file \in Seq(ChunkSet) /\ synced \in Nat /\ Len(file) \in Nat /\ synced <= Len(file)
      /\ \A i \in 1 .. Len(file) : file[i] \in ChunkSet
  BY ElementOfSeq DEF BackendInv, BackendTypeOK
<1>3. ASSUME NEW w \in Worker, Stop(w), Dropped({w})
      PROVE  BackendInv'
  <2>1. UNCHANGED <<file, synced>> /\ Lost({w}) /\ {w} \in SUBSET Worker
    BY <1>3 DEF Stop
  <2>2. Keeps
    BY <1>2, <2>1 DEF Keeps
  <2>3. \A i \in 1 .. Len(file') : \E j \in 1 .. Len(file) : file'[i].record = file[j].record
    BY <2>1
  <2> QED BY <1>1, <1>2, <1>3, <2>1, <2>2, <2>3, LostPreserves
<1>4. ASSUME PowerCut, Dropped(Worker)
      PROVE  BackendInv'
  <2>1. synced' = Len(file') /\ Lost(Worker) /\ Worker \in SUBSET Worker
    BY <1>4 DEF PowerCut
  <2>2. PICK k \in synced .. Len(file) :
          \/ file' = SubSeq(file, 1, k)
          \/ /\ k < Len(file) /\ file[k + 1].part = "line"
             /\ \E cut \in DOMAIN Remainder :
                   file' = Append(SubSeq(file, 1, k), Chunk(file[k + 1].record, cut))
    BY <1>4 DEF PowerCut
  <2> DEFINE rest == SubSeq(file, 1, k)
  <2>3. /\ k \in Nat /\ k <= Len(file) /\ synced <= k
        /\ rest \in Seq(ChunkSet) /\ Len(rest) = k
        /\ \A i \in 1 .. k : rest[i] = file[i]
    BY <1>2, <2>2, SubSeqProperties
  <2> HIDE DEF rest
  <2>4. /\ file' \in Seq(ChunkSet) /\ Len(file') \in Nat /\ k <= Len(file')
        /\ \A i \in 1 .. k : file'[i] = file[i]
        /\ \A i \in 1 .. Len(file') : \E j \in 1 .. Len(file) : file'[i].record = file[j].record
    <3>1. CASE file' = rest
      BY <2>3, <3>1
    <3>2. CASE /\ k < Len(file)
               /\ \E cut \in DOMAIN Remainder : file' = Append(rest, Chunk(file[k + 1].record, cut))
      <4>1. PICK cut \in DOMAIN Remainder : file' = Append(rest, Chunk(file[k + 1].record, cut))
        BY <3>2
      <4> DEFINE c == Chunk(file[k + 1].record, cut)
      <4>2. k + 1 \in 1 .. Len(file) /\ file[k + 1] \in ChunkSet
        BY <1>2, <2>3, <3>2
      <4>3. cut \in {"head", "text"}
        BY DEF Remainder
      <4>4. c \in ChunkSet /\ c.record = file[k + 1].record
        BY <4>2, <4>3 DEF Chunk, ChunkSet
      <4> HIDE DEF c
      <4>5. /\ file' = Append(rest, c) /\ file' \in Seq(ChunkSet) /\ Len(file') = k + 1
            /\ file'[k + 1] = c
            /\ \A i \in 1 .. k : file'[i] = rest[i]
        BY <2>3, <4>1, <4>4, AppendProperties DEF c
      <4>6. \A i \in 1 .. Len(file') : i = k + 1 \/ i \in 1 .. k
        BY <2>3, <4>5
      <4>7. \A i \in 1 .. k : i \in 1 .. Len(file)
        BY <1>2, <2>3
      <4> QED BY <2>3, <4>2, <4>4, <4>5, <4>6, <4>7
    <3> QED BY <2>2, <3>1, <3>2 DEF rest
  <2>5. Keeps
    BY <1>2, <2>1, <2>3, <2>4 DEF Keeps
  <2> QED BY <1>1, <1>4, <2>1, <2>4, <2>5, LostPreserves
<1> QED BY <1>3, <1>4 DEF Breakdown

-----------------------------------------------------------------------------
(* The theorems. *)

LEMMA InitEstablishes ==
    ASSUME BackendInit
    PROVE  BackendInv
<1>1. /\ file = <<>> /\ Len(file) = 0 /\ synced = 0 /\ lock = "none" /\ answered = {}
      /\ \A w \in Worker :
            /\ handle[w] = Opened /\ Len(handle[w].buffer) = 0
            /\ write[w] = Quiet
            /\ call[w] = Idle(0) /\ Len(call[w].owed) = 0 /\ call[w].written = {} /\ ~call[w].busy
  BY DEF BackendInit, LedgerInit, Opened, Idle
<1>2. Quiet \in WriteSet /\ Quiet.step = "idle" /\ Quiet.result = "none" /\ Quiet.record = NoRecord
  BY DEF Quiet, WriteSet, StepSet
<1>3. Idle(0) \in CallSet
  BY DEF Idle, CallSet
<1>4. Opened \in [open : BOOLEAN, buffer : Seq(ChunkSet)]
  BY DEF Opened
<1>5. BackendTypeOK
  BY <1>1, <1>2, <1>3, <1>4 DEF BackendTypeOK, BackendInit, LedgerInit
<1>6. \A r : ~Accepted(r)
  BY <1>1, <1>2 DEF Accepted, AcceptedOf
<1>7. \A w \in Worker : CallMatchesWrite(w)
  BY <1>1, <1>2 DEF CallMatchesWrite
<1>8. \A w \in Worker : write[w].step = "idle"
  BY <1>1, <1>2
<1>9. LedgerInv
  BY <1>6, <1>7, <1>8
     DEF LedgerInv, OnlyTheHolderIsUnderLock, UnderLock, AcceptedAreOnDisk, AcceptedAreUnique,
         CheckedIsNew, AppendedIsThere
<1>10. NoRecord \notin RecordSet
  BY DEF NoRecord, RecordSet
<1>11. RecordsAreTrue
  BY <1>1, <1>2, <1>10 DEF RecordsAreTrue
<1> QED BY <1>5, <1>9, <1>11 DEF BackendInv

LEMMA LedgerStepPreserves ==
    ASSUME BackendInv, NEW w \in Worker, LedgerStep(w)
    PROVE  BackendInv'
<1>1. WriteStep(w) /\ UNCHANGED <<tickets, call, answered>>
  BY DEF LedgerStep
<1> QED BY <1>1, AcquirePreserves, RefreshPreserves, FailurePreserves, AppendLinePreserves,
           AppendFailsPreserves, SyncPreserves, ReleasePreserves DEF WriteStep

LEMMA NextPreserves ==
    ASSUME BackendInv, [BackendNext]_backendVars
    PROVE  BackendInv'
<1>1. CASE UNCHANGED backendVars
  <2>1. UNCHANGED <<file, synced, lock, handle, write, tickets, call, answered>>
    BY <1>1 DEF backendVars, ledgerVars
  <2>2. BackendTypeOK' /\ RecordsAreTrue'
    BY <2>1 DEF BackendInv, BackendTypeOK, RecordsAreTrue
  <2>3. \A r \in RecordSet : Accepted(r)' => Accepted(r)
    BY <2>1 DEF Accepted, AcceptedOf
  <2>4. OnlyTheHolderIsUnderLock' /\ AppendedIsThere' /\ \A w \in Worker : CallMatchesWrite(w)'
    BY <2>1 DEF BackendInv, LedgerInv, OnlyTheHolderIsUnderLock, AppendedIsThere, CallMatchesWrite,
                Chunk
  <2>5. Keeps
    BY <2>1 DEF Keeps, BackendInv, BackendTypeOK
  <2> QED BY <2>1, <2>2, <2>3, <2>4, <2>5, Frame DEF BackendInv
<1>2. ASSUME NEW w \in Worker,
             NewCall(w) \/ Audit(w) \/ Answer(w) \/ LedgerStep(w) \/ Housekeeping(w)
      PROVE  BackendInv'
  BY <1>2, NewCallPreserves, AuditPreserves, AnswerPreserves, LedgerStepPreserves,
     HousekeepingPreserves
<1>3. CASE Breakdown
  BY <1>3, BreakdownPreserves
<1> QED BY <1>1, <1>2, <1>3 DEF BackendNext

(* In every reachable state the worker past `acquire` is the one that      *)
(* holds the lock, every accepted record is whole in the synced part of    *)
(* the file, no two of them share an identifier, what passed the duplicate *)
(* check is still new, and nothing on file or on its way there says of a   *)
(* ticket what did not happen (JsonlAuditStore.write, DefaultSwsBackend).  *)
THEOREM BackendInvariant == BackendSpec => []BackendInv
<1>1. BackendInit => BackendInv
  BY InitEstablishes
<1>2. BackendInv /\ [BackendNext]_backendVars => BackendInv'
  BY NextPreserves
<1> QED BY <1>1, <1>2, PTL DEF BackendSpec

(* No answer without its records on disk, where a power cut leaves them,   *)
(* and no record of a ticket that did not reach that state (DefaultSws-    *)
(* Backend._audit, JsonlAuditStore.write).                                 *)
THEOREM AnswersAndRecordsAgreeAlways == BackendSpec => []AnswersAndRecordsAgree
<1>1. ASSUME BackendInv
      PROVE  AnswersAndRecordsAgree
  <2>1. \A r \in answered : Recorded(r)
    BY <1>1 DEF BackendInv, BackendTypeOK, LedgerInv, AcceptedAreOnDisk, Accepted
  <2>2. \A i \in DOMAIN file :
            LET about == file[i].record.about
            IN  about # Plain => Reached(about.ticket, about.status)
    <3>1. DOMAIN file = 1 .. Len(file)
      BY <1>1 DEF BackendInv, BackendTypeOK
    <3> QED BY <1>1, <3>1 DEF BackendInv, RecordsAreTrue, Says, Reached
  <2> QED BY <2>1, <2>2 DEF AnswersAndRecordsAgree
<1> QED BY <1>1, BackendInvariant, PTL

(* No identifier stands for two accepted records, whichever workers wrote  *)
(* them (the duplicate check of JsonlAuditStore.write).                    *)
THEOREM AcceptedIdsAreUniqueAlways == BackendSpec => []AcceptedIdsAreUnique
<1>1. ASSUME BackendInv
      PROVE  AcceptedIdsAreUnique
  BY <1>1 DEF BackendInv, BackendTypeOK, LedgerInv, AcceptedAreUnique, Accepted,
              AcceptedIdsAreUnique
<1> QED BY <1>1, BackendInvariant, PTL

-----------------------------------------------------------------------------
(* Collections: what a step collected is the snapshot of an account that   *)
(* may be read, or nothing. *)

CollectedIsARun == collected \in CollectionRuns \cup {NoCollection}

LEMMA CollectedIsARunIsKept ==
    ASSUME CollectedIsARun, [BackendNext]_backendVars
    PROVE  CollectedIsARun'
<1>1. CASE UNCHANGED backendVars
  BY <1>1 DEF backendVars, CollectedIsARun, CollectionRuns, NoCollection
<1>2. ASSUME collected' \in CollectionRuns \cup {NoCollection}
      PROVE  CollectedIsARun'
  BY <1>2 DEF CollectedIsARun, CollectionRuns, NoCollection
<1>3. ASSUME NEW w \in Worker, NewCall(w)
      PROVE  collected' \in CollectionRuns \cup {NoCollection}
  BY <1>3 DEF NewCall, ReadOnly, CollectWorkspace, CollectionRaises, Report, RequestApproval,
              DecideTicket, Refuse
<1>4. ASSUME NEW w \in Worker, Audit(w) \/ Answer(w) \/ LedgerStep(w) \/ Housekeeping(w)
      PROVE  collected' = NoCollection
  BY <1>4 DEF Audit, Answer, LedgerStep, Housekeeping
<1>5. CASE Breakdown
  BY <1>2, <1>5 DEF Breakdown
<1> QED
  BY <1>1, <1>2, <1>3, <1>4, <1>5 DEF BackendNext

(* A snapshot that calls itself neither partial nor truncated has all that *)
(* the regions read hold and left a region unread only at its limit, and   *)
(* the policy reports no tag as missing that was not looked up: for every  *)
(* limit, and any regions, pages, items and failing reads                  *)
(* (inventory.py, workspace.collect_workspace, policy.py).                 *)
THEOREM SnapshotsDoNotOverclaimAlways == BackendSpec => []SnapshotsDoNotOverclaim
<1>1. BackendInit => CollectedIsARun
  BY DEF BackendInit, CollectedIsARun
<1>2. CollectedIsARun /\ [BackendNext]_backendVars => CollectedIsARun'
  BY CollectedIsARunIsKept
<1>3. ASSUME CollectedIsARun
      PROVE  SnapshotsDoNotOverclaim
  <2> SUFFICES ASSUME collected # NoCollection
               PROVE  /\ Complete(collected.snapshot) =>
                            NothingMissed(collected.request, collected.account, collected.snapshot)
                      /\ MissingTagsAreFacts(collected.snapshot)
    BY DEF SnapshotsDoNotOverclaim
  <2>1. PICK request \in Requests, account \in Accounts :
            collected = [request |-> request, account |-> account,
                         snapshot |-> Snapshot(request, account)]
    BY <1>3 DEF CollectedIsARun, CollectionRuns
  <2>2. IsRequest(request) /\ IsAccount(account)
    BY CollectionAssumption
  <2>3. /\ collected.request = request /\ collected.account = account
        /\ collected.snapshot = Snapshot(request, account)
    BY <2>1
  <2> QED
    BY <2>2, <2>3, CompleteSnapshotsMissNothing, MissingTagsWereLookedUp
<1> QED
  BY <1>1, <1>2, <1>3, PTL DEF BackendSpec
=============================================================================
