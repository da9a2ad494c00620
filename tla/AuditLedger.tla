---------------------------- MODULE AuditLedger ----------------------------
(***************************************************************************)
(* The audit ledger (audit.py, JsonlAuditStore): one JSONL file that       *)
(* several workers append to, each through a handle of its own, under an   *)
(* advisory lock.  A write reads the whole file, refuses an identifier     *)
(* that is there already, appends one line and syncs it.                   *)
(*                                                                         *)
(* Appends may be cut short (a full disk): what was not written stays in   *)
(* the buffer of the handle, and reaches the file with its next seek or    *)
(* close.  A worker may stop between any two steps, and the machine may    *)
(* lose what was not synced.  The file is opened with O_APPEND on a POSIX  *)
(* system: what one call of the system appends is contiguous.              *)
(***************************************************************************)
EXTENDS Naturals, Sequences, SequencesExt

CONSTANTS
    Worker,         \* processes with a handle of their own on the file
    Id,             \* what the id_source may return
    Shape,          \* of a payload: "plain", or "broken" when it holds a
                    \* character at which splitlines() breaks a line
    MaxFaults,      \* bound: appends cut short, failing syncs
    MaxStops        \* bound: workers that stop, and power cuts

ASSUME LedgerAssumption ==
    /\ "none" \notin Worker
    /\ Shape \subseteq {"plain", "broken"}
    /\ MaxFaults \in Nat /\ MaxStops \in Nat

VARIABLES
    file,       \* the file: a sequence of chunks of text
    synced,     \* how many of its chunks a power cut leaves alone
    lock,       \* the worker that holds the lock, or "none"
    handle,     \* handle[w]: is it open, what its buffer still holds
    write,      \* write[w]: the call of write() under way, its step and result
    faults,     \* appends cut short and syncs that failed so far
    stops       \* workers stopped and power cuts so far

ledgerVars == <<file, synced, lock, handle, write, faults, stops>>

-----------------------------------------------------------------------------
(* The file.  A record is the envelope of one write; a chunk is the part   *)
(* of its line that one append wrote: all of it ("line"), its start        *)
(* ("head"), all but the newline ("text"), or what was missing then.       *)

Chunk(r, part) == [record |-> r, part |-> part]

(* Where an append of a line may be cut, and what is left of the line. *)
Remainder == [head |-> "rest", text |-> "newline"]

EndsLine(c) == c.part \in {"line", "rest", "newline"}

StartsLine(f, i) == i > 1 => EndsLine(f[i - 1])

(* The chunk f[i] is the start of a line, or what its first chunk lacked.  *)
Opens(f, i, part) == f[i].part = part /\ StartsLine(f, i)
Closes(f, i, cut) ==
    f[i].part = Remainder[cut] /\ i > 1 /\ f[i - 1] = Chunk(f[i].record, cut)

(* Is the line that f[i] belongs to the text of one envelope, alone?  The  *)
(* last line of the file may lack its newline.                             *)
Whole(f, i) ==
    /\ f[i].record.shape = "plain"
    /\ \/ Opens(f, i, "line")
       \/ Opens(f, i, "head") /\ i < Len(f) /\ Closes(f, i + 1, "head")
       \/ Opens(f, i, "text") /\ (i < Len(f) => Closes(f, i + 1, "text"))
       \/ \E cut \in DOMAIN Remainder : Closes(f, i, cut)

(* Does _refresh parse every line?  It raises CorruptLedgerError if not. *)
Readable(f) == \A i \in DOMAIN f : Whole(f, i)

(* The identifiers of the view that _refresh rebuilds. *)
Ids(f) == {f[i].record.id : i \in DOMAIN f}

-----------------------------------------------------------------------------
(* A call of write(), step by step. *)

NoRecord == [id |-> "none"]

Quiet == [step |-> "idle", record |-> NoRecord, result |-> "none"]

(* The buffer reaches the file before anything else the handle does. *)
Flushed(w) == file \o handle[w].buffer

GoOn(w, step, result) ==
    write' = [write EXCEPT ![w] = [step |-> step, record |-> @.record, result |-> result]]

(* The result of the call is fixed; only the lock is still to be released. *)
Finish(w, result) == GoOn(w, "release", result)

(* write: a closed store refuses at once; an open one waits for the lock. *)
StartWrite(w, r) ==
    /\ write[w].step = "idle"
    /\ write' = [write EXCEPT ![w] =
          IF handle[w].open THEN [step |-> "acquire", record |-> r, result |-> "none"]
          ELSE [step |-> "idle", record |-> r, result |-> "error"]]

(* _acquire_ledger_lock. *)
Acquire(w) ==
    /\ write[w].step = "acquire"
    /\ lock = "none"
    /\ lock' = w
    /\ GoOn(w, "refresh", "none")
    /\ UNCHANGED <<file, synced, handle, faults, stops>>

(* Mutant: a cached view that holds what this worker wrote. *)
OwnIds(w, f) == {f[i].record.id : i \in {j \in DOMAIN f : f[j].record.by = w}}

(* The identifiers that the duplicate check looks at: _refresh has just    *)
(* rebuilt the view from the file, so the view needs no variable.          *)
KnownIds(w, f) == Ids(f)

(* _refresh and the duplicate check.  The seek flushes the buffer. *)
Refresh(w) ==
    /\ write[w].step = "refresh"
    /\ file' = Flushed(w)
    /\ handle' = [handle EXCEPT ![w].buffer = <<>>]
    /\ IF Readable(file') /\ write[w].record.id \notin KnownIds(w, file')
       THEN GoOn(w, "append", "none")
       ELSE Finish(w, "error")
    /\ UNCHANGED <<synced, lock, faults, stops>>

(* Nothing can be flushed or read. *)
RefreshFails(w) ==
    /\ write[w].step = "refresh" /\ faults < MaxFaults
    /\ Finish(w, "error")
    /\ faults' = faults + 1
    /\ UNCHANGED <<file, synced, lock, handle, stops>>

(* The line is written and flushed. *)
AppendLine(w) ==
    /\ write[w].step = "append"
    /\ file' = Append(file, Chunk(write[w].record, "line"))
    /\ GoOn(w, "sync", "none")
    /\ UNCHANGED <<synced, lock, handle, faults, stops>>

(* OSError becomes AuditStoreError. *)
Fail(w) == Finish(w, "error")

(* The append fails: nothing is written, or a part of the line is; the     *)
(* buffer keeps what is missing.                                           *)
AppendFails(w) ==
    /\ write[w].step = "append" /\ faults < MaxFaults
    /\ \/ /\ handle' = [handle EXCEPT ![w].buffer = <<Chunk(write[w].record, "line")>>]
          /\ UNCHANGED file
       \/ \E cut \in DOMAIN Remainder :
             /\ file' = Append(file, Chunk(write[w].record, cut))
             /\ handle' = [handle EXCEPT ![w].buffer =
                                <<Chunk(write[w].record, Remainder[cut])>>]
    /\ Fail(w)
    /\ faults' = faults + 1
    /\ UNCHANGED <<synced, lock, stops>>

(* Mutant: the write returns once its line is flushed, without the fsync. *)
SyncedAtFlush(w) == UNCHANGED synced

SyncedNow(w) == synced' = Len(file)

(* os.fsync, then the record is accepted. *)
Sync(w) ==
    /\ write[w].step = "sync"
    /\ SyncedNow(w)
    /\ Finish(w, "ok")
    /\ UNCHANGED <<file, lock, handle, faults, stops>>

SyncFails(w) ==
    /\ write[w].step = "sync" /\ faults < MaxFaults
    /\ Fail(w)
    /\ faults' = faults + 1
    /\ UNCHANGED <<file, synced, lock, handle, stops>>

(* Mutant: an exception leaves the lock where it is. *)
ReleasedOnSuccess(w) == IF write[w].result = "ok" THEN "none" ELSE lock

(* _ledger_lock: the lock is released whatever happened under it. *)
Released(w) == "none"

(* _release_ledger_lock. *)
Release(w) ==
    /\ write[w].step = "release"
    /\ lock' = Released(w)
    /\ GoOn(w, "idle", write[w].result)
    /\ UNCHANGED <<file, synced, handle, faults, stops>>

-----------------------------------------------------------------------------
(* Handles. *)

Opened == [open |-> TRUE, buffer |-> <<>>]
Closed == [open |-> FALSE, buffer |-> <<>>]

(* JsonlAuditStore: opening reads the file under the lock, and raises on a *)
(* line that is not an envelope.  records and __len__ read the same way.   *)
Open(w) ==
    /\ ~handle[w].open /\ lock = "none"
    /\ Readable(file)
    /\ handle' = [handle EXCEPT ![w] = Opened]
    /\ UNCHANGED <<file, synced, lock, write, faults, stops>>

(* close: the buffer reaches the file, without the lock. *)
Close(w) ==
    /\ handle[w].open /\ write[w].step = "idle"
    /\ file' = Flushed(w)
    /\ handle' = [handle EXCEPT ![w] = Closed]
    /\ UNCHANGED <<synced, lock, write, faults, stops>>

(* The process ends: its buffer is lost, the system releases its lock. *)
Lost(W) ==
    /\ handle' = [w \in Worker |-> IF w \in W THEN Closed ELSE handle[w]]
    /\ write' = [w \in Worker |-> IF w \in W THEN Quiet ELSE write[w]]
    /\ lock' = IF lock \in W THEN "none" ELSE lock
    /\ stops' = stops + 1

Stop(w) ==
    /\ handle[w].open /\ stops < MaxStops
    /\ Lost({w})
    /\ UNCHANGED <<file, synced, faults>>

(* A power cut: every worker stops, and of what was not synced the file    *)
(* keeps some chunks and may keep a part of the next.                      *)
PowerCut ==
    /\ stops < MaxStops
    /\ \E k \in synced .. Len(file) :
          \/ file' = SubSeq(file, 1, k)
          \/ /\ k < Len(file) /\ file[k + 1].part = "line"
             /\ \E cut \in DOMAIN Remainder :
                   file' = Append(SubSeq(file, 1, k), Chunk(file[k + 1].record, cut))
    /\ synced' = Len(file')
    /\ Lost(Worker)
    /\ UNCHANGED faults

-----------------------------------------------------------------------------
LedgerInit ==
    /\ file = <<>> /\ synced = 0 /\ lock = "none"
    /\ handle = [w \in Worker |-> Opened]
    /\ write = [w \in Worker |-> Quiet]
    /\ faults = 0 /\ stops = 0

(* A step of a call that is under way. *)
WriteStep(w) ==
    \/ Acquire(w) \/ Refresh(w) \/ RefreshFails(w) \/ AppendLine(w)
    \/ AppendFails(w) \/ Sync(w) \/ SyncFails(w) \/ Release(w)
=============================================================================
