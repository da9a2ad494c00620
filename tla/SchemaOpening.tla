--------------------------- MODULE SchemaOpening ---------------------------
(***************************************************************************)
(* Opening a ledger file (execution_ledger.py and approval_ledger.py):     *)
(* several processes open the same file at once.  The file may not exist   *)
(* yet, be at the version before this build's, be current, or be of a      *)
(* version this build does not know; any process may stop at any point.    *)
(*                                                                         *)
(* Both ledgers create a new file in one transaction.  The execution       *)
(* ledger also migrates in one, after reading the version again under the  *)
(* write lock; the approval ledger migrates on a connection in autocommit  *)
(* mode, one statement at a time.                                          *)
(***************************************************************************)
EXTENDS Naturals

CONSTANTS
    Opener,     \* processes that open the file
    Columns,    \* how many columns the migration adds, one ALTER TABLE each
    Retries     \* _EMPTY_SCHEMA_RETRIES

ASSUME ColumnsAssumption == Columns \in Nat \ {0}
ASSUME RetriesAssumption == Retries \in Nat \ {0}

VARIABLES
    ledger,     \* "execution" or "approval": whose file it is
    file,       \* the committed content of the file
    disk,       \* "empty", "writing" (first commit under way), "hot" (it was
                \* cut short: a hot journal) or "sized" (pages are in place)
    pc,         \* pc[o]: what opener o does next
    attempts,   \* attempts[o]: looks at a file without tables
    added       \* added[o]: how many columns o's own migration has added

openVars == <<ledger, file, disk, pc, attempts, added>>

-----------------------------------------------------------------------------
(* Vocabulary. *)

(* meta.schema_version: "none" when there are no tables at all. *)
Versions == {"none", "previous", "current", "unknown"}

(* basis: the reexecution_class of a settled row that version "previous"   *)
(* has no column for: not there, filled in by the migration, or recorded   *)
(* by a worker since.                                                      *)
Content == [version : Versions, columns : 0 .. Columns,
            basis : {"none", "backfilled", "recorded"}]

NoSchema == [version |-> "none", columns |-> 0, basis |-> "none"]
PreviousSchema == [NoSchema EXCEPT !.version = "previous"]
CurrentSchema == [version |-> "current", columns |-> Columns, basis |-> "none"]
UnknownSchema == [NoSchema EXCEPT !.version = "unknown"]

Places == {"look", "create", "commit", "adopt", "migrate", "check",
           "open", "refused", "failed", "crashed", "crashed_writing"}

Ended(o) == pc[o] \in {"open", "refused", "failed", "crashed", "crashed_writing"}

Goto(o, place) == pc' = [pc EXCEPT ![o] = place]

(* No first commit holds the file's exclusive lock. *)
Unlocked == disk # "writing"

-----------------------------------------------------------------------------
(* Creating. *)

(* __init__: "is this file new?" is asked before connecting. *)
Look(o) ==
    /\ pc[o] = "look"
    /\ Goto(o, IF disk = "empty" THEN "create" ELSE "adopt")
    /\ UNCHANGED <<ledger, file, disk, attempts, added>>

(* _initialize: CREATE TABLE IF NOT EXISTS under the write lock.  Whoever  *)
(* comes second finds the tables and only compares the version.            *)
Create(o) ==
    /\ pc[o] = "create"
    /\ Unlocked
    /\ IF file.version = "none"
       THEN disk' = "writing" /\ Goto(o, "commit")
       ELSE /\ Goto(o, IF file.version = "current" THEN "open" ELSE "refused")
            /\ UNCHANGED disk
    /\ UNCHANGED <<ledger, file, attempts, added>>

CommitCreate(o) ==
    /\ pc[o] = "commit"
    /\ file' = CurrentSchema
    /\ disk' = "sized"
    /\ Goto(o, "open")
    /\ UNCHANGED <<ledger, attempts, added>>

-----------------------------------------------------------------------------
(* Adopting a file that was there. *)

(* Reading a file with a hot journal rolls its cut-short commit back. *)
AfterRollback == IF disk = "hot" THEN "empty" ELSE disk

(* Mutants: looks are not counted; one too many is taken. *)
AdoptEmptyForever(o) ==
    /\ pc[o] = "adopt"
    /\ Unlocked
    /\ file.version = "none"
    /\ disk' = AfterRollback
    /\ UNCHANGED <<ledger, file, pc, attempts, added>>
AdoptEmptyOnceMore(o) ==
    /\ pc[o] = "adopt"
    /\ Unlocked
    /\ file.version = "none"
    /\ disk' = AfterRollback
    /\ attempts' = [attempts EXCEPT ![o] = @ + 1]
    /\ Goto(o, IF attempts[o] < Retries THEN "adopt" ELSE "refused")
    /\ UNCHANGED <<ledger, file, added>>

(* _adopt_existing finds no tables: it looks again a number of times. *)
AdoptEmpty(o) ==
    /\ pc[o] = "adopt"
    /\ Unlocked
    /\ file.version = "none"
    /\ disk' = AfterRollback
    /\ attempts' = [attempts EXCEPT ![o] = @ + 1]
    /\ Goto(o, IF attempts[o] + 1 < Retries THEN "adopt" ELSE "refused")
    /\ UNCHANGED <<ledger, file, added>>

(* It finds tables and reads the version: _migrate_if_supported and        *)
(* _migrate step from the previous version, and from no other.             *)
AdoptSchema(o) ==
    /\ pc[o] = "adopt"
    /\ Unlocked
    /\ file.version # "none"
    /\ Goto(o, CASE file.version = "previous" -> "migrate"
                 [] file.version = "current"  -> "check"
                 [] OTHER                     -> "refused")
    /\ UNCHANGED <<ledger, file, disk, attempts, added>>

(* What the execution ledger's migration leaves: every settled row has its *)
(* basis filled in.                                                        *)
Migrated == [version |-> "current", columns |-> Columns, basis |-> "backfilled"]

(* Mutant: the migration trusts the version read outside the transaction,  *)
(* and adds only the columns that are missing.                             *)
MigrateOnFirstRead(o) ==
    /\ pc[o] = "migrate"
    /\ ledger = "execution"
    /\ file' = Migrated
    /\ Goto(o, "check")
    /\ UNCHANGED <<ledger, disk, attempts, added>>

(* Mutant: the statements run outside the transaction that reads. *)
MigrateInParts(o) ==
    /\ pc[o] = "migrate"
    /\ ledger = "execution"
    /\ IF file.version # "previous" THEN Goto(o, "check") /\ UNCHANGED file
       ELSE IF file.columns # Columns
       THEN file' = [file EXCEPT !.columns = Columns] /\ UNCHANGED pc
       ELSE file' = Migrated /\ Goto(o, "check")
    /\ UNCHANGED <<ledger, disk, attempts, added>>

(* _migrate_if_supported: one transaction, which decides on the version it *)
(* reads under the write lock.                                             *)
MigrateUnderLock(o) ==
    /\ pc[o] = "migrate"
    /\ ledger = "execution"
    /\ file' = IF file.version = "previous" THEN Migrated ELSE file
    /\ Goto(o, "check")
    /\ UNCHANGED <<ledger, disk, attempts, added>>

(* _migrate: the next ALTER TABLE, committed at once. *)
AddColumn(o) ==
    /\ pc[o] = "migrate"
    /\ ledger = "approval"
    /\ added[o] < Columns
    /\ file.columns = added[o]
    /\ file' = [file EXCEPT !.columns = @ + 1]
    /\ added' = [added EXCEPT ![o] = @ + 1]
    /\ UNCHANGED <<ledger, disk, pc, attempts>>

(* The column is there already: the driver's error is raised as it is. *)
DuplicateColumn(o) ==
    /\ pc[o] = "migrate"
    /\ ledger = "approval"
    /\ added[o] < Columns
    /\ file.columns # added[o]
    /\ Goto(o, "failed")
    /\ UNCHANGED <<ledger, file, disk, attempts, added>>

(* Mutant: the version is the first statement of the migration. *)
SetVersionFirst(o) ==
    /\ pc[o] = "migrate"
    /\ ledger = "approval"
    /\ file' = [file EXCEPT !.version = "current"]
    /\ Goto(o, "check")
    /\ UNCHANGED <<ledger, disk, attempts, added>>

(* The version is the last statement of the migration. *)
SetVersion(o) ==
    /\ pc[o] = "migrate"
    /\ ledger = "approval"
    /\ added[o] = Columns
    /\ file' = [file EXCEPT !.version = "current"]
    /\ Goto(o, "check")
    /\ UNCHANGED <<ledger, disk, attempts, added>>

(* _verify_schema_version, after whatever migration there was. *)
Check(o) ==
    /\ pc[o] = "check"
    /\ Goto(o, IF file.version = "current" THEN "open" ELSE "refused")
    /\ UNCHANGED <<ledger, file, disk, attempts, added>>

-----------------------------------------------------------------------------
(* A process stops.  Its connection's open transaction is rolled back; a   *)
(* commit that had begun to write is left for the next reader.             *)
Crash(o) ==
    /\ ~Ended(o)
    /\ IF pc[o] = "commit"
       THEN disk' = "hot" /\ Goto(o, "crashed_writing")
       ELSE UNCHANGED disk /\ Goto(o, "crashed")
    /\ UNCHANGED <<ledger, file, attempts, added>>

(* A worker that has the execution ledger open settles the row. *)
RecordBasis(o) ==
    /\ pc[o] = "open"
    /\ ledger = "execution"
    /\ file' = [file EXCEPT !.basis = "recorded"]
    /\ UNCHANGED <<ledger, disk, pc, attempts, added>>

OpenInit ==
    /\ ledger \in {"execution", "approval"}
    /\ \/ file = NoSchema /\ disk = "empty"
       \/ file \in {PreviousSchema, CurrentSchema, UnknownSchema} /\ disk = "sized"
    /\ pc = [o \in Opener |-> "look"]
    /\ attempts = [o \in Opener |-> 0]
    /\ added = [o \in Opener |-> 0]

OpenStep(o) ==
    \/ Look(o) \/ Create(o) \/ CommitCreate(o)
    \/ AdoptEmpty(o) \/ AdoptSchema(o)
    \/ MigrateUnderLock(o)
    \/ AddColumn(o) \/ DuplicateColumn(o) \/ SetVersion(o)
    \/ Check(o)

OpenNext == \E o \in Opener : OpenStep(o) \/ Crash(o) \/ RecordBasis(o)

OpenSpec == OpenInit /\ [][OpenNext]_openVars

(* A process that opens the file goes on until it crashes. *)
FairOpenSpec == OpenSpec /\ \A o \in Opener : WF_openVars(OpenStep(o))

-----------------------------------------------------------------------------
(* Properties. *)

(* Every variable holds a value of its type. *)
OpenTypeOK ==
    /\ ledger \in {"execution", "approval"}
    /\ file \in Content
    /\ disk \in {"empty", "writing", "hot", "sized"}
    /\ pc \in [Opener -> Places]
    /\ attempts \in [Opener -> 0 .. Retries]
    /\ added \in [Opener -> 0 .. Columns]

(* A file that says it is current has the current layout, and no opener    *)
(* returns before that: whoever else was migrating, or died doing so.      *)
OpenMeansCurrent ==
    /\ file.version = "current" => file.columns = Columns
    /\ \A o \in Opener : pc[o] = "open" => file.version = "current"

HalfUpgraded == file.version = "previous" /\ file.columns # 0

(* The execution ledger is never left half migrated, and of several        *)
(* processes that migrate it at once none fails, nor is any refused unless *)
(* the file is foreign or its creator died.                                *)
ExecutionLedgerOpens ==
    ledger = "execution" =>
        /\ ~HalfUpgraded
        /\ \A o \in Opener :
              /\ pc[o] # "failed"
              /\ pc[o] = "refused" =>
                    \/ file.version = "unknown"
                    \/ \E c \in Opener : pc[c] = "crashed_writing"

(* The migration's backfill never overwrites a basis that a worker         *)
(* recorded since: a settled execution cannot become repeatable by         *)
(* another process opening the file late.                                  *)
RecordedBasisIsKept ==
    [][file.basis = "recorded" => file'.basis = "recorded"]_file

(* No opener waits for ever on another, or on its journal. *)
OpeningEnds == \A o \in Opener : <>Ended(o)

(* "Every step runs inside the caller's transaction, so a migration that   *)
(* fails partway leaves the file at its previous version instead of at a   *)
(* half-upgraded one the next open would refuse to read"                   *)
(* (approval_ledger.py, _migrate): when nobody is migrating, the file is   *)
(* not half upgraded.                                                      *)
PartialMigrationIsRolledBack ==
    HalfUpgraded => \E o \in Opener : pc[o] = "migrate"

-----------------------------------------------------------------------------
(* The inductive invariant behind the safety properties. *)

CreatorDied == \E c \in Opener : pc[c] = "crashed_writing"

(* A first commit under way is alone, and there are no tables before it. *)
CreationIsExclusive ==
    /\ disk = "sized" <=> file.version # "none"
    /\ disk = "hot" => CreatorDied
    /\ \A o \in Opener : pc[o] = "commit" =>
          disk = "writing" /\ \A c \in Opener : pc[c] = "commit" => c = o
    /\ disk = "writing" => \E o \in Opener : pc[o] = "commit"

(* The new columns are there when the version says so; a migration that    *)
(* adds them one by one finds at least its own.                            *)
ColumnsMatchVersion ==
    /\ file.version \in {"none", "unknown"} => file.columns = 0
    /\ file.version = "current" => file.columns = Columns
    /\ file.basis # "none" => file.version = "current"
    /\ ledger = "execution" /\ file.version = "previous" => file.columns = 0
    /\ ledger = "approval" => \A o \in Opener : added[o] <= file.columns

(* What each place in __init__ knows about the file. *)
PlacesAreJustified ==
    \A o \in Opener :
        /\ pc[o] = "create" => file.version \in {"none", "current"}
        /\ pc[o] = "adopt" /\ file.version = "none" =>
              disk = "writing" \/ CreatorDied
        /\ pc[o] = "migrate" => file.version \in {"previous", "current"}
        /\ pc[o] \in {"check", "open"} => file.version = "current"
        /\ pc[o] = "adopt" => attempts[o] < Retries
        /\ pc[o] = "look" => attempts[o] = 0

OpenInv ==
    /\ OpenTypeOK
    /\ CreationIsExclusive
    /\ ColumnsMatchVersion
    /\ PlacesAreJustified
    /\ ExecutionLedgerOpens
=============================================================================
