------------------------ MODULE SchemaOpeningProofs ------------------------
(***************************************************************************)
(* Theorems about SchemaOpening, for any number of processes, columns and  *)
(* retries.                                                                *)
(*                                                                         *)
(* The argument: the first commit holds the file alone, so nobody sees     *)
(* tables before it ends; from then on the version only ever goes from     *)
(* "previous" to "current", and each ledger's migration makes that change  *)
(* when every column is there.                                             *)
(***************************************************************************)
EXTENDS SchemaOpening, TLAPS

USE DEF OpenTypeOK, Content, Versions, Places, Ended, Goto, Unlocked

(* The parts of OpenInv, and the parts they are made of. *)
USE DEF OpenInv, CreatorDied, CreationIsExclusive, ColumnsMatchVersion,
        PlacesAreJustified, ExecutionLedgerOpens, HalfUpgraded

LEMMA InitEstablishes == OpenInit => OpenInv
BY ColumnsAssumption, RetriesAssumption
DEF OpenInit, NoSchema, PreviousSchema, CurrentSchema, UnknownSchema

LEMMA LookPreserves ==
    ASSUME OpenInv, NEW o \in Opener, Look(o) PROVE OpenInv'
BY RetriesAssumption DEF Look

LEMMA CreatePreserves ==
    ASSUME OpenInv, NEW o \in Opener, Create(o) PROVE OpenInv'
BY DEF Create

LEMMA CommitCreatePreserves ==
    ASSUME OpenInv, NEW o \in Opener, CommitCreate(o) PROVE OpenInv'
BY ColumnsAssumption DEF CommitCreate, CurrentSchema

LEMMA AdoptEmptyPreserves ==
    ASSUME OpenInv, NEW o \in Opener, AdoptEmpty(o) PROVE OpenInv'
BY RetriesAssumption DEF AdoptEmpty, AfterRollback

LEMMA AdoptSchemaPreserves ==
    ASSUME OpenInv, NEW o \in Opener, AdoptSchema(o) PROVE OpenInv'
BY DEF AdoptSchema

LEMMA MigrateUnderLockPreserves ==
    ASSUME OpenInv, NEW o \in Opener, MigrateUnderLock(o) PROVE OpenInv'
BY ColumnsAssumption DEF MigrateUnderLock, Migrated

LEMMA AddColumnPreserves ==
    ASSUME OpenInv, NEW o \in Opener, AddColumn(o) PROVE OpenInv'
BY ColumnsAssumption DEF AddColumn

LEMMA DuplicateColumnPreserves ==
    ASSUME OpenInv, NEW o \in Opener, DuplicateColumn(o) PROVE OpenInv'
BY DEF DuplicateColumn

LEMMA SetVersionPreserves ==
    ASSUME OpenInv, NEW o \in Opener, SetVersion(o) PROVE OpenInv'
BY ColumnsAssumption DEF SetVersion

LEMMA CheckPreserves ==
    ASSUME OpenInv, NEW o \in Opener, Check(o) PROVE OpenInv'
BY DEF Check

LEMMA CrashPreserves ==
    ASSUME OpenInv, NEW o \in Opener, Crash(o) PROVE OpenInv'
BY DEF Crash

LEMMA RecordBasisPreserves ==
    ASSUME OpenInv, NEW o \in Opener, RecordBasis(o) PROVE OpenInv'
BY DEF RecordBasis

LEMMA StepPreserves == OpenInv /\ [OpenNext]_openVars => OpenInv'
<1> SUFFICES ASSUME OpenInv, [OpenNext]_openVars PROVE OpenInv'
  OBVIOUS
<1>1. ASSUME NEW o \in Opener, OpenStep(o) \/ Crash(o) \/ RecordBasis(o)
      PROVE  OpenInv'
  <2> HIDE DEF OpenInv
  <2>1. QED
    BY <1>1, LookPreserves, CreatePreserves, CommitCreatePreserves,
       AdoptEmptyPreserves, AdoptSchemaPreserves, MigrateUnderLockPreserves,
       AddColumnPreserves, DuplicateColumnPreserves, SetVersionPreserves,
       CheckPreserves, CrashPreserves, RecordBasisPreserves
    DEF OpenStep
<1>2. CASE UNCHANGED openVars
  BY <1>2 DEF openVars
<1>3. QED
  BY <1>1, <1>2 DEF OpenNext

-----------------------------------------------------------------------------
(* The theorems. *)

HIDE DEF OpenInv, CreatorDied, CreationIsExclusive, ColumnsMatchVersion,
         PlacesAreJustified, ExecutionLedgerOpens

(* The inductive invariant holds in every reachable state, whoever races   *)
(* and whoever stops (_initialize, _adopt_existing and the migrations).    *)
THEOREM OpenInvariant == OpenSpec => []OpenInv
<1>1. OpenInit => OpenInv
  BY InitEstablishes
<1>2. OpenInv /\ [OpenNext]_openVars => OpenInv'
  BY StepPreserves
<1>3. QED
  BY <1>1, <1>2, PTL DEF OpenSpec

(* Nobody runs on a file whose layout is not this build's.                 *)
THEOREM OpenersRunOnCurrentLayout == OpenSpec => []OpenMeansCurrent
<1>1. OpenInv => OpenMeansCurrent
  BY DEF OpenMeansCurrent, OpenInv, ColumnsMatchVersion, PlacesAreJustified
<1>2. QED
  BY <1>1, OpenInvariant, PTL

(* The execution ledger is never half upgraded, no process fails because   *)
(* another migrated the file at the same time, and none is refused unless  *)
(* the file is foreign or its creator died.                                *)
THEOREM ExecutionLedgerAlwaysOpens == OpenSpec => []ExecutionLedgerOpens
<1>1. OpenInv => ExecutionLedgerOpens
  BY DEF OpenInv
<1>2. QED
  BY <1>1, OpenInvariant, PTL

(* The backfill of a late migration never overwrites a recorded basis.     *)
THEOREM RecordedBasisIsAlwaysKept == OpenSpec => RecordedBasisIsKept
<1>1. ASSUME OpenInv, [OpenNext]_openVars, file.basis = "recorded"
      PROVE  file'.basis = "recorded"
  <2>1. file.version = "current"
    BY <1>1 DEF OpenInv, ColumnsMatchVersion
  <2>2. ASSUME NEW o \in Opener, CommitCreate(o) PROVE FALSE
    BY <1>1, <2>1, <2>2 DEF CommitCreate, OpenInv, CreationIsExclusive
  <2>3. ASSUME NEW o \in Opener, MigrateUnderLock(o) PROVE file' = file
    BY <2>1, <2>3 DEF MigrateUnderLock
  <2>4. QED
    BY <1>1, <2>2, <2>3
    DEF OpenNext, OpenStep, Look, Create, AdoptEmpty, AdoptSchema, AddColumn,
        DuplicateColumn, SetVersion, Check, Crash, RecordBasis, openVars,
        OpenInv
<1>2. QED
  BY <1>1, OpenInvariant, PTL DEF OpenSpec, RecordedBasisIsKept
=============================================================================
