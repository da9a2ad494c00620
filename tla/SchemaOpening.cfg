SPECIFICATION FairOpenSpec
CONSTANTS
    Opener = {o1, o2, o3}
    Columns = 2
    Retries = 2
INVARIANTS
    OpenInv
    OpenMeansCurrent
    ExecutionLedgerOpens
PROPERTIES
    RecordedBasisIsKept
    OpeningEnds
CHECK_DEADLOCK FALSE
