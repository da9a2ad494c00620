SPECIFICATION OpenSpec
CONSTANTS
    Opener = {o1, o2, o3}
    Columns = 2
    Retries = 2
INVARIANTS
    PartialMigrationIsRolledBack
SYMMETRY OpenerSymmetry
CHECK_DEADLOCK FALSE
