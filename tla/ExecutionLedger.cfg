SPECIFICATION Spec
CONSTANTS
    c1 = c1
    c2 = c2
    c3 = c3
    w1 = w1
    w2 = w2
    Intent = {i1}
    Ticket = {t1, t2, t3}
    Caller <- MCCaller
    Worker <- MCWorker
    WorkerOf <- MCWorkerOf
    Revision = {1}
    Recorded = {"refused", "not_executed", "verified_success",
                "partially_verified", "failed", "unknown"}
    ClockMayStepBack = FALSE
INVARIANTS
    OneBlockingRowPerIntent
    VerifyAccepts
    LineageNamesThePredecessor
PROPERTIES
    MovesFollowTheTable
    LicenseSpec
SYMMETRY ThreadSymmetry
CHECK_DEADLOCK FALSE
