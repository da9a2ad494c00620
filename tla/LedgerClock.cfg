SPECIFICATION Spec
CONSTANTS
    c1 = c1
    c2 = c2
    c3 = c3
    w1 = w1
    w2 = w2
    Intent = {i1, i2}
    Ticket = {t1, t2}
    Caller <- SoloCaller
    Worker <- MCWorker
    WorkerOf <- SoloWorkerOf
    Revision = {1}
    Recorded = {"not_executed"}
    ClockMayStepBack = TRUE
INVARIANTS
    LedgerInv
    LineageAccepted
SYMMETRY IntentSymmetry
CHECK_DEADLOCK FALSE
