SPECIFICATION ApprovalSpec
CONSTANTS
    Ticket = {t1, t2}
    Client = {a, b}
    Nonce = {n1}
    DecisionTTL = 1
    ExecutionTTL = 1
    MaxClock = 3
    ClockMayStepBack = FALSE
INVARIANTS
    ApprovalTypeOK
    HistoryIsComplete
    NonceBindsGrant
PROPERTIES
    TicketsFollowTheTable
SYMMETRY StoreSymmetry
CHECK_DEADLOCK FALSE
