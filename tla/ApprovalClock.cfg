SPECIFICATION ApprovalSpec
CONSTANTS
    Ticket = {t1}
    Client = {a, b}
    Nonce = {n1}
    DecisionTTL = 1
    ExecutionTTL = 1
    MaxClock = 4
    ClockMayStepBack = TRUE
PROPERTIES
    DecidersSawAnOpenWindow
SYMMETRY StoreSymmetry
CHECK_DEADLOCK FALSE
