SPECIFICATION CoordinatorSpec
CONSTANTS
    Process = {p, q}
    Operator = operator
    i1 = i1
    Intent <- MCIntent
    Ticket = {t1, t2}
    IntentOf <- MCIntentOf
    ExecutionTTL = 0
    MaxClock = 2
    Faults = TRUE
INVARIANTS
    CoordinatorTypeOK
    AmbiguityIsNeverRepeated
    DispatchIsAuthorized
    SettlementIsAudited
    PostIsCorroborated
SYMMETRY CoordinatorSymmetry
CHECK_DEADLOCK FALSE
