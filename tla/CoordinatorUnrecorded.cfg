SPECIFICATION CoordinatorSpec
CONSTANTS
    Process = {p}
    Operator = operator
    i1 = i1
    Intent <- MCIntent
    Ticket = {t1}
    IntentOf <- MCIntentOf
    ExecutionTTL = 0
    MaxClock = 2
    Faults = TRUE
INVARIANTS
    UnrecordedOutcomeStaysOpen
CHECK_DEADLOCK FALSE
