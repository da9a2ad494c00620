SPECIFICATION FairCoordinatorSpec
CONSTANTS
    Process = {p, q}
    Operator = operator
    i1 = i1
    Intent <- MCIntent
    Ticket = {t1, t2}
    IntentOf <- MCIntentOf
    ExecutionTTL = 0
    MaxClock = 2
    Faults = FALSE
PROPERTIES
    SpentApprovalsSettle
CHECK_DEADLOCK FALSE
