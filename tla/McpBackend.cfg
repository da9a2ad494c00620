SPECIFICATION FairBackendSpec
CONSTANTS
    w1 = w1
    w2 = w2
    t1 = t1
    a = a
    b = b
    Worker = {w1, w2}
    Id = {a, b}
    Ticket = {t1}
    Shape = {"plain"}
    Mode = "review"
    Requests <- MCRequests
    Accounts <- MCAccounts
    MaxCalls = 1
    MaxFaults = 1
    MaxStops = 1
INVARIANTS
    AnswersAndRecordsAgree
    AcceptedIdsAreUnique
    SnapshotsDoNotOverclaim
PROPERTIES
    EveryCallIsAnswered
CHECK_DEADLOCK FALSE
