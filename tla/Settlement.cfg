SPECIFICATION FairSettleSpec
CONSTANTS
    PollInterval = 3
    DeadlineSeconds = 19
    MaxErrors = 2
    StateMayBeMissing = TRUE
INVARIANTS
    RetryRestsOnARecentContradiction
    FirstConclusiveStateDecides
    OnlyASilentObserverIsInconclusive
PROPERTIES
    SettlingEnds
CHECK_DEADLOCK FALSE
