SPECIFICATION LiveSpec
CONSTANTS
    Deciders = {"approver", "operator"}
    Run = {r1, r2}
    Ticket = {t1, t2}
    Intent = {i1}
    DeadlineMinutes = 1
    ExecutionTTL = 1
    AllowedSkew = 0
    MaxAge = 1
    MaxClock = 2
    MaxLag = 0
    MaxOther = 1
INVARIANTS
    LiveTypeOK
    OneRequestPerArtifact
    DispatchIsApproved
    GrantedArtifactsVerify
    ExitCodesAreHonest
    ReportedRunsSentOnce
    LicensedRetryIsSafe
    ConfirmationIsSound

    
SYMMETRY LiveSymmetry
CHECK_DEADLOCK FALSE
