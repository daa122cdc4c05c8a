\* Delays 1, 2, 3 and timeouts 2, 3 under a total of 5.  A fetch may be a
\* unit late, and a call without limits is retried twice.  A finished call
\* stops.
CONSTANTS
    Codes = {"UNAVAILABLE", "NOT_FOUND"}
    Settings <- MCSettings
    InitialDelay = 1
    DelayMultiplier = 2
    MaxDelay = 3
    InitialTimeout = 2
    Lateness = 1
    MaxAttempts = 3
SPECIFICATION FairSpec
CHECK_DEADLOCK FALSE
INVARIANTS TypeOK ReportedOnce RetriesFitTotalTimeout CancelIsFinal
PROPERTIES CallsFinish
