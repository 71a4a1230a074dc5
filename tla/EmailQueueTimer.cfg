CONSTANTS
    s1 = s1  s2 = s2  t1 = t1  t2 = t2  c1 = c1
    Email <- MC_Email
    Server <- MC_Servers
    Ticker <- MC_Tickers
    Caller <- MC_NoCaller
    Priorities <- MC_Priorities
    RetryLimits <- MC_RetryLimits
    TimerLimit = 2
    BackupLimit = 1
    MaxRequests = 0
    MaxFaults = 2
    AnswersLost = FALSE
SPECIFICATION Spec
INVARIANTS TypeOK AtMostOneCopy RoundsWithinLimit FailedMeansUndelivered
PROPERTY ImplementsOutbox
