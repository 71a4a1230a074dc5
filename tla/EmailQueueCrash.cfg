CONSTANTS
    s1 = s1  s2 = s2  t1 = t1  t2 = t2  c1 = c1
    Email <- MC_OneEmail
    Server <- MC_OneServer
    Ticker <- MC_OneTicker
    Caller <- MC_NoCaller
    Priorities <- MC_OnePriority
    RetryLimits <- MC_OneRetryLimit
    TimerLimit = 1
    BackupLimit = 1
    MaxRequests = 0
    MaxFaults = 1
    AnswersLost = FALSE
SPECIFICATION FairSpec
PROPERTY AutomaticProcessing
