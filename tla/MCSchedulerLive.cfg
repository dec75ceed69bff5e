SPECIFICATION FairSpec
CONSTANTS
    a = a
    b = b
    c = c
    Checks = {a, b}
    Registered = {a, b}
    Valid = {a}
    Dateless = {}
    Staggered = {a}
    DegradedAfter = {}
    RetryCount <- MCRetryCount
    ResultsCap = 1
PROPERTIES
    ShutdownCompletes
    LoopNeverStalls
    EveryCheckReports
