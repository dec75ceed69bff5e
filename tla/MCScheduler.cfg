SPECIFICATION Spec
CONSTANTS
    a = a
    b = b
    c = c
    Checks = {a, b, c}
    Registered = {a, b}
    Valid = {a, b}
    Dateless = {b}
    Staggered = {a}
    DegradedAfter = {b}
    RetryCount <- MCRetryCount
    ResultsCap = 2
INVARIANTS
    TypeOK
    NoSendOnClosed
    WgCountsLive
    FailureExhaustsRetries
PROPERTIES
    ImplementsStream
