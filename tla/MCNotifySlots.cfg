SPECIFICATION FairSpec
CONSTANTS
    http = http
    tls = tls
    dns = dns
    n1 = n1
    n2 = n2
    w1 = w1
    w2 = w2
    w3 = w3
    Checks = {tls}
    Names = {n1}
    NameOf <- MCNameOf
    Tls = {tls}
    Metrics = {"lcp"}
    Webhooks = {w1, w2}
    Events <- MCEvents
    Severities <- MCSeverities
    Cooldown <- MCCooldown
    FailThreshold = 1
    MaxConcurrentSends = 1
    WarnDays = 2
    CriticalDays = 1
    DayLength = 2
    ExpiryTimes <- MCWarnOrHealthy
    MaxClock = 0
    MaxFails = 1
INVARIANTS
    SlotsAccounted
PROPERTIES
    SendsFinish
