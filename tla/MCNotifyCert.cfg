SPECIFICATION Spec
CONSTANTS
    http = http
    tls = tls
    dns = dns
    n1 = n1
    n2 = n2
    w1 = w1
    w2 = w2
    w3 = w3
    Checks = {tls}
    Names = {n1}
    NameOf <- MCNameOf
    Tls = {tls}
    Metrics = {}
    Webhooks = {w1}
    Events <- MCEvents
    Severities <- MCSeverities
    Cooldown <- MCCooldown
    FailThreshold = 3
    MaxConcurrentSends = 1
    WarnDays = 2
    CriticalDays = 1
    DayLength = 2
    ExpiryTimes <- MCExpiryTimes
    MaxClock = 1
    MaxFails = 3
INVARIANTS
    CriticalCertRaised
