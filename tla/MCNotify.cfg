SPECIFICATION Spec
CONSTANTS
    http = http
    tls = tls
    dns = dns
    n1 = n1
    n2 = n2
    w1 = w1
    w2 = w2
    w3 = w3
    Checks = {http, tls, dns}
    Names = {n1, n2}
    NameOf <- MCNameOf
    Tls = {}
    Metrics = {}
    Webhooks = {w3}
    Events <- MCEvents
    Severities <- MCSeverities
    Cooldown <- MCCooldown
    FailThreshold = 2
    MaxConcurrentSends = 1
    WarnDays = 2
    CriticalDays = 1
    DayLength = 2
    ExpiryTimes <- MCExpiryTimes
    MaxClock = 2
    MaxFails = 3
INVARIANTS
    DebounceBounds
    SendsSpaced
    AlarmReachesSubscribers
SYMMETRY MCSymmetry
