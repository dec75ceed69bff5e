SPECIFICATION Spec
CONSTANTS
    Savers = {"ticker", "main"}
    Inodes <- MCInodes
    FailThreshold = 2
    Retention = 1
    Damage = {}
    MaxVersion = 2
    MaxDay = 0
    MaxRestarts = 0
INVARIANTS
    ConcurrentSavesSafe
