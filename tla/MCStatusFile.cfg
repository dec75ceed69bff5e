SPECIFICATION Spec
CONSTANTS
    Savers = {"ticker"}
    Inodes <- MCInodes
    FailThreshold = 2
    Retention = 1
    Damage = {}
    MaxVersion = 3
    MaxDay = 2
    MaxRestarts = 2
INVARIANTS
    MainWhole
PROPERTIES
    ImplementsDurable
