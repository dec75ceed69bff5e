SPECIFICATION FairSpec
CONSTANTS
    Savers = {"ticker"}
    Inodes <- MCInodes
    FailThreshold = 2
    Retention = 1
    Damage = {"corrupt", "wipe"}
    MaxVersion = 1
    MaxDay = 1
    MaxRestarts = 1
PROPERTIES
    HealthFollowsDisk
    PushesPersist
    DamageHeals
