SPECIFICATION SettledSpec
CONSTANTS
    n1 = n1
    n2 = n2
    n3 = n3
    n4 = n4
    n5 = n5
    v = v
    Nil = Nil
    Node <- Trio
    Bootstrap <- Trio
    Value <- None
    Configs <- None
    SnapshotThreshold = 1
    SnapshotTrailing = 0
    Campaigners <- Second
    MaxTerm = 2
    MaxIndex = 1
    MaxReads = 1
    MaxCrashes = 0
    MaxInFlight = 2
    Reliable = FALSE

INVARIANT ReadsFresh
PROPERTY AppliedIsDurable
