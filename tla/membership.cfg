SPECIFICATION SettledSpec
CONSTANTS
    n1 = n1
    n2 = n2
    n3 = n3
    n4 = n4
    n5 = n5
    v = v
    Nil = Nil
    Node <- Trio
    Bootstrap <- Trio
    Value <- None
    Configs <- Shrinking
    SnapshotThreshold = 0
    SnapshotTrailing = 0
    Campaigners <- Pair
    MaxTerm = 3
    MaxIndex = 3
    MaxReads = 0
    MaxCrashes = 0
    MaxInFlight = 1
    Reliable = FALSE

INVARIANTS ElectionSafety LogMatching StateMachineSafety LeaderCompleteness MembershipDerived
