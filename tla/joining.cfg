SPECIFICATION Spec
CONSTANTS
    n1 = n1
    n2 = n2
    n3 = n3
    n4 = n4
    n5 = n5
    v = v
    Nil = Nil
    Node <- Trio
    Bootstrap <- Pair
    Value <- None
    Configs <- Growing
    SnapshotThreshold = 1
    SnapshotTrailing = 1
    Campaigners <- Pair
    MaxTerm = 2
    MaxIndex = 3
    MaxReads = 0
    MaxCrashes = 1
    MaxInFlight = 1
    Reliable = FALSE

SYMMETRY PairSymmetry
INVARIANTS TypeOK SnapshotExact MembershipDerived StateMachineSafety LeaderCompleteness VoteOnce HintsAreLeaders
