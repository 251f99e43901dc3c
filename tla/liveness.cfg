SPECIFICATION TimedLedSpec
CONSTANTS
    n1 = n1
    n2 = n2
    n3 = n3
    n4 = n4
    n5 = n5
    v = v
    Nil = Nil
    Node <- Trio
    Bootstrap <- Trio
    Value <- OneValue
    Configs <- WithoutThird
    SnapshotThreshold = 1
    SnapshotTrailing = 0
    Campaigners <- Trio
    MaxTerm = 4
    MaxIndex = 2
    MaxReads = 0
    MaxCrashes = 1
    MaxInFlight = 9
    Reliable = TRUE
    LinkStates <- Cuts
    MaxFaults = 1
INVARIANTS LeaderUndisturbed
PROPERTIES EventuallyOneLeader EveryoneCatchesUp RemovedLearns
