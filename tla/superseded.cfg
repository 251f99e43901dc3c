SPECIFICATION ContestedSpec
CONSTANTS
    n1 = n1
    n2 = n2
    n3 = n3
    n4 = n4
    n5 = n5
    v = v
    Nil = Nil
    Node <- Quintet
    Bootstrap <- Quintet
    Value <- OneValue
    Configs <- None
    SnapshotThreshold = 0
    SnapshotTrailing = 0
    Campaigners <- Third
    MaxTerm = 3
    MaxIndex = 2
    MaxReads = 0
    MaxCrashes = 0
    MaxInFlight = 2
    Reliable = FALSE
SYMMETRY VoterSymmetry
INVARIANT RejectedNeverApplied
