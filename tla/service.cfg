SPECIFICATION ServiceSpec
CONSTANTS
    Client = {c1}
    Replica = {r1, r2}
    Call = {k1, k2}
    Nil = Nil
    Window = 2
    MaxSeq = 3
    MaxLog = 3
    MaxProposals = 3
    MaxReads = 1
    MaxCrashes = 1
SYMMETRY ServiceSymmetry
CHECK_DEADLOCK FALSE
INVARIANTS AtMostOnce NothingSkipped ReplicasAgree ReadsLinearizable
PROPERTIES ImplementsKvStore AckedTookEffect
