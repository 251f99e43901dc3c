SPECIFICATION Spec
CONSTANTS
    Nil = Nil
    Term = {1, 2}
    MaxIndex = 3
    MaxCrashes = 2
INVARIANT AlwaysOpens
