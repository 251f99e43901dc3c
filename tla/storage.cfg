SPECIFICATION Spec
CONSTANTS
    Nil = Nil
    Term = {1, 2}
    MaxIndex = 3
    MaxCrashes = 2
INVARIANTS MirrorIsDurable RefusesOnlyAfterCutInstall
PROPERTIES ImplementsAtomicStorage ReopenCompletesCompaction
