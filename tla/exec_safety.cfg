CONSTANTS
    Jobs = {j1}
    Users = {u1, u2}
    Operators = {o1}
    MaxOperations = 1
    Workers = {w1, w2}
    MaxExecs = 1
    MaxAttempts = 3
    LeaseTicks = 2
    RetainedJobs = {r1, r2}
    BundleFiles = 2
    PurgeCommands = {c1, c2}
    MaxPurges = 2
    MaxMishaps = 1

SPECIFICATION TrainingSpec
SYMMETRY TrainingSymmetry
CHECK_DEADLOCK FALSE

INVARIANTS
    TypeOK
    ExecutionFence
    OwnerAttempt
    OneOwner
    OwnedBytes
    AttemptsAgree
    PurgePromise
    PurgeTypeOK
    PurgeBooks

PROPERTIES
    AttemptHistory
    CancelNeverSucceeds
