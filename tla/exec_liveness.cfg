CONSTANTS
    Jobs = {j1}
    Users = {u1}
    Operators = {o1}
    MaxOperations = 1
    Workers = {w1, w2}
    MaxExecs = 1
    MaxAttempts = 3
    LeaseTicks = 1
    RetainedJobs = {r1, r2}
    BundleFiles = 2
    PurgeCommands = {c1, c2}
    MaxPurges = 1
    MaxMishaps = 2

SPECIFICATION TrainingLive
CHECK_DEADLOCK FALSE

PROPERTIES
    TrainingSettles
