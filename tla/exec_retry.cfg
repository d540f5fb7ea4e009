CONSTANTS
    Jobs = {j1}
    Users = {u1, u2}
    Operators = {o1}
    MaxOperations = 1
    Workers = {w1, w2}
    MaxExecs = 1
    MaxAttempts = 3
    LeaseTicks = 1

SPECIFICATION Spec
SYMMETRY Symmetry
CHECK_DEADLOCK FALSE

PROPERTY
    NoAutomaticRetry
