CONSTANTS
    Workers = {w1}
    Reconcilers = {r1}
    MaxAttempts = 2
    MaxOperations = 1

SPECIFICATION Spec
CHECK_DEADLOCK FALSE

INVARIANT
    ErrorCodesAreListed
