SPECIFICATION Spec
CONSTANTS
    MaxAttempts = 1
    Importers = {i1}
    MaxBuilds = 1
    MaxEvaluations = 2
INVARIANT RemovalsKeepScope
CHECK_DEADLOCK FALSE
