SPECIFICATION Spec
CONSTANTS
    Commands = {c1}
    Files = 2
    MaxOperations = 2
    MaxFaults = 1
    MaxStops = 1
INVARIANT CompletedPurgeReleases
CHECK_DEADLOCK FALSE
