SPECIFICATION LiveSpec
CONSTANTS
    Commands = {c1, c2}
    Files = 2
    MaxOperations = 2
    MaxFaults = 1
    MaxStops = 1
INVARIANTS
    TypeOK
    DeletionOrder
    ItemsTellBytes
    CrashesNeverBlock
PROPERTIES
    PurgeHistory
    PurgeSettles
CHECK_DEADLOCK FALSE
