CONSTANTS
    Workers = {w1, w2}
    Reconcilers = {r1}
    MaxAttempts = 2
    MaxOperations = 2
    Processes = {w1, w2}
    MaxExtractions = 2
    MaxClaims = 2
    MaxIndexings = 2
    MaxRows = 3
    MaxFaults = 2
    NChunks = 2
    MaxAnswers = 1

SPECIFICATION PublishingSpec
SYMMETRY Symmetry
\* Everything may have ended, be deleted or be stopped for good.
CHECK_DEADLOCK FALSE

INVARIANTS
    TypeOK
    OneActiveAttempt
    FinalIsRecorded
    CleanedNeverPublished
    KnowledgeTypeOK
    ExtractedBytes
    SucceededPoints

PROPERTIES
    OnlyGivenUpRemoved
    AttemptHistory
    CancelledClaimNeverSucceeds
    ImplementsPromise
    AnswersStand
