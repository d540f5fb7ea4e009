SPECIFICATION Spec
CONSTANTS
    MaxAttempts = 2
    Importers = {i1}
    MaxBuilds = 2
    MaxEvaluations = 2
INVARIANTS
    ArtifactsTypeOK
    BundlesStand
    DatasetsStand
    EvaluationsStand
\* Everything may be stopped or cleaned up for good.
CHECK_DEADLOCK FALSE
