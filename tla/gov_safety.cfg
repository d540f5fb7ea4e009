SPECIFICATION Spec
CONSTANTS
    a1 = a1
    a2 = a2
    s1 = s1
    e1 = e1
    e2 = e2
    Base = base
    Adapters = {a1, a2}
    Suites = {s1}
    Evaluations = {e1, e2}
    Workers = {w1, w2}
    Answers = {x1}
    AdapterOf <- MCAdapterOf
    SuiteOf <- MCSuiteOf
    MaxDeployments = 3
    MaxPurges = 1
SYMMETRY Symmetry
INVARIANTS
    TypeOK
    BytesInUseStay
    ReviewsInUseStay
    ActiveOperationFits
PROPERTIES
    PointerMoves
    ImplementsPromise
CHECK_DEADLOCK FALSE
