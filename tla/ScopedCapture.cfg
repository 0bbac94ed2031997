CONSTANTS
    Companies = {c1, c2}
    Requests = {u1, u2}
    LastStage = 1
    MaxAttempts = 1
    MaxRequests = 2
    MaxSequence = 3
    MaxFailures = 2
    Nobody = Nobody
SPECIFICATION Spec
SYMMETRY Symmetry
INVARIANTS
    TypeOK
    SavedScopesLoad
    ReplayRepeatsTheCapture
CHECK_DEADLOCK FALSE
