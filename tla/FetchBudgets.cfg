CONSTANTS
    Hosts <- MCHosts
    NoHost = NoHost
    Timeout = 3
    Grace = 1
    RenderBudget = 1
    Deadline = 8
    StageReserve = 2
    LocalSeconds = 2
    MaxRetries = 2
    MaxDelay = 1
    Limit = 5
    Reserved = 2
    DenialLimit = 2
SPECIFICATION FairSpec
INVARIANTS
    LaterTimeIsKept
    ReserveServesEvidence
    DeniersAreLeftAlone
    BlameIsJust
PROPERTIES
    FetchesEnd
CHECK_DEADLOCK FALSE
