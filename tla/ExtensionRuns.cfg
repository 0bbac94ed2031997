CONSTANTS
    Workers = 2
    Sizes <- MCSizes
    MaxRetries = 1
    MaxRuns = 2
    MaxRestarts = 1
    NoRun = NoRun
SPECIFICATION FairSpec
INVARIANTS
    OneRunAtATime
    NoStuckControl
    UnfinishedRunIsKept
PROPERTIES
    RunsEnd
    FlightsEnd
