SPECIFICATION Spec
CONSTANTS
    Jobs = {j1, j2}
    SourceTabs = {s1}
    OtherTabs = {}
    NewTabs = {t1, t2}
    Handlers = {h1, h2}
    MaxRecords = 1
    Earlier = 0
    MaxCaptures = 2
    MaxEvents = 1
    None = None
SYMMETRY Symmetric
INVARIANTS TypeOK NothingMissed CapturedOnce
