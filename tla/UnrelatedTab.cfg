SPECIFICATION Spec
CONSTANTS
    Jobs = {j1}
    SourceTabs = {s1}
    OtherTabs = {}
    NewTabs = {t1}
    Handlers = {h1, h2}
    MaxRecords = 1
    Earlier = 0
    MaxCaptures = 1
    MaxEvents = 1
    None = None
SYMMETRY Symmetric
INVARIANTS UnrelatedTabsAreRefused
