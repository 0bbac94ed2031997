SPECIFICATION Spec
CONSTANTS
    Processes = {p1, p2}
    Companies = {c1, c2}
    Sites = {s1, s2}
    Careers = {k1, k2}
    BoardIds = {b1, b2, b3}
    MaxBoards = 2
    MaxAge = 1
    MaxClock = 3
    MaxCalls = 4
    NoUrl = NoUrl
    NoProcess = NoProcess
SYMMETRY Symmetric
INVARIANTS TypeOK CareerOfItsWebsite NewestBoardsFirst
PROPERTIES NeverOlder ImplementsAtomic
CHECK_DEADLOCK FALSE
