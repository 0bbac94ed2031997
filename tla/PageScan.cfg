SPECIFICATION FairSpec
CONSTANTS
  Jobs = {j1, j2}
  NoJob = NoJob
  MaxScans = 2
INVARIANTS NothingLateIsShown
PROPERTIES SelectionRestored ScanEnds
