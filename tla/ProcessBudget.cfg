SPECIFICATION PBSpec
CONSTANTS
  h1 = h1
  h2 = h2
  Helpers <- MCHelpers
INVARIANTS ReturnedAsPublished NoSurvivors
PROPERTY ReturnsUnlessOrphaned
CHECK_DEADLOCK FALSE
