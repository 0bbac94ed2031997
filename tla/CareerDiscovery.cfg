SPECIFICATION Spec
CONSTANTS
  MaxCandidates = 6
  MaxFetches = 4
  BundleFetches = 2
  AtsFetches = 1
  Offers <- DiscoveryOffers
INVARIANTS
  WithinPassLimit
  NotVisitedAgain
  MissIsEarned
  EvidenceGoesFirst
  ReservesAreVisited
CHECK_DEADLOCK FALSE
