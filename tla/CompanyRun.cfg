SPECIFICATION Spec
CONSTANTS
  StageCount = 5
  UpstreamLast = 1
  MaxPhases = 3
  Resumes <- MCResumes
  Reruns <- NoStages
INVARIANTS ResultsOfOneRun NegativesAreOwn
PROPERTIES PrefixKept RetryIsFresh
