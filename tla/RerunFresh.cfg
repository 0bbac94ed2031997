SPECIFICATION Spec
CONSTANTS
  StageCount = 5
  UpstreamLast = 1
  MaxPhases = 4
  Resumes <- NoStages
  Reruns <- MCReruns
PROPERTY RerunIsFresh
