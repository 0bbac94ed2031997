SPECIFICATION Spec
CONSTANTS
  StageCount = 5
  UpstreamLast = 1
  MaxPhases = 3
  Resumes <- NoStages
  Reruns <- MCDownstream
PROPERTIES OwnWorkKept ImplementsChain
