SPECIFICATION Spec
CONSTANTS
  Processes <- MCProcesses
  Directories <- MCDirectories
  Pixels <- MCPixels
  Names <- MCNames
  Scenarios <- MCScenarios
INVARIANTS
  ScoredLikeReference
  AllOrNothing
  OutputsKeepPixels
\* All processes have ended.
CHECK_DEADLOCK FALSE
