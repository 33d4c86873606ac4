SPECIFICATION FairSpec
CONSTANTS
    NumWorkers = 2
    Word = 32
    Ranges <- ManyRanges
    Tasks <- MCTasks
    InitCodes <- MCInitCodes
    MaxCalls = 3
    MaxReentries = 1
INVARIANTS
    WorkersReadyBetweenCalls
    ReentryReported
    IInv
PROPERTIES
    Refinement
    CallsReturn
