SPECIFICATION FairSpec
CONSTANTS
    NumWorkers = 0
    Word = 8
    Ranges <- FewRanges
    Tasks <- MCTasks
    InitCodes <- MCInitCodes
    MaxCalls = 5
    MaxReentries = 0
PROPERTIES
    Refinement
