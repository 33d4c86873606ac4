SPECIFICATION FairSpec
CONSTANTS
    MaxThreads = 3
    Word = 16
    Ranges <- FewRanges
    Tasks <- MCTasks
    InitCodes <- MCInitCodes
    MaxCalls = 3
INVARIANTS
    IInv
    ThreadIdBelowNumThreads
    QuietBetweenCalls
PROPERTIES
    Refinement
    CallsReturn
