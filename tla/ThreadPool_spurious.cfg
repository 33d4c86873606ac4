SPECIFICATION SpuriousSpec
CONSTANTS
    NumWorkers = 2
    Word = 8
    Ranges <- FewRanges
    Tasks <- MCTasks
    InitCodes <- OnlySuccess
    MaxCalls = 1
    MaxReentries = 0
INVARIANTS
    CalledOncePerNumber
