SPECIFICATION PipelineSpec
CONSTANTS
    Buffers <- AllBuffers
    NoBuffer <- MCNoBuffer
    Pipes <- MCPipes
    MaxSets = 5
    Sizes <- MCSizes
    Failures <- CleanFailures
    MaxCmdbufs = 2
    Jobs <- AllJobs
    Dimensions <- AllDimensions
INVARIANTS
    SameAsReference
    RoomForNextDispatch
    NothingLeftBehind
    CleanInv
    BlursLikeReference
