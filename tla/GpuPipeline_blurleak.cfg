SPECIFICATION PipelineSpec
CONSTANTS
    Buffers <- AllBuffers
    NoBuffer <- MCNoBuffer
    Pipes <- MCPipes
    MaxSets = 64
    Sizes <- MCSizes
    Failures <- DispatchFails
    MaxCmdbufs = 2
    Jobs <- OneOfEach
    Dimensions <- TwoScales
INVARIANTS
    NothingLeftBehind
