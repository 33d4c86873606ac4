SPECIFICATION PipelineSpec
CONSTANTS
    Buffers <- AllBuffers
    NoBuffer <- MCNoBuffer
    Pipes <- MCPipes
    MaxSets = 64
    Sizes <- MCSizes
    Failures <- SettledFailures
    MaxCmdbufs = 2
    Jobs <- SinglePass
    Dimensions <- TwoScales
INVARIANTS
    SameAsReference
    ResultInv
