SPECIFICATION Spec
CONSTANTS
    Buffers = {b1, b2, b3, b4}
    NoBuffer = NoBuffer
    Pipes = {p1}
    MaxSets = 3
    Sizes <- MCSizes
    Failures <- SettledFailures
    MaxCmdbufs = 2
SYMMETRY Symmetry
INVARIANTS
    RecordedAlive
    IInv
