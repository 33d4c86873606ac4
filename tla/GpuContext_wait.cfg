SPECIFICATION Spec
CONSTANTS
    Buffers = {b1, b2, b3}
    NoBuffer = NoBuffer
    Pipes = {p1}
    MaxSets = 3
    Sizes <- MCSizes
    Failures <- WaitFails
    MaxCmdbufs = 2
SYMMETRY Symmetry
INVARIANTS
    InFlightAlive
