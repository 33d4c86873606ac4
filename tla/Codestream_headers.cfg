CONSTANTS
  MaxBits = 600
  MaxBytes = 1
  MaxSpan = 0
  MaxSkip = 400
  NumWeights <- MCNumWeights
  NumMatrix <- MCNumMatrix
  Codestreams <- MCCodestreams
SPECIFICATION Spec
INVARIANTS PenOnZeros ChargedOnce ReaderCounts ReadsBack ToldWhenCut ExactlyEncoded
PROPERTIES WriterSpec
CHECK_DEADLOCK FALSE
