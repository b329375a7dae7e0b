CONSTANTS
  B = 8
SPECIFICATION AluSpec
INVARIANTS WideArithmetic ComputesAsFirst
CHECK_DEADLOCK FALSE
