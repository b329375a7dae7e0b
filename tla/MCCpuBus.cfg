CONSTANTS
  B = 4
  Code <- MCCode
  Program <- AllOpcodes
  Indices = {0, 3}
SPECIFICATION BusSpec
INVARIANTS CyclesAsFirst NextAsFirst AccessesAsFirst
CHECK_DEADLOCK FALSE
