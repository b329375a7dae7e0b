SPECIFICATION MCSpec
CONSTANTS
  Tiles = 2
  Columns = 2
  Rows = 4
  LastRow = 1
  Fine = 2
  LowRows = 2
  Block = 1
  Idle = 1
  CopyFrom = 18
  CopyTo = 19
  Prefetch = 25
  PaletteFrom = 15
  Scrolls = {5, 14}
  Highs = {11}
  Lows = {2}
  Masks <- MCMasks
  Setup = 3
  MaxAccesses = 4
INVARIANTS PixelsScrolled ReadsInOrder
PROPERTIES PairLands
CHECK_DEADLOCK FALSE
