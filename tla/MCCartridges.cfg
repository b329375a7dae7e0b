SPECIFICATION CartSpec
CONSTANTS
  PrgSizes = {2, 4, 8, 16}
  ChrSizes = {2, 4, 32}
  MaxLoads = 2
  Images <- MCImages
  Addresses = {24575, 24576, 32768, 40960, 57343, 65535}
  Values = {0, 9, 128}
  NameTables = {1, 7}
  Colours = {0, 16}
  MaxStores = 1
INVARIANTS UpperIsLast ReadsInside ImageAsWired CellsAsWired
PROPERTIES LoadsWord
