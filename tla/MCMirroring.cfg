SPECIFICATION CartSpec
CONSTANTS
  PrgSizes = {2}
  ChrSizes = {2}
  MaxLoads = 1
  Images <- MCSwitching
  Addresses = {32768, 57344}
  Values = {0, 1, 128}
  NameTables = {1, 4}
  Colours = {}
  MaxStores = 2
INVARIANTS MirroringFollows
