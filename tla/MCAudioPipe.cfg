SPECIFICATION FairSpec
CONSTANTS
  Unit = 2
  PerSample = 7
  TickMax = 6
  DmaMax = 20
  Capacity = 2
  MaxSamples = 6
INVARIANTS SlotSuffices
PROPERTIES NeverWaits LosesNewestOnly
