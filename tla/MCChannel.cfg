SPECIFICATION ChannelFairSpec
CONSTANTS
  LengthTable = {1}
  LowSize = 2
  HighSize = 3
  Audible = 2
  WordSize = 11
  Controls <- MCControls
  Sweeps <- MCSweeps
  Reloads = {0, 1}
  NoisePeriods = {1, 2}
  FirstPeriod = 1
  Loudest = 1
  Steps = 2
  Width = 4
  Tap = 2
INVARIANTS NoStaleNote
PROPERTIES NotesEnd SweepSettles NoiseRecurs
