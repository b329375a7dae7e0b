SPECIFICATION FairSpec
CONSTANTS
  NtscLines = 6
  PalLines = 7
  Dots = 5
  Visible = 1
  VBlankLine = 2
INVARIANTS OncePerVBlank
PROPERTIES FramesAlternate FramesComplete
