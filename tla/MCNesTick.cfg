SPECIFICATION Spec
CONSTANTS
  FrameMin = 34
  FrameMax = 35
  VBlankLen = 12
  ResetPos = 30
  DmaBase = 7
  IntCycles = 3
  OpCycles = {2, 4}
INVARIANTS NmiExactlyOnce CyclesInLockstep ResetMasksIrq IrqLatency
