SPECIFICATION ApuSpec
CONSTANTS
  Step1 = 10
  Step2 = 11
  Step3 = 12
  Step4 = 13
  IrqFirst = 15
  IrqLast = 16
  Step5 = 18
  CounterMax = 31
  Periods = {0, 1}
  Slowest = 1
  Lengths = {1, 2}
  Bits = 2
INVARIANTS IrqAfterEnd SampleWhole
PROPERTIES KeepsSchedule LoopHasNoGap SignalsRecur
