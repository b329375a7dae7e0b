SPECIFICATION FairSpec
CONSTANTS
  Target = 5
  Work = {0, 2, 4, 6}
  Nap = 3
  Buttons = 2
INVARIANTS ShownOnce PolledInOrder
PROPERTIES PairsOnTime Responsive
