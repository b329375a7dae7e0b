SPECIFICATION MCSpec
CONSTANTS
  Count = 4
  Slots = 2
  EvalDots = 22
  Visible = 4
  Top = 5
  Small = 2
  Pages <- MCPages
  Addresses = {0, 9}
  Written = {2}
  Masks <- MCMasks
  Controls <- MCControls
  Opaque <- MCOpaque
  Background = {1, 2}
  MaxWrites = 4
INVARIANTS SpritesAsEvaluated OverflowAsScanned OamIsPage
PROPERTIES HitAsShown
CHECK_DEADLOCK FALSE
