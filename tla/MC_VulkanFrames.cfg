SPECIFICATION FairSpec
CONSTANTS
  MaxFrames = 2
  Images = {a, b, c}
  Swapchains = {{a, b}, {a, b, c}}
  NoImage = none
  MaxInits = 2
INVARIANTS  FrameExclusive SignalsConsumed
PROPERTIES DrawReturns
CHECK_DEADLOCK FALSE
