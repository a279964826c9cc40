CONSTANTS
  Room = 24
  MaxFrames = 5
SPECIFICATION StreamFairSpec
INVARIANTS GarbledNeedsLoss WholeWithoutLoss ForeignFrameOnce
PROPERTIES FeedSafe StopReturns
CHECK_DEADLOCK FALSE
