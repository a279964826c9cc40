SPECIFICATION FairSpec
CONSTANTS
  Producers = {p1}
  Events = {a, b}
  NoEvent = none
  Capacity = 2
  Laps = 3
  MaxSignal = 2
  MaxDepth = 2
INVARIANTS NoSlotRace NoLostWakeup
PROPERTIES ChannelSafe EventuallyTaken
CHECK_DEADLOCK FALSE
