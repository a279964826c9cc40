SPECIFICATION Spec
CONSTANTS
  Producers = {p1, p2}
  Events = {a, b}
  NoEvent = none
  Capacity = 2
  Laps = 2
  MaxSignal = 2
  MaxDepth = 1
PROPERTIES PublishAppends
CHECK_DEADLOCK FALSE
