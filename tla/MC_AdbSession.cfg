\* Three commands in a session, two packets of output each.
SPECIFICATION FairSpec
CONSTANTS
  MaxCommands = 3
  MaxPackets = 2
  ShortReads = TRUE
INVARIANTS OutputOfItsCommand ConnectedMeansClean
PROPERTIES WholeOutput CallsReturn
