\* Two programs, two scan threads (a third START is a failed pthread_create)
\* and two devices: one thread may be inside push_back while a START clears.
SPECIFICATION BtSpec
CONSTANTS
  Callers = {app1, app2}
  ScanThreads = {t1, t2}
  MaxDevices = 2
  Garbage = Garbage
  NoOne = NoOne
INVARIANTS SoleScanInOrder RaceNeedsEarlyStop
PROPERTIES ScanEnds RequestServed
