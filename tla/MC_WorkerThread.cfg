SPECIFICATION WorkerFairSpec
CONSTANTS
  Callers = {a, b}
  MaxStarts = 2
INVARIANTS OneWorker OwnRegistration
PROPERTIES StopCompletes
CHECK_DEADLOCK FALSE
