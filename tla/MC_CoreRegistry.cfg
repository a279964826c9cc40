SPECIFICATION Spec
CONSTANTS
  Threads = {t1, t2, t3}
  Modules = {bluetooth, wifi}
  Core = core
  None = none
  MaxRefs = 2
SYMMETRY Interchangeable
INVARIANTS TableConsistent ShutdownReleases SymbolOfItsModule
CHECK_DEADLOCK FALSE
