SPECIFICATION Spec
CONSTANTS
  NrTasks = 2
  NrSem = 1
  MaxInt = 1
  DefaultQuantum = 1
  MaxQuantum = 1
  MaxPid = 1
  MemoryMayRunOut = FALSE
INVARIANT
  NoNegativeValue
