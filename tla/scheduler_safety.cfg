SPECIFICATION LinkedSpec
CONSTANTS
  NrTasks = 3
  NrSem = 1
  MaxInt = 1
  DefaultQuantum = 1
  MaxQuantum = 2
  MaxPid = 3
  MemoryMayRunOut = TRUE
INVARIANTS
  TypeOK
  ListsPartition
  RunqueueNeverEmpty
  StateMatchesList
  QuantumInSync
  UniquePids
  NoForgottenWaiter
  WokenWithResult
  InterruptsAcknowledged
  LinksDenoteLists
PROPERTIES
  WaitersReleasedInOrder
  ImplementsDispatch
