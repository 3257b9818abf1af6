SPECIFICATION Spec
CONSTANTS
  k1 = k1
  NrTasks = 3
  DefaultQuantum = 1
  MaxQuantum = 1
  MaxPid = 3
  MemoryMayRunOut = TRUE
  Keys = {k1}
  CIRC_BUFF_SIZE = 3
  Counts = {1, 2}
INVARIANT
  FieldsOfReaders
PROPERTIES
  ImplementsKeyboard
  EveryReadyTaskRuns
  EveryReaderReturns
