SPECIFICATION Spec
CONSTANTS
  NrTasks = 2
  NUM_CHANNELS = 4
  NUM_DYNAMIC_CHANNELS = 5
  MAX_FILES = 3
  MAX_BLOCKS = 2
  BLOCK_SIZE = 1
  SYSBUFF_SIZE = 1
  ENOSPC = 3
  Names = {"a"}
  Flags = {1, 5, 6, 7, 15}
  Counts = {1, 2}
  FdArgs = {3, 4}
  MaxCloses = 1
CONSTRAINT ChainsSound
CHECK_DEADLOCK FALSE
INVARIANTS
  TypeOK
  OffsetWithinFile
  AccessAsCreated
  DeviceEntriesStay
PROPERTY
  FileDescriptorsStay
