SPECIFICATION Spec
CONSTANTS
  MAX_FILES = 2
  MAX_BLOCKS = 3
  BLOCK_SIZE = 2
  Modes = {2}
  Buffers <- MCBuffers
CONSTRAINT StillSound
INVARIANTS
  TypeOK
  CountersMatchLists
  ReadsBack
PROPERTY
  ImplementsFiles
