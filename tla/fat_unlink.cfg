SPECIFICATION Spec
CONSTANTS
  MAX_FILES = 2
  MAX_BLOCKS = 3
  BLOCK_SIZE = 1
  Modes = {2}
  Buffers <- ShortOnly
PROPERTY
  UnlinkFreesBlocks
