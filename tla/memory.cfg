SPECIFICATION Spec
CONSTANTS
  v1 = v1
  v2 = v2
  NrTasks = 4
  NUM_PAG_DATA = 2
  NrFrames = 7
  Values = {v1, v2}
SYMMETRY Symmetry
INVARIANTS
  TypeOK
  UserReachesOwnPages
  FramesPrivate
  NoFrameLost
PROPERTY
  ImplementsAddressSpaces
