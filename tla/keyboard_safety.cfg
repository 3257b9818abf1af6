SPECIFICATION Spec
CONSTANTS
  t1 = t1
  t2 = t2
  k1 = k1
  k2 = k2
  Tasks = {t1, t2}
  Keys = {k1, k2}
  CIRC_BUFF_SIZE = 4
  Counts = {0, 1, 2, 3, 4, 5}
SYMMETRY Symmetry
INVARIANTS
  TypeOK
  CountMatchesPositions
  FirstReaderLacksKeys
PROPERTY
  ImplementsTerminal
