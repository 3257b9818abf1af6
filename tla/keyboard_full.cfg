SPECIFICATION Spec
CONSTANTS
  t1 = t1
  k1 = k1
  Tasks = {t1}
  Keys = {k1}
  CIRC_BUFF_SIZE = 3
  Counts = {1, 2}
INVARIANT
  GetCharacterReturnsSize
