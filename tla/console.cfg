SPECIFICATION Spec
CONSTANTS
  NUM_COLUMNS = 5
  NUM_ROWS = 4
  StartRow = 2
  LastByte = 11
  TICS_PER_SEC = 2
  Minute = 4
  Base = 2
  Writes <- MCWrites
  Messages <- MCMessages
  Leftovers <- MCLeftovers
  MaxTics = 18
INVARIANTS
  TypeOK
  ClockShowsTime

  
