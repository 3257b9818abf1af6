SPECIFICATION Spec
CONSTANTS
  NrTasks = 3
  Calls <- MCCalls
  Args = {0}
  Outcomes <- MCOutcomes
  Files = {2}
CHECK_DEADLOCK FALSE
INVARIANTS
  TypeOK
  EntersOwnStack
PROPERTY
  ImplementsProcesses
