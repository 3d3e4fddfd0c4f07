SPECIFICATION Spec
CONSTANTS
  SeqSpace = 4
  DefaultSize = 2
  Seqs = {0, 1, 2, 3}
  Sizes = {0, 2}
  Null = Null
INVARIANTS
  ListWellFormed
PROPERTIES
  CountsTheReadyRun
  ImplementsBuffer
  CallsReturn
\* a null dereference ends the process
CHECK_DEADLOCK FALSE
