SPECIFICATION Spec
CONSTANTS
  SeqSpace = 4
  DefaultSize = 2
  Seqs = {0, 1, 2, 3}
  Sizes = {0, 2}
  Null = Null
INVARIANT AddPlacesEveryBlock
CHECK_DEADLOCK FALSE
