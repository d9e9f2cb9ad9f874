SPECIFICATION LoggerSpec
CONSTANTS
  c1 = c1
  c2 = c2
  Tasks <- MCTasks
  Sizes = {1, 2}
  Chunks = {1, 2}
  CapChoices = {0}
  OptionChoices <- MCHeadOnly
  EventSize = 1
  MaxSent = 3
  BufCap = 2
SYMMETRY MCSymmetry
INVARIANTS
  TruncationInIndex
