\* Two slots, a budget of 8 bytes of which 15 % (1 byte, rounded down) is headroom.
SPECIFICATION Spec
CONSTANTS
  MaxConcurrent = 2
  KvBudget = 8
  HeadroomPercent = 15
  BytesPerToken = 2
  Tokens <- SizesAround
  KvLevels <- LevelsAround
  Counts <- CountsAround
PROPERTIES
  Monotonic
