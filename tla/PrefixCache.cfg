\* A plain entry of four tokens does not fit the memory tier, two plain ones do not fit
\* the disk together; the process may die and files may fail at any step.
SPECIFICATION Spec
CONSTANTS
  BlockSize = 2
  MemoryBudget = 7
  DiskBudget = 8
  HeaderBytes = 1
  Torn = Torn
  CacheTypes <- Types
  BytesPer <- Bytes
  Prompts <- SharedPrompts
  OnDisk <- ChunkAndMore
  MayFailIO = TRUE
INVARIANTS
  PrefillIsExact
  RepeatHits
  TiersWithinBudget
PROPERTIES
  HitSurvives
