\* A budget that holds either request alone, to its last token, and not both.
SPECIFICATION Spec
CONSTANTS
  r1 = r1
  r2 = r2
  r3 = r3
  NoRequest = NoRequest
  Requests = {r1, r2}
  Streaming = {r1}
  Prompt <- PromptOne
  MaxTokens <- LimitMixed
  SubmitDepth = 2
  ChannelDepth = 2
  MaxConcurrent = 2
  KvBudget = 12
  HeadroomPercent = 10
  BytesPerToken = 2
  Greedy = {}
  WithLogprob = {}
  WithStop = {}
  ChunkSize = 2
  LoopBound = 2
  MayShutdown = FALSE
INVARIANTS
  KvWithinBudget
CHECK_DEADLOCK FALSE
