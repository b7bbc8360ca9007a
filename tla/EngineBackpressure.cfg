\* A client leaves before its answer fits the channel; another one waits.
SPECIFICATION FairSpec
CONSTANTS
  r1 = r1
  r2 = r2
  r3 = r3
  NoRequest = NoRequest
  Requests = {r1, r2}
  Streaming = {r1, r2}
  Prompt <- PromptOne
  MaxTokens <- LimitMixed
  SubmitDepth = 2
  ChannelDepth = 2
  MaxConcurrent = 2
  KvBudget = 20
  HeadroomPercent = 10
  BytesPerToken = 1
  Greedy = {r1, r2}
  WithLogprob = {}
  WithStop = {r2}
  ChunkSize = 2
  LoopBound = 2
  MayShutdown = FALSE
PROPERTIES
  BackpressureIsPerRequest
CHECK_DEADLOCK FALSE
