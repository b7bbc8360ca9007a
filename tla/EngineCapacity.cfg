\* Three requests for two slots: a queue forms and admission is contended.
SPECIFICATION Spec
CONSTANTS
  r1 = r1
  r2 = r2
  r3 = r3
  NoRequest = NoRequest
  Requests = {r1, r2, r3}
  Streaming = {r1}
  Prompt <- PromptOne
  MaxTokens <- LimitEdge
  SubmitDepth = 2
  ChannelDepth = 3
  MaxConcurrent = 2
  KvBudget = 20
  HeadroomPercent = 10
  BytesPerToken = 1
  Greedy = {r1}
  WithLogprob = {}
  WithStop = {}
  ChunkSize = 2
  LoopBound = 2
  MayShutdown = FALSE
INVARIANTS
  CapacityRespected
  SubmitFits
  KvConserved
