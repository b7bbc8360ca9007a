\* Channels that hold a whole answer and its sentinel; clients may leave, the server shut down.
SPECIFICATION FairSpec
CONSTANTS
  r1 = r1
  r2 = r2
  r3 = r3
  NoRequest = NoRequest
  Requests = {r1, r2}
  Streaming = {r1}
  Prompt <- PromptOne
  MaxTokens <- LimitShort
  SubmitDepth = 2
  ChannelDepth = 3
  MaxConcurrent = 2
  KvBudget = 20
  HeadroomPercent = 10
  BytesPerToken = 1
  Greedy = {r1}
  WithLogprob = {}
  WithStop = {}
  ChunkSize = 2
  LoopBound = 2
  MayShutdown = TRUE
INVARIANTS
  EngineNeverWaits
PROPERTIES
  EveryRequestIsEnded
  WaitingClientIsServed
  KvIsReleased
  ShutdownEndsRunning
CHECK_DEADLOCK FALSE
