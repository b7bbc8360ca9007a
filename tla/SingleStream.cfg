\* Channels shallower than an answer, failures at any point.
SPECIFICATION FairSpec
CONSTANTS
  r1 = r1
  r2 = r2
  NoRequest = NoRequest
  Requests = {r1, r2}
  Streaming = {r1}
  Prompt <- PromptOne
  MaxTokens <- LimitMixed
  SubmitDepth = 2
  ChannelDepth = 2
  MaxConcurrent = 1
  KvBudget = 30
  HeadroomPercent = 10
  BytesPerToken = 1
  WithStop = {r2}
  MayFail = TRUE
  MayShutdown = FALSE
  Chunkable = {r1}
  ChunkSize = 2
INVARIANTS
  TypeOK
  AnswerIsWhole
  ReasonIsTrue
  KvIsSettled
PROPERTIES
  ImplementsLifecycle
  EveryRequestIsEnded
  WaitingClientIsServed
CHECK_DEADLOCK FALSE
