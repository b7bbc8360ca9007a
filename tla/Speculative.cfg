\* Channels shallower than an answer, failures and shutdown at any point.
SPECIFICATION FairSpec
CONSTANTS
  r1 = r1
  r2 = r2
  NoRequest = NoRequest
  Requests = {r1, r2}
  Streaming = {r1}
  Prompt <- PromptOne
  MaxTokens <- LimitMixed
  SubmitDepth = 2
  ChannelDepth = 2
  MaxConcurrent = 1
  KvBudget = 30
  HeadroomPercent = 10
  BytesPerToken = 1
  WithStop = {}
  MayFail = TRUE
  MayShutdown = TRUE
  InitialDraft = 3
  MaxDraft = 3
  BackoffPercent = 50
INVARIANTS
  TypeOK
  AnswerIsWhole
  TargetCacheCovers
PROPERTIES
  ImplementsLifecycle
  EveryRequestIsEnded
CHECK_DEADLOCK FALSE
