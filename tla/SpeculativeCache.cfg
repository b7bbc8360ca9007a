\* A draft is rejected.
SPECIFICATION Spec
CONSTANTS
  r1 = r1
  r2 = r2
  NoRequest = NoRequest
  Requests = {r1, r2}
  Streaming = {r1}
  Prompt <- PromptOne
  MaxTokens <- LimitMixed
  SubmitDepth = 2
  ChannelDepth = 6
  MaxConcurrent = 1
  KvBudget = 30
  HeadroomPercent = 10
  BytesPerToken = 1
  WithStop = {}
  MayFail = FALSE
  MayShutdown = FALSE
  InitialDraft = 3
  MaxDraft = 3
  BackoffPercent = 50
INVARIANTS
  TargetCacheIsRight
CHECK_DEADLOCK FALSE
