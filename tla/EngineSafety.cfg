\* Two requests, a chunked and a stop-sequence one, channels shallower than an
\* answer, clients that leave or time out, shutdown at any point.
SPECIFICATION Spec
CONSTANTS
  r1 = r1
  r2 = r2
  r3 = r3
  NoRequest = NoRequest
  Requests = {r1, r2}
  Streaming = {r1}
  Prompt <- PromptOne
  MaxTokens <- LimitMixed
  SubmitDepth = 2
  ChannelDepth = 2
  MaxConcurrent = 2
  KvBudget = 20
  HeadroomPercent = 10
  BytesPerToken = 1
  Greedy = {r1, r2}
  WithLogprob = {}
  WithStop = {r2}
  ChunkSize = 2
  LoopBound = 2
  MayShutdown = TRUE
INVARIANTS
  TypeOK
  Inv
  SentinelIsLast
  AnswerIsWhole
  ReasonIsTrue
  KvCoversTokens
PROPERTIES
  TransitionsAreLegal
  ImplementsLifecycle
CHECK_DEADLOCK FALSE
